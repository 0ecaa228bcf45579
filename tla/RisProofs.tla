----------------------------- MODULE RisProofs -----------------------------
(***************************************************************************)
(* The nodes of a `collect` network, for every number of peers, every list *)
(* of collectors, every content of their tables and every history of disco-*)
(* veries, expiries and cut readings: who reads what, and that the map made*)
(* of it is the bottlenecks of what was read.                              *)
(***************************************************************************)
EXTENDS RisCollect, PathProofs

---------------------------------------------------------------------------
(* Concatenations.                                                         *)

(***************************************************************************)
(* The elements of the concatenation of sequences are those of any of them.*)
(***************************************************************************)
LEMMA ConcatRange ==
    ASSUME NEW A, NEW s \in Seq(A), NEW t \in Seq(A)
    PROVE  s \o t \in Seq(A) /\ Range(s \o t) = Range(s) \cup Range(t)
<1>1. /\ s \o t \in Seq(A) /\ Len(s \o t) = Len(s) + Len(t)
      /\ Len(s) \in Nat /\ Len(t) \in Nat
      /\ DOMAIN s = 1 .. Len(s) /\ DOMAIN t = 1 .. Len(t)
      /\ DOMAIN (s \o t) = 1 .. Len(s) + Len(t)
  OBVIOUS
<1>2. \A i \in 1 .. Len(s) : (s \o t)[i] = s[i]
  OBVIOUS
<1>3. \A i \in 1 .. Len(t) : (s \o t)[Len(s) + i] = t[i]
  OBVIOUS
<1> DEFINE u == s \o t
           m == Len(s)
           k == Len(t)
<1>4. ASSUME NEW i \in 1 .. m + k PROVE u[i] \in Range(s) \cup Range(t)
  <2>1. CASE i \in 1 .. m
    BY <1>1, <1>2, <2>1 DEF Range
  <2>2. CASE i \notin 1 .. m
    <3>1. i - m \in 1 .. k /\ m + (i - m) = i
      BY <1>1, <2>2
    <3>2. u[m + (i - m)] = t[i - m]
      BY <1>3, <3>1
    <3>3. u[i] = t[i - m] /\ i - m \in DOMAIN t
      BY <1>1, <3>1, <3>2
    <3> QED BY <3>3 DEF Range
  <2> QED BY <2>1, <2>2
<1>5. ASSUME NEW i \in 1 .. m PROVE s[i] \in Range(u)
  <2>1. i \in DOMAIN u
    BY <1>1
  <2> QED BY <1>2, <2>1 DEF Range
<1>6. ASSUME NEW i \in 1 .. k PROVE t[i] \in Range(u)
  <2>1. m + i \in DOMAIN u
    BY <1>1
  <2>2. u[m + i] = t[i]
    BY <1>3
  <2> QED BY <2>1, <2>2 DEF Range
<1> HIDE DEF u, m, k
<1>7. Range(u) = {u[i] : i \in 1 .. m + k} /\ Range(s) = {s[i] : i \in 1 .. m}
      /\ Range(t) = {t[i] : i \in 1 .. k}
  BY <1>1 DEF Range, u, m, k
<1>8. Range(u) = Range(s) \cup Range(t)
  BY <1>4, <1>5, <1>6, <1>7
<1> QED BY <1>1, <1>8 DEF u

(* So are those of all sequences of a sequence, one after the other. *)
LEMMA FlattenRange ==
    ASSUME NEW A, NEW seqs \in Seq(Seq(A))
    PROVE  /\ FlattenSeq(seqs) \in Seq(A)
           /\ Range(FlattenSeq(seqs)) = UNION {Range(seqs[i]) : i \in DOMAIN seqs}
<1> DEFINE n == Len(seqs)
           Is(f) == f = [i \in 1 .. n |-> IF i = 1 THEN seqs[i] ELSE f[i - 1] \o seqs[i]]
           f == CHOOSE f : Is(f)
           step == [i \in 1 .. n |-> [s \in Seq(A) |-> s \o seqs[i]]]
<1>1. n \in Nat /\ DOMAIN seqs = 1 .. n /\ \A i \in 1 .. n : seqs[i] \in Seq(A)
  OBVIOUS
<1>2. CASE n = 0
  <2>1. seqs = << >>
    BY <1>1, <1>2
  <2>2. FlattenSeq(seqs) = << >>
    BY <1>2, <2>1 DEF FlattenSeq
  <2>3. DOMAIN seqs = {} /\ << >> \in Seq(A) /\ Range(<< >>) = {}
    BY <1>1, <1>2 DEF Range
  <2>4. UNION {Range(seqs[i]) : i \in {}} = {}
    OBVIOUS
  <2> QED BY <2>2, <2>3, <2>4
<1>3. CASE n # 0
  <2>1. FlattenSeq(seqs) = f[n]
    BY <1>3 DEF FlattenSeq
  <2> HIDE DEF n
  <2>2. step \in [1 .. n -> [Seq(A) -> Seq(A)]]
    <3>1. \A i \in 1 .. n : \A s \in Seq(A) : s \o seqs[i] \in Seq(A)
      BY <1>1
    <3> QED BY <3>1
  <2>3. << >> \in Seq(A)
    OBVIOUS
  <2>4. PICK g \in [0 .. n -> Seq(A)] :
           g[0] = << >> /\ \A i \in 1 .. n : g[i] = step[i][g[i - 1]]
    <3> DEFINE W == Seq(A)
               none == << >>
    <3>1. step \in [1 .. n -> [W -> W]] /\ none \in W /\ n \in Nat
      BY <1>1, <2>2, <2>3
    <3> HIDE DEF step, W, none
    <3>2. \E g \in [0 .. n -> W] : Unfolds(g, n, none, step)
      BY <3>1, IntervalRecursion
    <3> QED BY <3>2 DEF W, none, Unfolds
  <2>5. ASSUME NEW i \in 1 .. n
        PROVE  g[i - 1] \in Seq(A) /\ g[i] \in Seq(A) /\ g[i] = g[i - 1] \o seqs[i]
    <3>1. g[i - 1] \in Seq(A) /\ g[i] \in Seq(A)
      BY SMTT(30), <1>1, <2>4
    <3> QED BY <2>4, <3>1
  <2> DEFINE h == [i \in 1 .. n |-> g[i]]
             again == [i \in 1 .. n |-> IF i = 1 THEN seqs[i] ELSE h[i - 1] \o seqs[i]]
  <2>6. ASSUME NEW i \in 1 .. n PROVE h[i] = again[i]
    <3>1. CASE i = 1
      <4>1. g[1] = g[1 - 1] \o seqs[1]
        BY <2>5, <3>1
      <4>2. << >> \o seqs[1] = seqs[1] /\ 1 - 1 = 0
        BY <1>1, <3>1
      <4> QED BY <2>4, <3>1, <4>1, <4>2
    <3>2. CASE i # 1
      <4>1. i - 1 \in 1 .. n
        BY <1>1, <3>2
      <4> QED BY <2>5, <3>2, <4>1
    <3> QED BY <3>1, <3>2
  <2>7. Is(h)
    <3>1. h = again
      BY <2>6
    <3> QED BY <3>1
  <2> HIDE DEF f
  <2>8. Is(f)
    BY <2>7, Zenon DEF f
  <2> HIDE DEF h, again
  <2> DEFINE S == {i \in 0 .. n : i = 0 \/ f[i] = g[i]}
  <2>9. 0 \in S
    BY <1>1
  <2>10. ASSUME NEW i \in 1 .. n, i - 1 \in S PROVE i \in S
    <3>1. i \in 0 .. n
      BY <1>1
    <3>2. CASE i = 1
      <4>1. g[1] = g[1 - 1] \o seqs[1]
        BY <2>5, <3>2
      <4>2. << >> \o seqs[1] = seqs[1] /\ 1 - 1 = 0
        BY <1>1, <3>2
      <4>3. f[1] = seqs[1]
        BY <2>8, <3>2
      <4> QED BY <2>4, <3>1, <3>2, <4>1, <4>2, <4>3
    <3>3. CASE i # 1
      <4>1. f[i - 1] = g[i - 1]
        BY <2>10, <3>3
      <4>2. f[i] = f[i - 1] \o seqs[i]
        BY <2>8, <3>3
      <4> QED BY <2>5, <3>1, <4>1, <4>2
    <3> QED BY <3>2, <3>3
  <2> HIDE DEF S
  <2>11. \A i \in 0 .. n : i \in S
    BY <1>1, <2>9, <2>10, IntervalInduction
  <2>12. f[n] = g[n]
    BY <1>1, <1>3, <2>11 DEF S
  <2> DEFINE U(i) == UNION {Range(seqs[j]) : j \in 1 .. i}
             T == {i \in 0 .. n : Range(g[i]) = U(i)}
  <2>13. 0 \in T
    BY <1>1, <2>4 DEF Range
  <2>14. ASSUME NEW i \in 1 .. n, i - 1 \in T PROVE i \in T
    <3>1. Range(g[i]) = Range(g[i - 1]) \cup Range(seqs[i])
      <4>1. g[i - 1] \in Seq(A) /\ seqs[i] \in Seq(A) /\ g[i] = g[i - 1] \o seqs[i]
        BY <1>1, <2>5
      <4> QED BY ONLY <4>1, ConcatRange
    <3>2. 1 .. i = (1 .. i - 1) \cup {i} /\ i \in 0 .. n
      BY <1>1
    <3>3. U(i) = U(i - 1) \cup Range(seqs[i])
      BY <3>2
    <3> QED BY <2>14, <3>1, <3>2, <3>3
  <2> HIDE DEF T
  <2>15. \A i \in 0 .. n : i \in T
    BY <1>1, <2>13, <2>14, IntervalInduction
  <2>16. Range(g[n]) = U(n) /\ g[n] \in Seq(A)
    BY <1>1, <2>4, <2>15 DEF T
  <2> QED BY <1>1, <2>1, <2>12, <2>16
<1> QED BY <1>2, <1>3

---------------------------------------------------------------------------
(* From the records to the paths.                                          *)

(* A path the parser keeps: it has at least one hop. *)
AsPath == Seq(Nat) \ {<< >>}

(***************************************************************************)
(* dedup leaves at least one hop of a path.                                *)
(***************************************************************************)
LEMMA DedupType ==
    ASSUME NEW path \in AsPath
    PROVE  Dedup(path) \in AsPath
<1> DEFINE n == Len(path)
           W == Seq(Nat)
           Is(kept) == kept = [i \in 0 .. n |->
                          IF i = 0 THEN << >>
                          ELSE IF i > 1 /\ path[i] = path[i - 1] THEN kept[i - 1]
                          ELSE Append(kept[i - 1], path[i])]
           kept == CHOOSE kept : Is(kept)
           Step(i, s) == IF i > 1 /\ path[i] = path[i - 1] THEN s ELSE Append(s, path[i])
           step == [i \in 1 .. n |-> [s \in W |-> Step(i, s)]]
           none == << >>
<1>1. n \in Nat /\ n # 0 /\ DOMAIN path = 1 .. n /\ \A i \in 1 .. n : path[i] \in Nat
  BY DEF AsPath
<1>2. Dedup(path) = kept[n]
  BY DEF Dedup
<1> HIDE DEF n, kept
<1>3. \A i \in 1 .. n : \A s \in Seq(Nat) : Step(i, s) \in Seq(Nat)
  BY <1>1
<1>4. step \in [1 .. n -> [W -> W]] /\ none \in W
  <2> HIDE DEF Step
  <2> QED BY <1>3
<1> HIDE DEF W, none, step
<1>5. PICK g \in [0 .. n -> W] : Unfolds(g, n, none, step)
  BY <1>1, <1>4, IntervalRecursion
<1>6. g[0] = << >>
  BY <1>5 DEF Unfolds, none
<1>7. ASSUME NEW i \in 1 .. n
      PROVE  g[i - 1] \in Seq(Nat) /\ g[i] \in Seq(Nat) /\ g[i] = Step(i, g[i - 1])
  <2>1. i - 1 \in 0 .. n /\ i \in 0 .. n
    BY <1>1
  <2>2. g[i - 1] \in W /\ g[i] \in W
    BY <1>5, <2>1
  <2>3. g[i] = step[i][g[i - 1]]
    BY <1>5 DEF Unfolds
  <2> HIDE DEF Step
  <2> QED BY <2>2, <2>3 DEF W, step
<1>8. Is(g)
  <2> DEFINE again == [i \in 0 .. n |->
                          IF i = 0 THEN << >>
                          ELSE IF i > 1 /\ path[i] = path[i - 1] THEN g[i - 1]
                          ELSE Append(g[i - 1], path[i])]
  <2>1. ASSUME NEW i \in 0 .. n PROVE g[i] = again[i]
    <3>1. CASE i = 0
      BY <1>6, <3>1
    <3>2. CASE i # 0
      <4>1. i \in 1 .. n
        BY <1>1, <3>2
      <4> QED BY <1>7, <3>2, <4>1
    <3> QED BY <3>1, <3>2
  <2>2. g = again
    BY <1>5, <2>1
  <2> QED BY <2>2
<1>9. Is(kept)
  BY <1>8, Zenon DEF kept
<1> DEFINE S == {i \in 0 .. n : kept[i] = g[i] /\ (i > 0 => g[i] # << >>)}
<1>10. 0 \in S
  BY <1>1, <1>6, <1>9
<1>11. ASSUME NEW i \in 1 .. n, i - 1 \in S PROVE i \in S
  <2>1. i \in 0 .. n /\ i # 0 /\ i \in Nat
    BY <1>1
  <2>2. kept[i] = Step(i, kept[i - 1])
    BY <1>9, <2>1
  <2>3. kept[i] = g[i]
    BY <1>7, <1>11, <2>2
  <2>4. g[i] # << >>
    <3>1. CASE i > 1 /\ path[i] = path[i - 1]
      <4>1. g[i] = g[i - 1] /\ i - 1 > 0
        BY <1>7, <3>1
      <4> QED BY <1>11, <4>1
    <3>2. CASE ~ (i > 1 /\ path[i] = path[i - 1])
      <4>1. g[i] = Append(g[i - 1], path[i]) /\ g[i - 1] \in Seq(Nat)
        BY <1>7, <3>2
      <4>2. Len(g[i]) = Len(g[i - 1]) + 1 /\ Len(g[i - 1]) \in Nat
        BY <1>1, <4>1
      <4> QED BY <4>2
    <3> QED BY <3>1, <3>2
  <2> QED BY <2>1, <2>3, <2>4
<1> HIDE DEF S
<1>12. \A i \in 0 .. n : i \in S
  BY <1>1, <1>10, <1>11, IntervalInduction
<1>13. n \in S /\ n > 0 /\ n \in 1 .. n
  BY <1>1, <1>12
<1>14. kept[n] = g[n] /\ g[n] # << >> /\ g[n] \in Seq(Nat)
  BY <1>7, <1>13 DEF S
<1> QED BY <1>2, <1>14 DEF AsPath

(***************************************************************************)
(* The paths of an attribute, of an entry and of a record.                 *)
(***************************************************************************)
LEMMA ParseAttributeType ==
    ASSUME NEW attribute \in Attribute
    PROVE  ParseAttribute(attribute) \in Seq(Seq(Nat))
<1>1. << >> \in Seq(Seq(Nat)) /\ << << >> >> \in Seq(Seq(Nat))
  OBVIOUS
<1>2. ASSUME attribute.type = AS_PATH PROVE <<attribute.segments[1][2]>> \in Seq(Seq(Nat))
  <2>1. attribute.segments \in Seq(Segment) /\ attribute.segments # << >>
    BY <1>2 DEF Attribute
  <2>2. attribute.segments[1] \in Segment
    BY <2>1
  <2>3. attribute.segments[1][2] \in Seq(Nat)
    BY <2>2 DEF Segment
  <2> QED BY <2>3
<1> QED BY <1>1, <1>2 DEF ParseAttribute

LEMMA ParseEntryType ==
    ASSUME NEW entry \in Seq(Attribute)
    PROVE  ParseEntry(entry) \in Seq(AsPath)
<1> DEFINE seqs == [i \in DOMAIN entry |-> ParseAttribute(entry[i])]
           paths == FlattenSeq(seqs)
<1>1. seqs \in Seq(Seq(Seq(Nat)))
  <2>1. \A i \in DOMAIN entry : ParseAttribute(entry[i]) \in Seq(Seq(Nat))
    BY ParseAttributeType
  <2>2. DOMAIN entry = 1 .. Len(entry) /\ Len(entry) \in Nat
    OBVIOUS
  <2> QED BY <2>1, <2>2
<1>2. paths \in Seq(Seq(Nat))
  <2> HIDE DEF seqs
  <2> QED BY <1>1, FlattenRange
<1> HIDE DEF paths
<1>3. ASSUME Len(paths) = 1, paths[1] # << >> PROVE <<Dedup(paths[1])>> \in Seq(AsPath)
  <2>1. paths[1] \in Seq(Nat)
    <3>1. 1 \in 1 .. Len(paths)
      BY <1>3
    <3> QED BY ONLY <1>2, <3>1
  <2>2. paths[1] \in AsPath
    BY <1>3, <2>1 DEF AsPath
  <2>3. Dedup(paths[1]) \in AsPath
    BY <2>2, DedupType
  <2> QED BY <2>3
<1>4. << >> \in Seq(AsPath)
  OBVIOUS
<1> QED BY <1>3, <1>4 DEF ParseEntry, paths

(* What a record adds to the paths of a prefix. *)
PathsOf(prefix, record) ==
    IF RoutingPrefix(record.net) = prefix
    THEN FlattenSeq([j \in DOMAIN record.entries |-> ParseEntry(record.entries[j])])
    ELSE << >>

(* They are paths of at least one hop. *)
LEMMA PathsOfType ==
    ASSUME NEW prefix, NEW record \in RibRecord
    PROVE  PathsOf(prefix, record) \in Seq(AsPath)
<1> DEFINE seqs == [j \in DOMAIN record.entries |-> ParseEntry(record.entries[j])]
<1>1. record.entries \in Seq(Seq(Attribute))
  BY DEF RibRecord
<1>2. DOMAIN record.entries = 1 .. Len(record.entries) /\ Len(record.entries) \in Nat
  BY <1>1
<1>3. \A j \in DOMAIN record.entries : record.entries[j] \in Seq(Attribute)
  BY <1>1
<1>4. \A j \in DOMAIN record.entries : ParseEntry(record.entries[j]) \in Seq(AsPath)
  BY <1>3, ParseEntryType
<1>5. seqs \in Seq(Seq(AsPath))
  BY <1>2, <1>4
<1> HIDE DEF seqs
<1>6. FlattenSeq(seqs) \in Seq(AsPath)
  BY <1>5, FlattenRange
<1>7. << >> \in Seq(AsPath)
  OBVIOUS
<1> QED BY <1>6, <1>7 DEF PathsOf, seqs

(***************************************************************************)
(* The paths of a prefix are those of its records.                         *)
(***************************************************************************)
LEMMA PathsToRange ==
    ASSUME NEW prefix, NEW records \in Seq(RibRecord)
    PROVE  /\ PathsTo(prefix, records) \in Seq(AsPath)
           /\ Range(PathsTo(prefix, records))
                = UNION {Range(PathsOf(prefix, record)) : record \in Range(records)}
<1> DEFINE seqs == [i \in DOMAIN records |-> PathsOf(prefix, records[i])]
<1>1. DOMAIN records = 1 .. Len(records) /\ Len(records) \in Nat
  OBVIOUS
<1>2. \A i \in DOMAIN records : records[i] \in RibRecord
  OBVIOUS
<1>3. \A i \in DOMAIN records : PathsOf(prefix, records[i]) \in Seq(AsPath)
  BY <1>2, PathsOfType
<1>4. seqs \in Seq(Seq(AsPath)) /\ DOMAIN seqs = DOMAIN records
  BY <1>1, <1>3
<1>5. PathsTo(prefix, records) = FlattenSeq(seqs)
  BY DEF PathsTo, PathsOf
<1>6. \A i \in DOMAIN records : seqs[i] = PathsOf(prefix, records[i])
  OBVIOUS
<1> HIDE DEF seqs
<1>7. /\ FlattenSeq(seqs) \in Seq(AsPath)
      /\ Range(FlattenSeq(seqs)) = UNION {Range(seqs[i]) : i \in DOMAIN seqs}
  BY <1>4, FlattenRange
<1>8. UNION {Range(seqs[i]) : i \in DOMAIN seqs}
        = UNION {Range(PathsOf(prefix, record)) : record \in Range(records)}
  <2>1. {Range(seqs[i]) : i \in DOMAIN seqs}
          = {Range(PathsOf(prefix, records[i])) : i \in DOMAIN records}
    BY <1>4, <1>6
  <2>2. Range(records) = {records[i] : i \in DOMAIN records}
    BY DEF Range
  <2>3. {Range(PathsOf(prefix, record)) : record \in Range(records)}
          = {Range(PathsOf(prefix, records[i])) : i \in DOMAIN records}
    BY <2>2
  <2> QED BY <2>1, <2>3
<1> QED BY <1>5, <1>7, <1>8

---------------------------------------------------------------------------
(* Common beginnings: the paths from their origin outwards.                *)

(* s is a beginning of t. *)
Begins(s, t) == Len(s) <= Len(t) /\ \A i \in 1 .. Len(s) : s[i] = t[i]

(* IsPrefix compares element by element. *)
LEMMA PrefixIsPointwise ==
    ASSUME NEW s \in Seq(Nat), NEW t \in Seq(Nat)
    PROVE  IsPrefix(s, t) <=> Begins(s, t)
<1>1. Len(s) \in Nat /\ Len(t) \in Nat
  OBVIOUS
<1> DEFINE u == SubSeq(s, 1, Len(s))
           v == SubSeq(t, 1, Len(s))
<1>2. u \in Seq(Nat) /\ Len(u) = Len(s) /\ \A i \in 1 .. Len(s) : u[i] = s[i]
  BY <1>1
<1>3. CASE Len(s) <= Len(t)
  <2>1. v \in Seq(Nat) /\ Len(v) = Len(s) /\ \A i \in 1 .. Len(s) : v[i] = t[i]
    BY <1>1, <1>3
  <2> HIDE DEF u, v
  <2>2. u = v <=> \A i \in 1 .. Len(s) : u[i] = v[i]
    BY <1>2, <2>1, SeqEqual
  <2>3. u = v <=> \A i \in 1 .. Len(s) : s[i] = t[i]
    BY <1>2, <2>1, <2>2
  <2> QED BY <1>3, <2>3 DEF IsPrefix, Begins, u, v
<1>4. CASE ~ (Len(s) <= Len(t))
  BY <1>4 DEF IsPrefix, Begins
<1> QED BY <1>3, <1>4

(* c begins every path of T, and nothing longer does. *)
Longest(c, T) ==
    /\ c \in AsPath /\ \A t \in T : Begins(c, t)
    /\ \A x \in Seq(Nat) : (\A t \in T : Begins(x, t)) => Len(x) <= Len(c)

(***************************************************************************)
(* There is one longest common beginning: LongestCommonPrefix.             *)
(***************************************************************************)
LEMMA LongestIsCommonPrefix ==
    ASSUME NEW T \in SUBSET Seq(Nat), T # {}, NEW c, Longest(c, T)
    PROVE  LongestCommonPrefix(T) = c
<1> DEFINE C == CommonPrefixes(T)
<1>1. c \in Seq(Nat) /\ Len(c) \in Nat
  BY DEF Longest, AsPath
<1>2. ASSUME NEW t \in T, NEW x \in Prefixes(t) PROVE x \in Seq(Nat)
  <2>1. PICK l \in 0 .. Len(t) : x = SubSeq(t, 1, l)
    BY DEF Prefixes
  <2>2. t \in Seq(Nat) /\ l <= Len(t) /\ l \in Nat
    OBVIOUS
  <2> QED BY <2>1, <2>2
<1>3. \A x \in C : x \in Seq(Nat) /\ \A t \in T : Begins(x, t)
  <2> TAKE x \in C
  <2>1. PICK t \in T : x \in Prefixes(t)
    BY DEF CommonPrefixes
  <2>2. x \in Seq(Nat)
    BY <1>2, <2>1
  <2>3. \A u \in T : IsPrefix(x, u)
    BY DEF CommonPrefixes
  <2> QED BY <2>2, <2>3, PrefixIsPointwise
<1>4. c \in C
  <2>1. PICK t \in T : TRUE
    OBVIOUS
  <2>2. \A u \in T : IsPrefix(c, u)
    BY <1>1, PrefixIsPointwise DEF Longest
  <2>3. c = SubSeq(c, 1, Len(c))
    BY <1>1
  <2>4. c = SubSeq(t, 1, Len(c)) /\ Len(c) \in 0 .. Len(t)
    BY <1>1, <2>2, <2>3 DEF IsPrefix
  <2>5. c \in Prefixes(t)
    BY <2>4 DEF Prefixes
  <2> QED BY <2>2, <2>5 DEF CommonPrefixes
<1>5. \A x \in C : Len(x) <= Len(c)
  BY <1>3 DEF Longest
<1>6. ASSUME NEW x \in C, \A y \in C : Len(y) <= Len(x) PROVE x = c
  <2>1. x \in Seq(Nat) /\ Len(x) \in Nat /\ Len(x) = Len(c)
    BY <1>1, <1>3, <1>4, <1>5, <1>6
  <2>2. PICK t \in T : TRUE
    OBVIOUS
  <2>3. \A i \in 1 .. Len(c) : x[i] = t[i] /\ c[i] = t[i]
    BY <1>3, <2>1 DEF Longest, Begins
  <2> QED BY <1>1, <2>1, <2>3, SeqEqual
<1>7. LongestCommonPrefix(T) = CHOOSE x \in C : \A y \in C : Len(y) <= Len(x)
  BY DEF LongestCommonPrefix
<1> HIDE DEF C
<1> QED BY <1>4, <1>5, <1>6, <1>7

(***************************************************************************)
(* Fewer paths have no shorter common beginning.                           *)
(***************************************************************************)
LEMMA FewerShareMore ==
    ASSUME NEW T, NEW U \in SUBSET T, U # {}, T \in SUBSET Seq(Nat),
           NEW c, Longest(c, T), NEW d, Longest(d, U)
    PROVE  IsPrefix(c, d)
<1>1. c \in Seq(Nat) /\ d \in Seq(Nat) /\ Len(c) \in Nat /\ Len(d) \in Nat
  BY DEF Longest, AsPath
<1>2. \A t \in U : Begins(c, t)
  BY DEF Longest
<1>3. Len(c) <= Len(d)
  BY <1>1, <1>2 DEF Longest
<1>4. PICK t \in U : TRUE
  OBVIOUS
<1>5. \A i \in 1 .. Len(c) : c[i] = t[i]
  BY <1>2 DEF Begins
<1>6. \A i \in 1 .. Len(d) : d[i] = t[i]
  BY DEF Longest, Begins
<1>7. \A i \in 1 .. Len(c) : c[i] = d[i]
  <2> TAKE i \in 1 .. Len(c)
  <2>1. i \in 1 .. Len(d)
    BY <1>1, <1>3
  <2> QED BY <1>5, <1>6, <2>1
<1> QED BY <1>1, <1>3, <1>7, PrefixIsPointwise DEF Begins

(***************************************************************************)
(* The comparison with a further path that is no shorter: one to another   *)
(* origin changes nothing, one to the same origin cuts the common part     *)
(* where it goes a different way.                                          *)
(***************************************************************************)
LEMMA SharedIsLongest ==
    ASSUME NEW T \in SUBSET Seq(Nat), T # {}, NEW c, Longest(c, T),
           NEW path \in AsPath, Len(c) <= Len(path), path[1] = c[1]
    PROVE  /\ Longest(Shared(c, path), T \cup {path})
           /\ Len(Shared(c, path)) <= Len(c) /\ Shared(c, path)[1] = c[1]
<1> DEFINE both == {Len(c), Len(path)}
           Differing == {i \in 2 .. Min(both) : path[i] # c[i]}
<1>1. /\ c \in Seq(Nat) /\ Len(c) \in Nat /\ Len(c) >= 1
      /\ path \in Seq(Nat) /\ Len(path) \in Nat
  <2>1. c \in Seq(Nat) /\ c # << >> /\ path \in Seq(Nat)
    BY DEF Longest, AsPath
  <2> QED BY <2>1
<1>2. Min(both) = Len(c)
  <2>1. Min(both) = CHOOSE x \in both : \A y \in both : x <= y
    BY DEF Min
  <2>2. \A x \in both : (\A y \in both : x <= y) <=> x = Len(c)
    BY <1>1
  <2>3. Len(c) \in both
    OBVIOUS
  <2> HIDE DEF both
  <2> QED BY <2>1, <2>2, <2>3
<1>3. Differing = {i \in 2 .. Len(c) : path[i] # c[i]}
  BY <1>2
<1>4. Shared(c, path) = IF Differing = {} THEN c ELSE SubSeq(c, 1, Min(Differing) - 1)
  BY DEF Shared
<1> HIDE DEF Differing
<1>5. CASE Differing = {}
  <2>1. Shared(c, path) = c
    BY <1>4, <1>5
  <2>2. \A i \in 1 .. Len(c) : c[i] = path[i]
    <3> TAKE i \in 1 .. Len(c)
    <3>1. CASE i = 1
      BY <3>1
    <3>2. CASE i # 1
      <4>1. i \in 2 .. Len(c)
        BY <1>1, <3>2
      <4> QED BY <1>3, <1>5, <4>1
    <3> QED BY <3>1, <3>2
  <2>3. Begins(c, path)
    BY <2>2 DEF Begins
  <2>4. Longest(c, T \cup {path})
    BY <2>3 DEF Longest
  <2> QED BY <1>1, <2>1, <2>4
<1>6. CASE Differing # {}
  <2> DEFINE d == Min(Differing)
             s == SubSeq(c, 1, d - 1)
  <2>1. d \in Differing /\ \A y \in Differing : d <= y
    <3>1. Differing \in SUBSET Nat
      BY <1>1, <1>3
    <3>2. \E x \in Differing : \A y \in Differing : x <= y
      BY <1>6, <3>1, LeastElement
    <3> QED BY <3>2 DEF Min
  <2> HIDE DEF d
  <2>2. d \in 2 .. Len(c) /\ path[d] # c[d]
    BY <1>3, <2>1
  <2>3. d - 1 \in 1 .. Len(c) /\ d \in Nat /\ d - 1 \in Nat
    BY <1>1, <2>2
  <2>4. s \in Seq(Nat) /\ Len(s) = d - 1 /\ \A i \in 1 .. d - 1 : s[i] = c[i]
    BY <1>1, <2>3
  <2>5. Shared(c, path) = s
    BY <1>4, <1>6 DEF d
  <2> HIDE DEF s
  <2>6. s \in AsPath
    <3>1. s # << >>
      BY <2>3, <2>4
    <3> QED BY <2>4, <3>1 DEF AsPath
  <2>7. Begins(s, path)
    <3>1. \A i \in 1 .. d - 1 : s[i] = path[i]
      <4> TAKE i \in 1 .. d - 1
      <4>1. CASE i = 1
        BY <2>4, <4>1
      <4>2. CASE i # 1
        <5>1. i \in 2 .. Len(c) /\ ~ (d <= i)
          BY <1>1, <2>2, <4>2
        <5>2. path[i] = c[i]
          BY <1>3, <2>1, <5>1
        <5> QED BY <2>4, <5>2
      <4> QED BY <4>1, <4>2
    <3> QED BY <1>1, <2>3, <2>4, <3>1 DEF Begins
  <2>8. ASSUME NEW t \in T PROVE Begins(s, t)
    <3>1. Begins(c, t)
      BY DEF Longest
    <3>2. \A i \in 1 .. d - 1 : i \in 1 .. Len(c)
      BY <1>1, <2>2
    <3>3. Len(s) <= Len(t)
      BY <1>1, <2>2, <2>4, <3>1 DEF Begins
    <3> QED BY <2>4, <3>1, <3>2, <3>3 DEF Begins
  <2>9. ASSUME NEW x \in Seq(Nat), \A t \in T \cup {path} : Begins(x, t)
        PROVE  Len(x) <= Len(s)
    <3>1. SUFFICES ASSUME Len(x) >= d PROVE FALSE
      BY <2>3, <2>4
    <3>2. PICK t \in T : TRUE
      OBVIOUS
    <3>3. Begins(x, t) /\ Begins(x, path) /\ Begins(c, t)
      BY <2>9 DEF Longest
    <3>4. d \in 1 .. Len(x) /\ d \in 1 .. Len(c)
      BY <1>1, <2>2, <3>1
    <3>5. x[d] = t[d] /\ x[d] = path[d] /\ c[d] = t[d]
      BY <3>3, <3>4 DEF Begins
    <3> QED BY <2>2, <3>5
  <2>10. Longest(s, T \cup {path})
    BY <2>6, <2>7, <2>8, <2>9 DEF Longest
  <2>11. Len(s) <= Len(c) /\ s[1] = c[1]
    BY <1>1, <2>2, <2>3, <2>4
  <2> QED BY <2>5, <2>10, <2>11
<1> QED BY <1>5, <1>6

(* A path to another origin leaves the common suffix as it is. *)
LEMMA SharedOfOtherOrigin ==
    ASSUME NEW c, NEW path, path[1] # c[1]
    PROVE  Shared(c, path) = c
BY DEF Shared

---------------------------------------------------------------------------
(* The common suffix.                                                      *)

(* A path read from its origin. *)
LEMMA ReverseType ==
    ASSUME NEW path \in AsPath
    PROVE  /\ Reverse(path) \in AsPath /\ Len(Reverse(path)) = Len(path)
           /\ Reverse(path)[1] = Last(path)
<1> DEFINE n == Len(path)
<1>1. path \in Seq(Nat) /\ n \in Nat /\ n >= 1 /\ \A i \in 1 .. n : path[i] \in Nat
  BY DEF AsPath
<1>2. Reverse(path) = [i \in 1 .. n |-> path[(n - i) + 1]]
  BY DEF Reverse
<1> HIDE DEF n
<1>3. \A i \in 1 .. n : (n - i) + 1 \in 1 .. n
  BY <1>1
<1>4. Reverse(path) \in [1 .. n -> Nat]
  BY <1>1, <1>2, <1>3
<1>5. Reverse(path) \in Seq(Nat) /\ Len(Reverse(path)) = n
  BY <1>1, <1>4
<1>6. Reverse(path)[1] = path[n]
  <2>1. 1 \in 1 .. n /\ (n - 1) + 1 = n
    BY <1>1
  <2> QED BY <1>2, <2>1
<1>7. Reverse(path) # << >>
  BY <1>1, <1>5
<1> QED BY <1>5, <1>6, <1>7 DEF AsPath, Last, n

(***************************************************************************)
(* The paths sorted by their lengths: the same ones, and the first of the  *)
(* shortest in front, whose origin is the one elected.                     *)
(***************************************************************************)
LEMMA ShortestFirstSorts ==
    ASSUME NEW paths \in Seq(AsPath), paths # << >>
    PROVE  /\ ShortestFirst(paths) \in [1 .. Len(paths) -> AsPath]
           /\ Range(ShortestFirst(paths)) = Range(paths)
           /\ \A k \in 1 .. Len(paths) :
                 Len(ShortestFirst(paths)[1]) <= Len(ShortestFirst(paths)[k])
           /\ Last(ShortestFirst(paths)[1]) = ElectedOrigin(paths)
<1> DEFINE n == Len(paths)
           keys == [i \in DOMAIN paths |-> Len(paths[i])]
           order == SortByKey(keys)
           sorted == ShortestFirst(paths)
           shortest == {i \in DOMAIN paths : \A j \in DOMAIN paths : Len(paths[i]) <= Len(paths[j])}
<1>1. /\ n \in Nat /\ n >= 1 /\ DOMAIN paths = 1 .. n /\ 1 \in 1 .. n
      /\ \A i \in 1 .. n : paths[i] \in AsPath
  OBVIOUS
<1>2. \A i \in 1 .. n : Len(paths[i]) \in Nat
  BY <1>1 DEF AsPath
<1>3. /\ keys \in Seq(Nat) /\ Len(keys) = n
      /\ \A i \in 1 .. n : keys[i] = Len(paths[i]) /\ keys[i] \in Nat
  BY <1>1, <1>2
<1>4. sorted = [k \in 1 .. n |-> paths[order[k]]]
  BY <1>1 DEF ShortestFirst
<1>5. ElectedOrigin(paths) = Last(paths[Min(shortest)])
  BY DEF ElectedOrigin
<1>6. shortest = {i \in 1 .. n : \A j \in 1 .. n : Len(paths[i]) <= Len(paths[j])}
  BY <1>1
<1> HIDE DEF n, keys, sorted, shortest
<1>7. /\ order \in [1 .. n -> 1 .. n]
      /\ \A i \in 1 .. n : \E k \in 1 .. n : order[k] = i
      /\ \A j, k \in 1 .. n : j < k => Ahead(keys, order[j], order[k])
  BY <1>3, SortIsStable
<1> HIDE DEF order
<1>8. sorted \in [1 .. n -> AsPath] /\ \A k \in 1 .. n : sorted[k] = paths[order[k]]
  BY <1>1, <1>4, <1>7
<1>9. Range(sorted) = Range(paths)
  <2>1. Range(sorted) = {paths[order[k]] : k \in 1 .. n}
    BY <1>4 DEF Range
  <2>2. Range(paths) = {paths[i] : i \in 1 .. n}
    BY <1>1 DEF Range
  <2>3. ASSUME NEW k \in 1 .. n PROVE order[k] \in 1 .. n
    BY <1>7
  <2>4. ASSUME NEW i \in 1 .. n PROVE \E k \in 1 .. n : paths[order[k]] = paths[i]
    BY <1>7
  <2>5. Range(sorted) \subseteq Range(paths)
    BY ONLY <2>1, <2>2, <2>3
  <2>6. Range(paths) \subseteq Range(sorted)
    BY ONLY <2>1, <2>2, <2>4
  <2> QED BY ONLY <2>5, <2>6
<1>10. order[1] \in 1 .. n
  BY <1>1, <1>7
<1>11. ASSUME NEW i \in 1 .. n
       PROVE  /\ Len(paths[order[1]]) <= Len(paths[i])
              /\ Len(paths[order[1]]) = Len(paths[i]) => order[1] <= i
  <2>1. PICK k \in 1 .. n : order[k] = i
    BY <1>7
  <2>2. CASE k = 1
    BY <1>1, <1>2, <2>1, <2>2
  <2>3. CASE k # 1
    <3>1. 1 < k
      BY <1>1, <2>3
    <3>2. Ahead(keys, order[1], i)
      BY <1>1, <1>7, <2>1, <3>1
    <3>3. /\ keys[order[1]] = Len(paths[order[1]]) /\ Len(paths[order[1]]) \in Nat
          /\ keys[i] = Len(paths[i]) /\ Len(paths[i]) \in Nat
      BY ZenonT(30), <1>3, <1>10
    <3>4. order[1] \in Int /\ i \in Int
      BY SMTT(30), <1>1, <1>10
    <3> QED BY ONLY <3>2, <3>3, <3>4 DEF Ahead
  <2> QED BY <2>2, <2>3
<1>12. \A k \in 1 .. n : Len(sorted[1]) <= Len(sorted[k])
  <2> TAKE k \in 1 .. n
  <2>1. order[k] \in 1 .. n
    BY <1>7
  <2> QED BY <1>1, <1>8, <1>11, <2>1
<1>13. Min(shortest) = order[1]
  <2>1. order[1] \in shortest
    BY <1>6, <1>10, <1>11
  <2>2. \A i \in shortest : order[1] <= i
    <3> TAKE i \in shortest
    <3>1. i \in 1 .. n /\ Len(paths[i]) <= Len(paths[order[1]])
      BY <1>6, <1>10
    <3>2. Len(paths[order[1]]) = Len(paths[i])
      BY <1>2, <1>10, <1>11, <3>1
    <3> QED BY <1>11, <3>1, <3>2
  <2>3. \A i \in shortest : i \in Int
    BY <1>6
  <2>4. \A x \in shortest : (\A y \in shortest : x <= y) => x = order[1]
    <3> TAKE x \in shortest
    <3> HAVE \A y \in shortest : x <= y
    <3>1. x <= order[1] /\ order[1] <= x /\ x \in Int /\ order[1] \in Int
      BY <2>1, <2>2, <2>3
    <3> QED BY <3>1
  <2>5. Min(shortest) = CHOOSE x \in shortest : \A y \in shortest : x <= y
    BY DEF Min
  <2> QED BY <2>1, <2>2, <2>4, <2>5
<1>14. Last(sorted[1]) = ElectedOrigin(paths)
  BY <1>1, <1>5, <1>8, <1>13
<1> QED BY <1>8, <1>9, <1>12, <1>14 DEF sorted, n

(***************************************************************************)
(* find_common_suffix compares path by path; what is left is the longest   *)
(* beginning, seen from the elected origin, of all paths to it.            *)
(***************************************************************************)
LEMMA CommonSuffixIsLongest ==
    ASSUME NEW paths \in Seq(AsPath), paths # << >>
    PROVE  Longest(CommonSuffix(paths), ToOrigin(paths, ElectedOrigin(paths)))
<1> DEFINE n == Len(paths)
           sorted == ShortestFirst(paths)
           R(k) == Reverse(sorted[k])
           Is(common) == common = [k \in 1 .. n |->
                            IF k = 1 THEN Reverse(sorted[1])
                            ELSE Shared(common[k - 1], Reverse(sorted[k]))]
           common == CHOOSE common : Is(common)
           V == {c \in AsPath : Len(c) <= Len(R(1))}
           step == [i \in 1 .. n - 1 |-> [c \in V |-> Shared(c, R(i + 1))]]
           base == R(1)
           T(k) == {R(j) : j \in {i \in 1 .. k : R(i)[1] = R(1)[1]}}
<1>1. n \in Nat /\ n >= 1 /\ 1 \in 1 .. n /\ n - 1 \in Nat
  OBVIOUS
<1>2. /\ sorted \in [1 .. n -> AsPath] /\ Range(sorted) = Range(paths)
      /\ \A k \in 1 .. n : Len(sorted[1]) <= Len(sorted[k])
      /\ Last(sorted[1]) = ElectedOrigin(paths)
  BY ShortestFirstSorts
<1>3. CommonSuffix(paths) = common[n]
  <2>1. Len(sorted) = n
    BY <1>1, <1>2
  <2> HIDE DEF n, sorted
  <2> QED BY <2>1 DEF CommonSuffix, sorted
<1> HIDE DEF n, sorted, common
<1>4. \A k \in 1 .. n : /\ R(k) \in AsPath /\ Len(R(k)) = Len(sorted[k])
                        /\ R(k)[1] = Last(sorted[k]) /\ Len(R(k)) \in Nat
  <2> TAKE k \in 1 .. n
  <2>1. sorted[k] \in AsPath
    BY <1>2
  <2> QED BY SMTT(30), <2>1, ReverseType DEF AsPath
<1>5. \A k \in 1 .. n : Len(R(1)) <= Len(R(k))
  BY <1>1, <1>2, <1>4
<1> HIDE DEF R
<1>6. \A c \in AsPath : c \in Seq(Nat) /\ Len(c) \in Nat
  BY DEF AsPath
<1>7. ASSUME NEW c \in V, NEW k \in 1 .. n PROVE Shared(c, R(k)) \in V
  <2>1. c \in AsPath /\ Len(c) <= Len(R(k)) /\ R(k) \in AsPath
    BY <1>1, <1>4, <1>5, <1>6
  <2>2. CASE R(k)[1] = c[1]
    <3>1. Longest(c, {c})
      BY <1>6, <2>1 DEF Longest, Begins
    <3>2. {c} \in SUBSET Seq(Nat) /\ {c} # {}
      BY <1>6, <2>1
    <3>3. /\ Longest(Shared(c, R(k)), {c} \cup {R(k)})
          /\ Len(Shared(c, R(k))) <= Len(c)
      BY <2>1, <2>2, <3>1, <3>2, SharedIsLongest
    <3>4. Shared(c, R(k)) \in AsPath
      BY <3>3 DEF Longest
    <3>5. Len(Shared(c, R(k))) <= Len(R(1))
      BY <1>1, <1>4, <1>6, <2>1, <3>3, <3>4
    <3> QED BY <3>4, <3>5
  <2>3. CASE R(k)[1] # c[1]
    <3>1. Shared(c, R(k)) = c
      BY <2>3, SharedOfOtherOrigin
    <3> QED BY <3>1
  <2> QED BY <2>2, <2>3
<1>8. base \in V
  BY <1>1, <1>4
<1> HIDE DEF V, base
<1>9. step \in [1 .. n - 1 -> [V -> V]]
  <2>1. \A i \in 1 .. n - 1 : i + 1 \in 1 .. n
    BY <1>1
  <2>2. \A i \in 1 .. n - 1 : \A c \in V : Shared(c, R(i + 1)) \in V
    BY <1>7, <2>1
  <2> QED BY <2>2
<1> DEFINE m == n - 1
<1>10. m \in Nat
  BY <1>1
<1>11. PICK g \in [0 .. m -> V] : Unfolds(g, m, base, step)
  <2>1. step \in [1 .. m -> [V -> V]]
    BY <1>9
  <2> HIDE DEF m, step
  <2> QED BY <1>8, <1>10, <2>1, IntervalRecursion
<1>12. g[0] = R(1)
  BY <1>11 DEF Unfolds, base
<1>13. ASSUME NEW i \in 1 .. m PROVE g[i] = Shared(g[i - 1], R(i + 1)) /\ g[i - 1] \in V
  <2>1. i - 1 \in 0 .. m /\ i \in 1 .. n - 1
    BY <1>10
  <2>2. g[i - 1] \in V
    BY <1>11, <2>1
  <2>3. g[i] = step[i][g[i - 1]]
    BY <1>11 DEF Unfolds
  <2> QED BY <2>1, <2>2, <2>3
<1> HIDE DEF step
<1> DEFINE h == [k \in 1 .. n |-> g[k - 1]]
<1>14. Is(h)
  <2> DEFINE again == [k \in 1 .. n |->
                          IF k = 1 THEN Reverse(sorted[1])
                          ELSE Shared(h[k - 1], Reverse(sorted[k]))]
  <2>1. ASSUME NEW k \in 1 .. n PROVE h[k] = again[k]
    <3>1. CASE k = 1
      BY <1>12, <3>1 DEF R
    <3>2. CASE k # 1
      <4>1. k - 1 \in 1 .. m /\ k - 1 \in 1 .. n /\ (k - 1) + 1 = k
        BY <1>1, <3>2
      <4>2. h[k] = g[k - 1] /\ h[k - 1] = g[(k - 1) - 1]
        BY <4>1
      <4>3. g[k - 1] = Shared(g[(k - 1) - 1], R(k))
        BY <1>13, <4>1
      <4> QED BY <3>2, <4>2, <4>3 DEF R
    <3> QED BY <3>1, <3>2
  <2>2. h = again
    BY <2>1
  <2> QED BY <2>2
<1>15. Is(common)
  BY <1>14, Zenon DEF common
<1> HIDE DEF h
<1> DEFINE S == {i \in 0 .. m : /\ common[i + 1] = g[i]
                               /\ Longest(g[i], T(i + 1)) /\ g[i][1] = R(1)[1]}
<1>16. \A k \in 1 .. n : R(k) \in Seq(Nat)
  BY <1>4, <1>6
<1>17. 0 \in S
  <2>1. 0 \in 0 .. m
    BY <1>10
  <2>2. common[0 + 1] = R(1)
    BY <1>1, <1>15 DEF R
  <2>3. T(0 + 1) = {R(1)}
    OBVIOUS
  <2>4. Longest(R(1), {R(1)})
    BY <1>1, <1>4, <1>6 DEF Longest, Begins
  <2> HIDE DEF T
  <2> QED BY <1>12, <2>1, <2>2, <2>3, <2>4
<1>18. ASSUME NEW i \in 1 .. m, i - 1 \in S PROVE i \in S
  <2> DEFINE k == i + 1
             c == g[i - 1]
  <2>1. i \in 0 .. m /\ k \in 1 .. n /\ k # 1 /\ k - 1 = i /\ (i - 1) + 1 = i /\ 1 <= i
    BY <1>1
  <2>2. common[i] = c /\ Longest(c, T(i)) /\ c[1] = R(1)[1]
    BY <1>18, <2>1
  <2>3. g[i] = Shared(c, R(k)) /\ c \in V
    BY <1>13
  <2> HIDE DEF k, c
  <2>4. common[k] = g[i]
    <3>1. common[k] = Shared(common[k - 1], R(k))
      BY <1>15, <2>1 DEF R
    <3> QED BY <2>1, <2>2, <2>3, <3>1
  <2>5. 1 .. k = (1 .. i) \cup {k}
    BY <2>1 DEF k
  <2>6. \A j \in 1 .. i : j \in 1 .. n
    BY <1>1
  <2>7. T(i) \in SUBSET Seq(Nat) /\ T(i) # {}
    <3>1. R(1) \in T(i)
      BY <2>1
    <3>2. T(i) \in SUBSET Seq(Nat)
      BY <1>16, <2>6
    <3> QED BY <3>1, <3>2
  <2>8. c \in AsPath /\ Len(c) <= Len(R(k)) /\ R(k) \in AsPath
    <3>1. c \in AsPath /\ Len(c) <= Len(R(1))
      BY <2>3 DEF V
    <3>2. Len(R(1)) <= Len(R(k)) /\ Len(R(1)) \in Nat /\ Len(R(k)) \in Nat /\ R(k) \in AsPath
      BY <1>1, <1>4, <1>5, <2>1
    <3>3. Len(c) \in Nat
      BY <1>6, <3>1
    <3> QED BY <3>1, <3>2, <3>3
  <2>9. CASE R(k)[1] = R(1)[1]
    <3>1. T(k) = T(i) \cup {R(k)}
      BY <2>5, <2>9
    <3> HIDE DEF T
    <3>2. Longest(Shared(c, R(k)), T(i) \cup {R(k)}) /\ Shared(c, R(k))[1] = c[1]
      BY <2>2, <2>7, <2>8, <2>9, SharedIsLongest
    <3> QED BY <2>1, <2>2, <2>3, <2>4, <3>1, <3>2 DEF k
  <2>10. CASE R(k)[1] # R(1)[1]
    <3>1. T(k) = T(i)
      BY <2>5, <2>10
    <3> HIDE DEF T
    <3>2. Shared(c, R(k)) = c
      BY <2>2, <2>10, SharedOfOtherOrigin
    <3> QED BY <2>1, <2>2, <2>3, <2>4, <3>1, <3>2 DEF k
  <2> QED BY <2>9, <2>10
<1> HIDE DEF S, m
<1>19. \A i \in 0 .. m : i \in S
  BY <1>10, <1>17, <1>18, IntervalInduction
<1>20. m \in S
  BY <1>10, <1>19
<1>21. m + 1 = n
  BY <1>1 DEF m
<1>22. common[n] = g[m] /\ Longest(g[m], T(n))
  BY <1>20, <1>21 DEF S
<1>23. T(n) = ToOrigin(paths, ElectedOrigin(paths))
  <2>1. Range(paths) = {sorted[j] : j \in 1 .. n}
    BY <1>2 DEF Range
  <2>2. \A j \in 1 .. n : R(j)[1] = R(1)[1] <=> Last(sorted[j]) = ElectedOrigin(paths)
    BY <1>1, <1>2, <1>4
  <2>3. T(n) = {Reverse(sorted[j]) : j \in {i \in 1 .. n : Last(sorted[i]) = ElectedOrigin(paths)}}
    BY <2>2 DEF R
  <2> HIDE DEF T
  <2> QED BY <2>1, <2>3 DEF ToOrigin
<1> QED BY <1>3, <1>22, <1>23

---------------------------------------------------------------------------
(* The bottlenecks of the tables.                                          *)

(* There is a path to the elected origin. *)
LEMMA ToOriginType ==
    ASSUME NEW paths \in Seq(AsPath), paths # << >>
    PROVE  /\ ToOrigin(paths, ElectedOrigin(paths)) \in SUBSET Seq(Nat)
           /\ ToOrigin(paths, ElectedOrigin(paths)) # {}
<1>1. Range(paths) = {paths[i] : i \in DOMAIN paths}
  BY DEF Range
<1>2. \A path \in Range(paths) : path \in AsPath
  BY <1>1
<1>3. \A path \in Range(paths) : Reverse(path) \in Seq(Nat)
  BY <1>2, ReverseType DEF AsPath
<1>4. /\ ShortestFirst(paths) \in [1 .. Len(paths) -> AsPath]
      /\ Range(ShortestFirst(paths)) = Range(paths)
      /\ Last(ShortestFirst(paths)[1]) = ElectedOrigin(paths)
  BY ShortestFirstSorts
<1>5. 1 \in 1 .. Len(paths)
  OBVIOUS
<1>6. ShortestFirst(paths)[1] \in Range(paths)
  BY <1>4, <1>5 DEF Range
<1> QED BY <1>3, <1>4, <1>6 DEF ToOrigin

(***************************************************************************)
(* What the program takes for the bottleneck of a prefix is the farthest AS*)
(* that all its paths to the elected origin share.                         *)
(***************************************************************************)
LEMMA BottleneckIsLast ==
    ASSUME NEW paths \in Seq(AsPath), paths # << >>
    PROVE  /\ BottleneckOf(paths) = Last(CommonSuffix(paths))
           /\ Last(CommonSuffix(paths)) \in Nat
<1> DEFINE c == CommonSuffix(paths)
           T == ToOrigin(paths, ElectedOrigin(paths))
<1>1. Longest(c, T)
  BY CommonSuffixIsLongest
<1>2. T \in SUBSET Seq(Nat) /\ T # {}
  BY ToOriginType
<1> HIDE DEF c, T
<1>3. LongestCommonPrefix(T) = c
  BY <1>1, <1>2, LongestIsCommonPrefix
<1>4. c \in Seq(Nat) /\ c # << >>
  BY <1>1 DEF Longest, AsPath
<1>5. Last(c) \in Nat
  <2>1. Len(c) \in 1 .. Len(c)
    BY <1>4
  <2> QED BY <1>4, <2>1 DEF Last
<1> QED BY <1>3, <1>5 DEF BottleneckOf, c, T

(***************************************************************************)
(* The trie path of a prefix of the tables.                                *)
(***************************************************************************)
LEMMA RoutingPath ==
    ASSUME NEW net \in Network
    PROVE  IpToBits(RoutingPrefix(net)) \in Path
<1> DEFINE p == RoutingPrefix(net)
           q == IpToBits(p)
<1>1. V4Bits \in Nat /\ MappedBits \in Nat /\ V6Bits = MappedBits + V4Bits
      /\ MappedRange \in [1 .. MappedBits -> Bit]
  BY WidthAssumption, MappedRangeAssumption DEF V6Bits
<1>2. p \in Prefix
  BY CanonicalPrefixType DEF RoutingPrefix
<1> HIDE DEF p
<1>3. ASSUME p \in PrefixOf("v6", V6Bits) PROVE q \in Path
  <2>1. p.fam = "v6" /\ p.len \in 0 .. V6Bits /\ p.bits \in [1 .. p.len -> Bit]
    BY <1>3 DEF PrefixOf
  <2>2. q = p.bits
    BY <2>1 DEF IpToBits
  <2> HIDE DEF q
  <2> QED BY <2>1, <2>2 DEF Path
<1>4. ASSUME p \in PrefixOf("v4", V4Bits) PROVE q \in Path
  <2>1. p.fam = "v4" /\ p.len \in 0 .. V4Bits /\ p.bits \in [1 .. p.len -> Bit]
    BY <1>4 DEF PrefixOf
  <2>2. q = [i \in 1 .. MappedBits + p.len |->
              IF i <= MappedBits THEN MappedRange[i] ELSE p.bits[i - MappedBits]]
    BY <2>1 DEF IpToBits
  <2>3. MappedBits + p.len \in 0 .. V6Bits
    BY <1>1, <2>1
  <2>4. ASSUME NEW i \in 1 .. MappedBits + p.len
        PROVE  (IF i <= MappedBits THEN MappedRange[i] ELSE p.bits[i - MappedBits]) \in Bit
    <3>1. CASE i <= MappedBits
      BY <1>1, <3>1
    <3>2. CASE ~ (i <= MappedBits)
      <4>1. i - MappedBits \in 1 .. p.len
        BY <1>1, <2>1, <3>2
      <4> QED BY <2>1, <3>2, <4>1
    <3> QED BY <3>1, <3>2
  <2>5. q \in [1 .. MappedBits + p.len -> Bit]
    BY <2>2, <2>4
  <2> HIDE DEF q
  <2> QED BY <2>3, <2>5 DEF Path
<1> HIDE DEF q
<1>5. q \in Path
  BY <1>2, <1>3, <1>4 DEF Prefix
<1> QED BY <1>5 DEF p, q

(* The image of a finite set is finite. *)
LEMMA FiniteImage ==
    ASSUME NEW S, IsFiniteSet(S), NEW f, DOMAIN f = S
    PROVE  IsFiniteSet({f[x] : x \in S})
<1> DEFINE T == {f[x] : x \in S}
           g == [x \in S |-> f[x]]
<1>1. g \in Surjection(S, T)
  BY DEF Surjection
<1> HIDE DEF g, T
<1>2. IsFiniteSet(T)
  BY <1>1, FS_Surjection
<1> QED BY <1>2 DEF T

(***************************************************************************)
(* What the paths of the tables are: finitely many prefixes, each with at  *)
(* least one path.                                                         *)
(***************************************************************************)
LEMMA MrtHmType ==
    ASSUME NEW records \in Seq(RibRecord)
    PROVE  /\ IsFiniteSet(MrtHm(records))
           /\ \A keyed \in MrtHm(records) :
                 /\ IpToBits(keyed[1]) \in Path
                 /\ keyed[2] = PathsTo(keyed[1], records)
                 /\ keyed[2] \in Seq(AsPath) /\ keyed[2] # << >>
<1> DEFINE at == [i \in DOMAIN records |->
                    <<RoutingPrefix(records[i].net),
                      PathsTo(RoutingPrefix(records[i].net), records)>>]
           all == {at[i] : i \in DOMAIN records}
<1>1. MrtHm(records) = {keyed \in all : keyed[2] # << >>}
  BY DEF MrtHm
<1>2. IsFiniteSet(DOMAIN records)
  <2>1. DOMAIN records = 1 .. Len(records) /\ Len(records) \in Nat
    OBVIOUS
  <2> QED BY <2>1, FS_Interval
<1>3. IsFiniteSet(all)
  <2>1. DOMAIN at = DOMAIN records
    OBVIOUS
  <2> HIDE DEF at
  <2> QED BY <1>2, <2>1, FiniteImage
<1>4. IsFiniteSet(MrtHm(records))
  <2> HIDE DEF all
  <2> QED BY <1>1, <1>3, FS_Subset
<1>5. ASSUME NEW i \in DOMAIN records
      PROVE  /\ IpToBits(RoutingPrefix(records[i].net)) \in Path
             /\ PathsTo(RoutingPrefix(records[i].net), records) \in Seq(AsPath)
  <2>1. records[i] \in RibRecord
    OBVIOUS
  <2>2. records[i].net \in Network
    BY <2>1 DEF RibRecord
  <2> QED BY <2>2, RoutingPath, PathsToRange
<1>6. ASSUME NEW keyed \in MrtHm(records)
      PROVE  /\ IpToBits(keyed[1]) \in Path
             /\ keyed[2] = PathsTo(keyed[1], records)
             /\ keyed[2] \in Seq(AsPath) /\ keyed[2] # << >>
  <2>1. keyed[2] # << >> /\ keyed \in all
    BY <1>1
  <2>2. PICK i \in DOMAIN records : keyed = at[i]
    BY <2>1
  <2>3. keyed = <<RoutingPrefix(records[i].net),
                  PathsTo(RoutingPrefix(records[i].net), records)>>
    BY <2>2
  <2> QED BY <1>5, <2>1, <2>3
<1> QED BY <1>4, <1>6

(* prefix_asn holds the bottlenecks, as finitely many trie entries. *)
LEMMA PrefixAsnIsBottlenecks ==
    ASSUME NEW records \in Seq(RibRecord)
    PROVE  /\ PrefixAsn(MrtHm(records)) = Bottlenecks(MrtHm(records))
           /\ PrefixAsn(MrtHm(records)) \in SUBSET (Path \X Nat)
           /\ IsFiniteSet(PrefixAsn(MrtHm(records)))
<1> DEFINE rib == MrtHm(records)
           asn == [keyed \in rib |-> <<IpToBits(keyed[1]), Last(CommonSuffix(keyed[2]))>>]
<1>1. IsFiniteSet(rib)
  BY MrtHmType
<1>2. ASSUME NEW keyed \in rib
      PROVE  /\ IpToBits(keyed[1]) \in Path
             /\ BottleneckOf(keyed[2]) = Last(CommonSuffix(keyed[2]))
             /\ Last(CommonSuffix(keyed[2])) \in Nat
  BY MrtHmType, BottleneckIsLast
<1> HIDE DEF rib
<1>3. PrefixAsn(rib) = Bottlenecks(rib)
  BY <1>2 DEF PrefixAsn, Bottlenecks
<1>4. PrefixAsn(rib) \in SUBSET (Path \X Nat)
  BY <1>2 DEF PrefixAsn
<1>5. PrefixAsn(rib) = {asn[keyed] : keyed \in rib} /\ DOMAIN asn = rib
  BY DEF PrefixAsn
<1> HIDE DEF asn
<1>6. IsFiniteSet(PrefixAsn(rib))
  BY <1>1, <1>5, FiniteImage
<1> QED BY <1>3, <1>4, <1>6 DEF rib

---------------------------------------------------------------------------
(* The map of a set of entries.                                            *)

(* SetToSeq lists every element of a finite set, and nothing else. *)
LEMMA SetToSeqLists ==
    ASSUME NEW S, IsFiniteSet(S)
    PROVE  SetToSeq(S) \in Seq(S) /\ Range(SetToSeq(S)) = S
<1> DEFINE n == Cardinality(S)
           f == SetToSeq(S)
<1>1. n \in Nat
  BY FS_CardinalityType
<1>2. IsFiniteSet(1 .. n) /\ Cardinality(1 .. n) = n
  BY <1>1, FS_Interval
<1>3. ExistsBijection(1 .. n, S)
  BY <1>2, FS_SameCardinalityBij
<1>4. \E g \in [1 .. n -> S] : IsInjective(g)
  BY <1>3 DEF ExistsBijection, Bijection, Injection
<1>5. f \in [1 .. n -> S] /\ IsInjective(f)
  BY <1>4 DEF SetToSeq
<1> HIDE DEF n, f
<1>6. f \in Injection(1 .. n, S)
  BY <1>5 DEF Injection
<1>7. f \in Surjection(1 .. n, S)
  BY <1>2, <1>6, FS_Injection DEF n
<1>8. Range(f) = S
  BY <1>5, <1>7 DEF Surjection, Range
<1>9. f \in Seq(S)
  BY <1>1, <1>5
<1> QED BY <1>8, <1>9 DEF f

(***************************************************************************)
(* Of any entries of a list one is applied last.                           *)
(***************************************************************************)
LEMMA LastExists ==
    ASSUME NEW entries \in Seq(Path \X Nat), NEW over \in SUBSET DOMAIN entries, over # {}
    PROVE  \E i \in over :
              \A j \in over : \/ Len(entries[j][1]) < Len(entries[i][1])
                              \/ Len(entries[j][1]) = Len(entries[i][1]) /\ j <= i
<1> DEFINE n == Len(entries)
           keys == [i \in 1 .. n |-> Len(entries[i][1])]
           rest == {(n - 1) - Place(keys, i) : i \in over}
<1>1. n \in Nat /\ DOMAIN entries = 1 .. n
  OBVIOUS
<1>2. \A i \in 1 .. n : Len(entries[i][1]) \in Nat
  BY <1>1, EntryType
<1>3. \A i \in 1 .. n : keys[i] = Len(entries[i][1]) /\ keys[i] \in Nat
  BY <1>2
<1>4. keys \in Seq(Nat) /\ Len(keys) = n /\ DOMAIN keys = 1 .. n
  BY <1>1, <1>2
<1> HIDE DEF n, keys
<1>5. \A i \in over : i \in 1 .. n /\ Place(keys, i) \in 0 .. n - 1
  BY <1>1, <1>4, PlaceBound
<1>6. rest \in SUBSET Nat /\ rest # {}
  BY <1>1, <1>5
<1>7. PICK x \in rest : \A y \in rest : x <= y
  BY <1>6, LeastElement
<1>8. PICK i \in over : x = (n - 1) - Place(keys, i)
  BY <1>7
<1>9. ASSUME NEW j \in over
      PROVE  \/ Len(entries[j][1]) < Len(entries[i][1])
             \/ Len(entries[j][1]) = Len(entries[i][1]) /\ j <= i
  <2>1. (n - 1) - Place(keys, i) <= (n - 1) - Place(keys, j)
    BY <1>7, <1>8
  <2>2. ~ (Place(keys, i) < Place(keys, j))
    BY <1>1, <1>5, <2>1
  <2>3. ~ Ahead(keys, i, j)
    BY <1>4, <1>5, <2>2, PlacesInOrder
  <2>4. i \in 1 .. n /\ j \in 1 .. n
    BY <1>5
  <2>5. i \in Int /\ j \in Int
    BY <1>1, <2>4
  <2>6. /\ keys[i] = Len(entries[i][1]) /\ Len(entries[i][1]) \in Nat
        /\ keys[j] = Len(entries[j][1]) /\ Len(entries[j][1]) \in Nat
    BY ONLY <1>2, <1>3, <2>4
  <2> QED BY ONLY <2>3, <2>5, <2>6 DEF Ahead
<1> QED BY <1>9

(***************************************************************************)
(* In a map of entries alone an address has the ASN of the longest over it,*)
(* or none.                                                                *)
(***************************************************************************)
LEMMA MapOfEntries ==
    ASSUME NEW B \in SUBSET (Path \X Nat), IsFiniteSet(B), NEW a \in Address
    PROVE  LET map == UpdateMulti(EmptyMap, SetToSeq(B))
               covering == {b \in B : Covers(b[1], a)}
           IN  IF covering = {} THEN Lookup(map, a) = 0
               ELSE \E b \in covering :
                       /\ \A other \in covering : Len(other[1]) <= Len(b[1])
                       /\ Lookup(map, a) = b[2]
<1> DEFINE entries == SetToSeq(B)
           map == UpdateMulti(EmptyMap, entries)
           covering == {b \in B : Covers(b[1], a)}
           f == [x \in Address |-> 0]
           over == {i \in DOMAIN entries : Covers(entries[i][1], a)}
<1>1. entries \in Seq(B) /\ Range(entries) = B
  BY SetToSeqLists
<1> HIDE DEF entries
<1>2. entries \in Seq(Path \X Nat)
  BY <1>1
<1>3. B = {entries[i] : i \in DOMAIN entries}
  BY <1>1 DEF Range
<1>4. EmptyMap = TrieOf(f)
  <2>1. \A x \in Address : Covers(<< >>, x) => f[x] = 0
    OBVIOUS
  <2> HIDE DEF f
  <2>2. Below(f)[<< >>] = Leaf(0)
    BY <2>1, EmptyPath, UniformIsLeaf
  <2> QED BY <2>2, TrieIsBelow DEF EmptyMap
<1>5. f = [x \in Address |-> f[x]] /\ f[a] = 0
  OBVIOUS
<1> HIDE DEF f
<1>6. map = TrieOf(After(f, entries, DOMAIN entries))
  BY <1>2, <1>4, <1>5, UpdateMultiIsCanonical
<1>7. Lookup(map, a) = AssignedAmong(entries, DOMAIN entries, f, a)
  BY <1>6, LookupOfTrie DEF After
<1> HIDE DEF map
<1>8. covering = {entries[i] : i \in over}
  BY <1>3
<1>9. CASE over = {}
  <2>1. covering = {}
    BY <1>8, <1>9
  <2>2. Lookup(map, a) = 0
    BY <1>5, <1>7, <1>9 DEF AssignedAmong
  <2> QED BY <2>1, <2>2 DEF map, entries
<1>10. CASE over # {}
  <2> DEFINE i == LastOf(entries, over)
  <2>1. Lookup(map, a) = entries[i][2]
    BY <1>7, <1>10 DEF AssignedAmong
  <2>2. over \in SUBSET DOMAIN entries
    OBVIOUS
  <2> HIDE DEF over
  <2>3. /\ i \in over
        /\ \A j \in over : \/ Len(entries[j][1]) < Len(entries[i][1])
                           \/ Len(entries[j][1]) = Len(entries[i][1]) /\ j <= i
    BY <1>2, <1>10, <2>2, LastExists DEF LastOf
  <2> HIDE DEF i
  <2>4. \A j \in over : Len(entries[j][1]) \in Nat
    BY <1>2, <2>2, EntryType
  <2>5. \A j \in over : Len(entries[j][1]) <= Len(entries[i][1])
    BY <2>3, <2>4
  <2>6. entries[i] \in covering /\ \A other \in covering : Len(other[1]) <= Len(entries[i][1])
    BY <1>8, <2>3, <2>5
  <2> HIDE DEF covering
  <2>7. \E b \in covering :
           /\ \A other \in covering : Len(other[1]) <= Len(b[1])
           /\ Lookup(map, a) = b[2]
    BY <2>1, <2>6
  <2>8. covering # {}
    BY <2>6
  <2> QED BY <2>7, <2>8 DEF map, entries, covering
<1> QED BY <1>9, <1>10

---------------------------------------------------------------------------
(* Every n-th element.                                                     *)

(***************************************************************************)
(* A position of EveryNth is one of the list, and it is not past its end.  *)
(***************************************************************************)
LEMMA EveryNthPosition ==
    ASSUME NEW len \in Nat, NEW n \in Nat \ {0}, NEW first \in 0 .. n - 1,
           NEW k \in 1 .. (len - first + n - 1) \div n
    PROVE  first + (k - 1) * n + 1 \in 1 .. len
<1> DEFINE count == (len - first + n - 1) \div n
<1>1. count \in Int /\ count * n <= len - first + n - 1
  BY SMT
<1>2. k \in Int /\ 1 <= k /\ k <= count
  OBVIOUS
<1> HIDE DEF count
<1>3. k * n <= count * n
  BY <1>1, <1>2
<1>4. (k - 1) * n = k * n - n /\ (k - 1) * n \in Nat
  BY <1>2
<1> QED BY <1>1, <1>3, <1>4

(***************************************************************************)
(* A position of the list, counted from 0, is one of those of its          *)
(* remainder.                                                              *)
(***************************************************************************)
LEMMA PositionIsEveryNth ==
    ASSUME NEW len \in Nat, NEW n \in Nat \ {0}, NEW i \in 1 .. len
    PROVE  /\ (i - 1) % n \in 0 .. n - 1
           /\ \E k \in 1 .. (len - ((i - 1) % n) + n - 1) \div n :
                 i = ((i - 1) % n) + (k - 1) * n + 1
<1> DEFINE r == (i - 1) % n
           d == (i - 1) \div n
           count == (len - r + n - 1) \div n
<1>1. d \in Nat /\ r \in 0 .. n - 1 /\ i - 1 = d * n + r
  BY SMT
<1> HIDE DEF r, d
<1>2. count \in Int /\ len - r + n - 1 < (count + 1) * n
  BY <1>1, SMT
<1> HIDE DEF count
<1>3. (d + 1) * n = d * n + n /\ (count + 1) * n = count * n + n /\ d * n \in Nat
  BY <1>1, <1>2
<1>4. d * n < count * n
  BY <1>1, <1>2, <1>3
<1>5. d < count
  BY <1>1, <1>2, <1>4
<1>6. d + 1 \in 1 .. count /\ i = r + d * n + 1
  BY <1>1, <1>2, <1>5
<1>7. \E k \in 1 .. count : i = r + (k - 1) * n + 1
  <2>1. PICK k \in 1 .. count : k = d + 1
    BY <1>6
  <2>2. k - 1 = d
    BY <1>1, <2>1
  <2>3. i = r + (k - 1) * n + 1
    BY <1>6, <2>2, Zenon
  <2> QED BY <2>3, Zenon
<1> QED BY <1>1, <1>7 DEF r, count

(***************************************************************************)
(* Two remainders give two positions.                                      *)
(***************************************************************************)
LEMMA RemaindersDiffer ==
    ASSUME NEW n \in Nat \ {0}, NEW a \in 0 .. n - 1, NEW b \in 0 .. n - 1,
           NEW k \in Nat, NEW j \in Nat, a + k * n = b + j * n
    PROVE  a = b
<1>1. k * n \in Nat /\ j * n \in Nat
  OBVIOUS
<1>2. ASSUME NEW x \in Nat, NEW y \in Nat, x < y PROVE x * n + n <= y * n
  <2>1. x + 1 <= y /\ (x + 1) * n = x * n + n
    BY <1>2
  <2>2. (x + 1) * n <= y * n
    BY <2>1
  <2> QED BY <2>1, <2>2
<1>3. ~ (k < j)
  BY <1>1, <1>2
<1>4. ~ (j < k)
  BY <1>1, <1>2
<1> QED BY <1>1, <1>3, <1>4

(***************************************************************************)
(* What a share is: a sequence of collectors of the list.                  *)
(***************************************************************************)
LEMMA EveryNthType ==
    ASSUME NEW S, NEW list \in Seq(S), NEW n \in Nat \ {0}, NEW first \in 0 .. n - 1
    PROVE  EveryNth(list, first, n) \in Seq(Range(list))
<1> DEFINE count == (Len(list) - first + n - 1) \div n
<1>1. Len(list) \in Nat /\ DOMAIN list = 1 .. Len(list)
  OBVIOUS
<1>2. ASSUME NEW k \in 1 .. count PROVE list[first + (k - 1) * n + 1] \in Range(list)
  BY <1>1, EveryNthPosition DEF Range
<1>3. count \in Nat
  <2>1. Len(list) - first + n - 1 \in Nat
    BY <1>1
  <2> QED BY <2>1, SMT
<1> HIDE DEF count
<1>4. [k \in 1 .. count |-> list[first + (k - 1) * n + 1]] \in Seq(Range(list))
  BY <1>2, <1>3
<1> QED BY <1>4 DEF EveryNth, count

---------------------------------------------------------------------------
(* Ranks.                                                                  *)

(***************************************************************************)
(* A rank among finitely many peers is below their number, and two peers   *)
(* have two ranks, in the order of their ids.                              *)
(***************************************************************************)
LEMMA RankBound ==
    ASSUME NEW view \in SUBSET Nat, IsFiniteSet(view), NEW p \in view
    PROVE  /\ Cardinality(view) \in Nat \ {0}
           /\ Rank(p, view) \in 0 .. Cardinality(view) - 1
<1> DEFINE below == {q \in view : q < p}
<1>1. below \subseteq view /\ p \in view /\ p \notin below
  OBVIOUS
<1>2. Cardinality(view) \in Nat /\ Cardinality(below) \in Nat
  BY <1>1, FS_Subset, FS_CardinalityType
<1>3. Cardinality(below) < Cardinality(view)
  BY <1>1, <1>2, FS_Subset
<1> QED BY <1>2, <1>3 DEF Rank

LEMMA RanksInOrder ==
    ASSUME NEW view \in SUBSET Nat, IsFiniteSet(view),
           NEW p \in view, NEW q \in view, p < q
    PROVE  Rank(p, view) < Rank(q, view)
<1> DEFINE belowP == {r \in view : r < p}
           belowQ == {r \in view : r < q}
<1>1. p \in Nat /\ q \in Nat /\ \A r \in view : r \in Nat
  OBVIOUS
<1>2. belowP \subseteq belowQ /\ p \in belowQ /\ p \notin belowP
  <2>1. \A r \in view : r < p => r < q
    BY <1>1
  <2>2. ~ (p < p)
    BY <1>1
  <2> QED BY <2>1, <2>2
<1>3. IsFiniteSet(belowQ) /\ IsFiniteSet(belowP)
  BY FS_Subset
<1>4. Cardinality(belowP) \in Nat /\ Cardinality(belowQ) \in Nat
  BY <1>3, FS_CardinalityType
<1>5. Cardinality(belowP) < Cardinality(belowQ)
  BY <1>2, <1>3, <1>4, FS_Subset
<1> QED BY <1>5 DEF Rank

LEMMA RanksDiffer ==
    ASSUME NEW view \in SUBSET Nat, IsFiniteSet(view),
           NEW p \in view, NEW q \in view, p # q
    PROVE  Rank(p, view) # Rank(q, view)
<1>1. Rank(p, view) \in Int /\ Rank(q, view) \in Int
  BY RankBound
<1>2. p < q \/ q < p
  BY p \in Nat, q \in Nat
<1> QED BY <1>1, <1>2, RanksInOrder

(***************************************************************************)
(* Every rank below the number of the peers is that of one of them.        *)
(***************************************************************************)
LEMMA EveryRankIsTaken ==
    ASSUME NEW view \in SUBSET Nat, IsFiniteSet(view),
           NEW rank \in 0 .. Cardinality(view) - 1
    PROVE  \E p \in view : Rank(p, view) = rank
<1> DEFINE n == Cardinality(view)
           ranks == [p \in view |-> Rank(p, view)]
<1>1. n \in Nat
  BY FS_CardinalityType
<1>2. ranks \in [view -> 0 .. n - 1]
  BY RankBound
<1>3. IsInjective(ranks)
  BY RanksDiffer DEF IsInjective
<1>4. ranks \in Injection(view, 0 .. n - 1)
  BY <1>2, <1>3 DEF Injection
<1>5. IsFiniteSet(0 .. n - 1) /\ Cardinality(0 .. n - 1) = n
  BY <1>1, FS_Interval
<1>6. ranks \in Surjection(view, 0 .. n - 1)
  BY <1>4, <1>5, FS_Injection
<1> QED BY <1>6 DEF Surjection

---------------------------------------------------------------------------
(* The shares of one view.                                                 *)

(***************************************************************************)
(* The share of a peer of the view: collectors of the list, and at least   *)
(* one unless the peer ranks behind the last collector.                    *)
(***************************************************************************)
LEMMA ShareType ==
    ASSUME NEW S, NEW list \in Seq(S),
           NEW view \in SUBSET Nat, IsFiniteSet(view), NEW p \in view
    PROVE  /\ AssignedCollectors(list, p, view)
                  = EveryNth(list, Rank(p, view), Cardinality(view))
           /\ AssignedCollectors(list, p, view) \in Seq(Range(list))
           /\ AssignedCollectors(list, p, view) = << >> <=> Rank(p, view) >= Len(list)
<1> DEFINE n == Cardinality(view)
           r == Rank(p, view)
           count == (Len(list) - r + n - 1) \div n
<1>1. view \cup {p} = view
  OBVIOUS
<1>2. AssignedCollectors(list, p, view) = EveryNth(list, r, n)
  BY <1>1 DEF AssignedCollectors
<1>3. n \in Nat \ {0} /\ r \in 0 .. n - 1 /\ Len(list) \in Nat
  BY RankBound
<1> HIDE DEF n, r
<1>4. EveryNth(list, r, n) \in Seq(Range(list))
  BY <1>3, EveryNthType
<1>5. count \in Int /\ EveryNth(list, r, n) = [k \in 1 .. count |-> list[r + (k - 1) * n + 1]]
  BY <1>3 DEF EveryNth
<1>6. ASSUME r < Len(list) PROVE EveryNth(list, r, n) # << >>
  <2> DEFINE x == Len(list) - r + n - 1
  <2>1. x \in Int /\ x >= n
    BY <1>3, <1>6
  <2> HIDE DEF x
  <2>2. x \div n >= 1
    BY <1>3, <2>1
  <2>3. count >= 1
    BY <2>2 DEF x
  <2> HIDE DEF count
  <2>4. 1 \in DOMAIN EveryNth(list, r, n)
    BY <1>5, <2>3
  <2> QED BY <2>4
<1>7. ASSUME r >= Len(list) PROVE EveryNth(list, r, n) = << >>
  <2> DEFINE x == Len(list) - r + n - 1
  <2>1. x \in Int /\ 0 <= x /\ x <= n - 1
    BY <1>3, <1>7
  <2> HIDE DEF x
  <2>2. x \div n = 0
    BY <1>3, <2>1
  <2>3. count = 0
    BY <2>2 DEF x
  <2> HIDE DEF count
  <2>4. EveryNth(list, r, n) = [k \in 1 .. 0 |-> list[r + (k - 1) * n + 1]]
    BY <1>5, <2>3
  <2> QED BY <2>4
<1>8. EveryNth(list, r, n) = << >> <=> r >= Len(list)
  BY <1>3, <1>6, <1>7
<1> QED BY <1>2, <1>4, <1>8 DEF n, r

(***************************************************************************)
(* Two peers of one view share no position of the list.                    *)
(***************************************************************************)
LEMMA SharesDisjoint ==
    ASSUME NEW S, NEW list \in Seq(S), IsInjective(list),
           NEW view \in SUBSET Nat, IsFiniteSet(view),
           NEW p \in view, NEW q \in view, p # q
    PROVE  Range(AssignedCollectors(list, p, view))
               \cap Range(AssignedCollectors(list, q, view)) = {}
<1> DEFINE n == Cardinality(view)
           a == Rank(p, view)
           b == Rank(q, view)
           countA == (Len(list) - a + n - 1) \div n
           countB == (Len(list) - b + n - 1) \div n
<1> SUFFICES ASSUME NEW c \in Range(AssignedCollectors(list, p, view)),
                    c \in Range(AssignedCollectors(list, q, view))
             PROVE  FALSE
  OBVIOUS
<1>1. n \in Nat \ {0} /\ a \in 0 .. n - 1 /\ b \in 0 .. n - 1 /\ a # b
  BY RankBound, RanksDiffer
<1>2. c \in Range(EveryNth(list, a, n)) /\ c \in Range(EveryNth(list, b, n))
  BY ShareType
<1> HIDE DEF n, a, b
<1>3. Len(list) \in Nat /\ DOMAIN list = 1 .. Len(list)
  OBVIOUS
<1>4. PICK k \in 1 .. countA : c = list[a + (k - 1) * n + 1]
  BY <1>2 DEF EveryNth, Range
<1>5. PICK j \in 1 .. countB : c = list[b + (j - 1) * n + 1]
  BY <1>2 DEF EveryNth, Range
<1>6. a + (k - 1) * n + 1 \in DOMAIN list /\ b + (j - 1) * n + 1 \in DOMAIN list
  BY <1>1, <1>3, EveryNthPosition
<1>7. a + (k - 1) * n + 1 = b + (j - 1) * n + 1
  BY <1>4, <1>5, <1>6, Zenon DEF IsInjective
<1> HIDE DEF countA, countB
<1>8. k \in Int /\ 1 <= k /\ j \in Int /\ 1 <= j
  BY <1>4, <1>5
<1> DEFINE u == k - 1
           v == j - 1
<1>9. u \in Nat /\ v \in Nat
  BY <1>8
<1>10. a + u * n + 1 = b + v * n + 1
  BY <1>7
<1> HIDE DEF u, v
<1>11. a + u * n = b + v * n
  BY <1>1, <1>9, <1>10
<1>12. a = b
  BY <1>1, <1>9, <1>11, RemaindersDiffer
<1> QED BY <1>1, <1>12

(***************************************************************************)
(* Together the peers of one view have every collector of the list.        *)
(***************************************************************************)
LEMMA SharesCover ==
    ASSUME NEW S, NEW list \in Seq(S),
           NEW view \in SUBSET Nat, IsFiniteSet(view), view # {}, NEW i \in DOMAIN list
    PROVE  \E p \in view : list[i] \in Range(AssignedCollectors(list, p, view))
<1> DEFINE n == Cardinality(view)
           r == (i - 1) % n
<1>1. n \in Nat \ {0}
  BY RankBound
<1>2. Len(list) \in Nat /\ i \in 1 .. Len(list)
  OBVIOUS
<1> HIDE DEF n
<1>3. /\ r \in 0 .. n - 1
      /\ \E k \in 1 .. (Len(list) - r + n - 1) \div n : i = r + (k - 1) * n + 1
  BY ZenonT(40), <1>1, <1>2, PositionIsEveryNth
<1> HIDE DEF r
<1>4. PICK p \in view : Rank(p, view) = r
  BY <1>3, EveryRankIsTaken DEF n
<1>5. PICK k \in 1 .. (Len(list) - r + n - 1) \div n : i = r + (k - 1) * n + 1
  BY <1>3
<1>6. list[i] \in Range(EveryNth(list, r, n))
  BY <1>5 DEF EveryNth, Range
<1>7. AssignedCollectors(list, p, view) = EveryNth(list, r, n)
  BY <1>4, ShareType DEF n
<1> QED BY <1>6, <1>7

---------------------------------------------------------------------------
(* The inductive invariant.                                                *)

(* The records read are the first ones of each table. *)
ReadTo(targets, extent) ==
    /\ DOMAIN extent = DOMAIN targets
    /\ \A i \in DOMAIN targets : extent[i] \in 0 .. Len(Dump[targets[i]])

(***************************************************************************)
(* What a node has read is what its view assigned it, or nothing yet.      *)
(***************************************************************************)
ReadAsAssigned(p, r) ==
    \/ r = NothingRead
    \/ /\ r.view \subseteq Peer /\ IsFiniteSet(r.view) /\ p \in r.view
       /\ r.targets = Targets(p, r.view)
       /\ ReadTo(r.targets, r.extent)

KnowsOthers(p, peers) == peers \subseteq Peer /\ IsFiniteSet(peers) /\ p \notin peers

IInv ==
    /\ collectors \in Lists
    /\ phase \in [Peer -> {"new", "running", "stopped"}]
    /\ known_peers \in [Collecting -> SUBSET Peer]
    /\ DOMAIN reading = Collecting
    /\ \A p \in Collecting : KnowsOthers(p, known_peers[p])
    /\ \A p \in Collecting : ReadAsAssigned(p, reading[p])
    /\ faults \in 0 .. MaxFaults

LEMMA InitInvariant == Init => IInv
<1> SUFFICES ASSUME Init PROVE IInv
  OBVIOUS
<1>1. IsFiniteSet({})
  BY FS_EmptySet
<1>2. \A p \in Collecting : reading[p] = NothingRead /\ known_peers[p] = {}
  BY DEF Init
<1>3. phase \in [Peer -> {"new", "running", "stopped"}]
  BY DEF Init
<1>4. 0 \in 0 .. MaxFaults
  BY CollectAssumption
<1> QED BY <1>1, <1>2, <1>3, <1>4 DEF Init, IInv, KnowsOthers, ReadAsAssigned

(***************************************************************************)
(* The targets are a sequence of collectors, whoever reads them.           *)
(***************************************************************************)
LEMMA TargetsType ==
    ASSUME collectors \in Lists,
           NEW view \in SUBSET Peer, IsFiniteSet(view), NEW p \in view
    PROVE  Targets(p, view) \in Seq(Range(AllCollectors))
<1>1. collectors \in Seq(Range(AllCollectors)) /\ view \in SUBSET Nat
  BY CollectAssumption
<1>2. AssignedCollectors(collectors, p, view) \in Seq(Range(collectors))
  BY <1>1, ShareType
<1>3. Range(collectors) \subseteq Range(AllCollectors)
  BY <1>1 DEF Range
<1>4. AssignedCollectors(collectors, p, view) \in Seq(Range(AllCollectors))
  BY <1>2, <1>3
<1>5. AllCollectors \in Seq(Range(AllCollectors))
  BY CollectAssumption DEF Range
<1> QED BY <1>4, <1>5 DEF Targets

(***************************************************************************)
(* A reading that succeeds is what the node's view assigns it, within the  *)
(* bound on the faults.                                                    *)
(***************************************************************************)
LEMMA BuildStep ==
    ASSUME IInv, NEW p \in Collecting, BuildRisClaim(p, known_peers[p])
    PROVE  /\ DOMAIN reading' = Collecting
           /\ \A q \in Collecting : ReadAsAssigned(q, reading'[q])
           /\ faults' \in 0 .. MaxFaults
<1> DEFINE peers == known_peers[p]
           view == peers \cup {p}
<1>1. PICK extent \in Extents(Targets(p, peers)) :
         /\ faults + NumberCut(Targets(p, peers), extent) <= MaxFaults
         /\ faults' = faults + NumberCut(Targets(p, peers), extent)
         /\ reading' = [reading EXCEPT ![p] =
               [view |-> view, targets |-> Targets(p, peers), extent |-> extent]]
  BY DEF BuildRisClaim
<1>2. view \subseteq Peer /\ IsFiniteSet(view) /\ p \in view
  BY CollectAssumption, FS_AddElement DEF IInv, KnowsOthers
<1>3. Targets(p, peers) = Targets(p, view)
  <2>1. view \cup {p} = peers \cup {p}
    OBVIOUS
  <2> QED BY <2>1 DEF Targets, AssignedCollectors
<1>4. ReadTo(Targets(p, peers), extent)
  <2> DEFINE targets == Targets(p, peers)
  <2>1. targets \in Seq(Range(AllCollectors))
    BY <1>2, <1>3, TargetsType DEF IInv
  <2> HIDE DEF targets
  <2>2. extent \in Extents(targets)
    BY <1>1 DEF targets
  <2>3. DOMAIN extent = DOMAIN targets
    BY <2>2 DEF Extents
  <2>4. ASSUME NEW i \in DOMAIN targets PROVE extent[i] \in 0 .. Len(Dump[targets[i]])
    <3>1. targets[i] \in Range(AllCollectors)
      BY <2>1
    <3>2. Len(Dump[targets[i]]) \in Nat
      BY <3>1, DumpAssumption
    <3>3. \/ extent[i] = Len(Dump[targets[i]])
          \/ extent[i] \in Cuts /\ extent[i] < Len(Dump[targets[i]])
      BY <2>2 DEF Extents
    <3>4. Cuts \subseteq Nat
      BY CollectAssumption
    <3> DEFINE length == Len(Dump[targets[i]])
               end == extent[i]
    <3>5. length \in Nat /\ (end = length \/ (end \in Nat /\ end < length))
      BY <3>2, <3>3, <3>4
    <3> HIDE DEF length, end
    <3>6. end \in 0 .. length
      BY ONLY <3>5
    <3> QED BY <3>6 DEF length, end
  <2> QED BY <2>3, <2>4 DEF ReadTo, targets
<1>5. NumberCut(Targets(p, peers), extent) \in Nat
  <2> DEFINE targets == Targets(p, peers)
             cut == {i \in DOMAIN targets : extent[i] < Len(Dump[targets[i]])}
  <2>1. targets \in Seq(Range(AllCollectors))
    BY <1>2, <1>3, TargetsType DEF IInv
  <2> HIDE DEF targets
  <2>2. IsFiniteSet(DOMAIN targets)
    <3>1. DOMAIN targets = 1 .. Len(targets) /\ Len(targets) \in Nat
      BY <2>1
    <3> QED BY <3>1, FS_Interval
  <2>3. IsFiniteSet(cut)
    BY <2>2, FS_Subset
  <2>4. Cardinality(cut) \in Nat
    BY <2>3, FS_CardinalityType
  <2> QED BY <2>4 DEF NumberCut, targets
<1>6. faults' \in 0 .. MaxFaults
  BY <1>1, <1>5, CollectAssumption DEF IInv
<1>7. DOMAIN reading' = Collecting
  BY <1>1 DEF IInv
<1>8. ASSUME NEW q \in Collecting PROVE ReadAsAssigned(q, reading'[q])
  <2>1. CASE q = p
    <3> DEFINE r == [view |-> view, targets |-> Targets(p, peers), extent |-> extent]
    <3>1. reading'[q] = r
      BY <1>1, <2>1 DEF IInv
    <3>2. r.view = view /\ r.targets = Targets(p, peers) /\ r.extent = extent
      OBVIOUS
    <3> HIDE DEF r, view, peers
    <3> QED BY <1>2, <1>3, <1>4, <2>1, <3>1, <3>2 DEF ReadAsAssigned
  <2>2. CASE q # p
    <3>1. reading'[q] = reading[q]
      BY <1>1, <2>2 DEF IInv
    <3> QED BY <3>1 DEF IInv
  <2> QED BY <2>1, <2>2
<1> QED BY <1>6, <1>7, <1>8

(***************************************************************************)
(* The list is never replaced, so what the views assign is settled.        *)
(***************************************************************************)
LEMMA InvariantAfterStep ==
    ASSUME collectors \in Lists, collectors' = collectors,
           phase' \in [Peer -> {"new", "running", "stopped"}],
           known_peers' \in [Collecting -> SUBSET Peer], DOMAIN reading' = Collecting,
           \A p \in Collecting : KnowsOthers(p, known_peers'[p]),
           \A p \in Collecting : ReadAsAssigned(p, reading'[p]),
           faults' \in 0 .. MaxFaults
    PROVE  IInv'
<1>1. ASSUME NEW p \in Collecting PROVE ReadAsAssigned(p, reading[p])'
  BY DEF ReadAsAssigned, NothingRead, Targets
<1>2. ASSUME NEW p \in Collecting PROVE KnowsOthers(p, known_peers[p])'
  BY DEF KnowsOthers
<1> QED BY <1>1, <1>2 DEF IInv

(***************************************************************************)
(* A fault stays within the bound.                                         *)
(***************************************************************************)
LEMMA FaultBound ==
    ASSUME faults \in 0 .. MaxFaults, Fault \/ UNCHANGED faults
    PROVE  faults' \in 0 .. MaxFaults
BY CollectAssumption DEF Fault

LEMMA StartStep == ASSUME IInv, NEW p \in Peer, Start(p) PROVE IInv'
<1>1. phase' \in [Peer -> {"new", "running", "stopped"}] /\ UNCHANGED <<collectors, known_peers>>
  BY DEF Start, IInv
<1>2. CASE p \in Collecting
  <2>1. BuildRisClaim(p, known_peers[p])
    BY <1>2 DEF Start
  <2> QED BY <1>1, <1>2, <2>1, BuildStep, InvariantAfterStep DEF IInv
<1>3. CASE p \notin Collecting
  <2>1. UNCHANGED <<reading, faults>>
    BY <1>3 DEF Start
  <2> QED BY <1>1, <2>1, InvariantAfterStep DEF IInv
<1> QED BY <1>2, <1>3

LEMMA StopStep == ASSUME IInv, NEW p \in Peer, Stop(p) PROVE IInv'
<1>1. phase' \in [Peer -> {"new", "running", "stopped"}]
  BY DEF Stop, IInv
<1> QED BY <1>1, InvariantAfterStep DEF Stop, IInv

LEMMA StartFailsStep == ASSUME IInv, NEW p \in Collecting, StartFails(p) PROVE IInv'
<1>1. phase' \in [Peer -> {"new", "running", "stopped"}]
  BY DEF StartFails, IInv
<1>2. faults' \in 0 .. MaxFaults
  BY FaultBound DEF StartFails, IInv
<1> QED BY <1>1, <1>2, InvariantAfterStep DEF StartFails, IInv

LEMMA RefreshStep == ASSUME IInv, NEW p \in Collecting, Refresh(p) PROVE IInv'
<1>1. BuildRisClaim(p, known_peers[p]) /\ UNCHANGED <<collectors, phase, known_peers>>
  BY DEF Refresh
<1> QED BY <1>1, BuildStep, InvariantAfterStep DEF IInv

LEMMA DiscoveredStep ==
    ASSUME IInv, NEW p \in Collecting, NEW q \in Peer \ {p}, Discovered(p, q)
    PROVE  IInv'
<1>1. ASSUME NEW o \in Collecting PROVE KnowsOthers(o, known_peers'[o])
  <2>1. KnowsOthers(o, known_peers[o])
    BY DEF IInv
  <2>2. CASE o = p
    <3>1. known_peers'[o] = known_peers[o] \cup {q}
      BY <2>2 DEF Discovered, IInv
    <3>2. IsFiniteSet(known_peers[o] \cup {q})
      BY <2>1, FS_AddElement DEF KnowsOthers
    <3> QED BY <2>1, <2>2, <3>1, <3>2 DEF KnowsOthers
  <2>3. CASE o # p
    BY <2>1, <2>3 DEF Discovered, IInv
  <2> QED BY <2>2, <2>3
<1>2. known_peers' \in [Collecting -> SUBSET Peer]
  BY DEF Discovered, IInv
<1> QED BY <1>1, <1>2, InvariantAfterStep DEF Discovered, IInv

LEMMA ExpiredStep ==
    ASSUME IInv, NEW p \in Collecting, NEW q \in Peer \ {p}, Expired(p, q)
    PROVE  IInv'
<1>1. ASSUME NEW o \in Collecting PROVE KnowsOthers(o, known_peers'[o])
  <2>1. KnowsOthers(o, known_peers[o])
    BY DEF IInv
  <2>2. CASE o = p
    <3>1. known_peers'[o] = known_peers[o] \ {q}
      BY <2>2 DEF Expired, IInv
    <3>2. IsFiniteSet(known_peers[o] \ {q})
      BY <2>1, FS_RemoveElement DEF KnowsOthers
    <3> QED BY <2>1, <2>2, <3>1, <3>2 DEF KnowsOthers
  <2>3. CASE o # p
    BY <2>1, <2>3 DEF Expired, IInv
  <2> QED BY <2>2, <2>3
<1>2. known_peers' \in [Collecting -> SUBSET Peer]
  BY DEF Expired, IInv
<1>3. faults' \in 0 .. MaxFaults
  BY FaultBound DEF Expired, IInv
<1> QED BY <1>1, <1>2, <1>3, InvariantAfterStep DEF Expired, IInv

LEMMA NextInvariant == IInv /\ [Next]_vars => IInv'
<1> SUFFICES ASSUME IInv, [Next]_vars PROVE IInv'
  OBVIOUS
<1>1. CASE UNCHANGED vars
  BY <1>1, InvariantAfterStep DEF vars, IInv
<1>2. CASE Next
  BY <1>2, StartStep, StopStep, StartFailsStep, RefreshStep, DiscoveredStep, ExpiredStep
     DEF Next
<1> QED BY <1>1, <1>2

(***************************************************************************)
(* Every state of the network satisfies the invariant.                     *)
(***************************************************************************)
THEOREM Invariant == Spec => []IInv
<1>1. Init => IInv
  BY InitInvariant
<1>2. IInv /\ [Next]_vars => IInv'
  BY NextInvariant
<1> QED BY <1>1, <1>2, PTL DEF Spec

(***************************************************************************)
(* No node is ever among the peers it knows, and it reads collectors only, *)
(* each to some record (known_peers and build_ris_claim).                  *)
(***************************************************************************)
THEOREM TypeCorrect == Spec => []TypeOK
<1>1. IInv => TypeOK
  <2> SUFFICES ASSUME IInv PROVE TypeOK
    OBVIOUS
  <2>1. known_peers \in [Collecting -> SUBSET Peer]
    BY DEF IInv
  <2>2. ASSUME NEW p \in Collecting
        PROVE  /\ p \notin known_peers[p]
               /\ reading[p].view \subseteq Peer
               /\ Range(reading[p].targets) \subseteq Range(AllCollectors)
               /\ DOMAIN reading[p].extent = DOMAIN reading[p].targets
    <3>1. p \notin known_peers[p]
      BY DEF IInv, KnowsOthers
    <3>2. CASE reading[p] = NothingRead
      BY <3>1, <3>2 DEF NothingRead, Range
    <3>3. CASE reading[p] # NothingRead
      <4>1. /\ reading[p].view \subseteq Peer /\ IsFiniteSet(reading[p].view)
            /\ p \in reading[p].view
            /\ reading[p].targets = Targets(p, reading[p].view)
            /\ DOMAIN reading[p].extent = DOMAIN reading[p].targets
        BY <3>3 DEF IInv, ReadAsAssigned, ReadTo
      <4>2. reading[p].targets \in Seq(Range(AllCollectors))
        BY <4>1, TargetsType DEF IInv
      <4>3. Range(reading[p].targets) \subseteq Range(AllCollectors)
        BY <4>2 DEF Range
      <4> QED BY <3>1, <4>1, <4>3
    <3> QED BY <3>2, <3>3
  <2> QED BY <2>1, <2>2 DEF IInv, TypeOK
<1> QED BY <1>1, Invariant, PTL

(***************************************************************************)
(* Among the nodes that read by one view of the peers no collector is      *)
(* weighed twice and none forgotten, but that the nodes for which the list *)
(* is too short read every collector (assigned_collectors;                 *)
(* from_collectors).                                                       *)
(***************************************************************************)
THEOREM OneViewSharesAll == Spec => []OneViewSharesAllCollectors
<1>1. IInv => OneViewSharesAllCollectors
  <2> SUFFICES ASSUME IInv, NEW p \in Collecting, NEW view,
                      view = reading[p].view, view # {}
               PROVE  /\ HasNoShare(p) => reading[p].targets = AllCollectors
                      /\ \A q \in Collecting \ {p} :
                            IsInjective(collectors) /\ reading[q].view = view =>
                                \/ HasNoShare(p) \/ HasNoShare(q)
                                \/ Range(reading[p].targets) \cap Range(reading[q].targets) = {}
                      /\ (\A q \in view : q \in Collecting /\ reading[q].view = view) =>
                            UNION {Range(reading[q].targets) : q \in view}
                                = IF \E q \in view : HasNoShare(q) THEN Range(AllCollectors)
                                  ELSE Range(collectors)
    BY DEF OneViewSharesAllCollectors
  <2>1. collectors \in Seq(Range(AllCollectors))
    BY CollectAssumption DEF IInv
  <2>2. ASSUME NEW q \in Collecting, reading[q].view = view
        PROVE  /\ view \in SUBSET Nat /\ IsFiniteSet(view) /\ q \in view
               /\ Range(reading[q].targets) \subseteq Range(AllCollectors)
               /\ HasNoShare(q) => reading[q].targets = AllCollectors
               /\ ~HasNoShare(q) =>
                     reading[q].targets = AssignedCollectors(collectors, q, view)
    <3>1. reading[q] # NothingRead
      BY <2>2 DEF NothingRead
    <3>2. /\ view \subseteq Peer /\ IsFiniteSet(view) /\ q \in view
          /\ reading[q].targets = Targets(q, view)
      BY <2>2, <3>1 DEF IInv, ReadAsAssigned
    <3>3. view \in SUBSET Nat
      BY <3>2, CollectAssumption
    <3>4. AssignedCollectors(collectors, q, view) = << >> <=> HasNoShare(q)
      BY <2>1, <2>2, <3>2, <3>3, ShareType DEF HasNoShare
    <3>5. Targets(q, view) \in Seq(Range(AllCollectors))
      BY <3>2, TargetsType DEF IInv
    <3>6. Range(reading[q].targets) \subseteq Range(AllCollectors)
      BY <3>2, <3>5 DEF Range
    <3> QED BY <3>2, <3>3, <3>4, <3>6 DEF Targets
  <2>3. HasNoShare(p) => reading[p].targets = AllCollectors
    BY <2>2
  <2>4. ASSUME NEW q \in Collecting \ {p}, IsInjective(collectors), reading[q].view = view,
               ~HasNoShare(p), ~HasNoShare(q)
        PROVE  Range(reading[p].targets) \cap Range(reading[q].targets) = {}
    BY <2>1, <2>2, <2>4, SharesDisjoint
  <2>5. ASSUME \A q \in view : q \in Collecting /\ reading[q].view = view
        PROVE  UNION {Range(reading[q].targets) : q \in view}
                   = IF \E q \in view : HasNoShare(q) THEN Range(AllCollectors)
                     ELSE Range(collectors)
    <3>1. view \in SUBSET Nat /\ IsFiniteSet(view)
      BY <2>2
    <3>2. CASE \E q \in view : HasNoShare(q)
      <4>1. PICK q \in view : HasNoShare(q)
        BY <3>2
      <4>2. reading[q].targets = AllCollectors
        BY <2>2, <2>5, <4>1
      <4>3. \A o \in view : Range(reading[o].targets) \subseteq Range(AllCollectors)
        BY <2>2, <2>5
      <4>4. UNION {Range(reading[o].targets) : o \in view} = Range(AllCollectors)
        BY <4>2, <4>3
      <4> QED BY <3>2, <4>4
    <3>3. CASE ~(\E q \in view : HasNoShare(q))
      <4>1. \A q \in view : reading[q].targets = AssignedCollectors(collectors, q, view)
        BY <2>2, <2>5, <3>3
      <4>2. ASSUME NEW q \in view
            PROVE  Range(reading[q].targets) \subseteq Range(collectors)
        <5>1. reading[q].targets \in Seq(Range(collectors))
          BY <2>1, <3>1, <4>1, ShareType
        <5> QED BY <5>1 DEF Range
      <4>3. ASSUME NEW c \in Range(collectors)
            PROVE  \E q \in view : c \in Range(reading[q].targets)
        <5>1. PICK i \in DOMAIN collectors : c = collectors[i]
          BY DEF Range
        <5>2. PICK q \in view : c \in Range(AssignedCollectors(collectors, q, view))
          BY <2>1, <3>1, <5>1, SharesCover
        <5> QED BY <4>1, <5>2
      <4>4. UNION {Range(reading[q].targets) : q \in view} = Range(collectors)
        BY <4>2, <4>3
      <4> QED BY <3>3, <4>4
    <3> QED BY <3>2, <3>3
  <2> QED BY <2>3, <2>4, <2>5
<1> QED BY <1>1, Invariant, PTL

---------------------------------------------------------------------------
(* The claims.                                                             *)

(***************************************************************************)
(* The records read are records of the whole tables.                       *)
(***************************************************************************)
LEMMA RecordsType ==
    ASSUME NEW targets \in Seq(Range(AllCollectors)), NEW extent, ReadTo(targets, extent)
    PROVE  /\ Records(targets, extent) \in Seq(RibRecord)
           /\ WholeRecords(targets) \in Seq(RibRecord)
           /\ Range(Records(targets, extent)) \subseteq Range(WholeRecords(targets))
<1> DEFINE some == [i \in DOMAIN targets |-> SubSeq(Dump[targets[i]], 1, extent[i])]
           whole == [i \in DOMAIN targets |-> Dump[targets[i]]]
<1>1. DOMAIN targets = 1 .. Len(targets) /\ Len(targets) \in Nat
  OBVIOUS
<1>2. ASSUME NEW i \in DOMAIN targets
      PROVE  /\ Dump[targets[i]] \in Seq(RibRecord)
             /\ SubSeq(Dump[targets[i]], 1, extent[i]) \in Seq(RibRecord)
             /\ Range(SubSeq(Dump[targets[i]], 1, extent[i])) \subseteq Range(Dump[targets[i]])
  <2> DEFINE dump == Dump[targets[i]]
             n == extent[i]
             begin == SubSeq(dump, 1, n)
  <2>1. dump \in Seq(RibRecord)
    BY DumpAssumption
  <2>2. n \in 0 .. Len(dump)
    BY DEF ReadTo
  <2> HIDE DEF dump, n
  <2>3. Len(dump) \in Nat /\ DOMAIN dump = 1 .. Len(dump)
    BY <2>1
  <2>4. /\ begin \in Seq(RibRecord) /\ DOMAIN begin = 1 .. n
        /\ \A k \in 1 .. n : begin[k] = dump[k] /\ k \in DOMAIN dump
    BY <2>1, <2>2, <2>3
  <2> HIDE DEF begin
  <2>5. Range(begin) \subseteq Range(dump)
    BY <2>4 DEF Range
  <2> QED BY <2>1, <2>4, <2>5 DEF begin, dump, n
<1>3. some \in Seq(Seq(RibRecord)) /\ whole \in Seq(Seq(RibRecord))
  BY <1>1, <1>2
<1>4. \A i \in DOMAIN targets : Range(some[i]) \subseteq Range(whole[i])
  BY <1>2
<1>5. DOMAIN some = DOMAIN targets /\ DOMAIN whole = DOMAIN targets
  OBVIOUS
<1>6. Records(targets, extent) = FlattenSeq(some) /\ WholeRecords(targets) = FlattenSeq(whole)
  BY DEF Records, WholeRecords
<1> HIDE DEF some, whole
<1>7. /\ FlattenSeq(some) \in Seq(RibRecord)
      /\ Range(FlattenSeq(some)) = UNION {Range(some[i]) : i \in DOMAIN some}
  BY <1>3, FlattenRange
<1>8. /\ FlattenSeq(whole) \in Seq(RibRecord)
      /\ Range(FlattenSeq(whole)) = UNION {Range(whole[i]) : i \in DOMAIN whole}
  BY <1>3, FlattenRange
<1>9. Range(FlattenSeq(some)) \subseteq Range(FlattenSeq(whole))
  BY <1>4, <1>5, <1>7, <1>8
<1> QED BY <1>6, <1>7, <1>8, <1>9

(* So are those any node has read, in every reachable state. *)
LEMMA ReadingRecords ==
    ASSUME IInv, NEW p \in Collecting
    PROVE  /\ Records(reading[p].targets, reading[p].extent) \in Seq(RibRecord)
           /\ WholeRecords(reading[p].targets) \in Seq(RibRecord)
           /\ Range(Records(reading[p].targets, reading[p].extent))
                \subseteq Range(WholeRecords(reading[p].targets))
<1>1. reading[p].targets \in Seq(Range(AllCollectors)) /\ ReadTo(reading[p].targets, reading[p].extent)
  <2>1. CASE reading[p] = NothingRead
    <3>1. reading[p].targets = << >> /\ reading[p].extent = << >>
      BY <2>1 DEF NothingRead
    <3> QED BY <3>1 DEF ReadTo
  <2>2. CASE reading[p] # NothingRead
    <3>1. /\ reading[p].view \subseteq Peer /\ IsFiniteSet(reading[p].view)
          /\ p \in reading[p].view
          /\ reading[p].targets = Targets(p, reading[p].view)
          /\ ReadTo(reading[p].targets, reading[p].extent)
      BY <2>2 DEF IInv, ReadAsAssigned
    <3> QED BY <3>1, TargetsType DEF IInv
  <2> QED BY <2>1, <2>2
<1> QED BY <1>1, RecordsType

(***************************************************************************)
(* The map a node claims says of every address what the longest prefix it  *)
(* read for it says, and of that prefix the farthest AS all paths to the   *)
(* origin of its first shortest path share (FindBottleneck, to_asmap).     *)
(***************************************************************************)
THEOREM ClaimsAreBottlenecks == Spec => []ClaimFollowsLongestPrefix
<1>1. IInv => ClaimFollowsLongestPrefix
  <2> SUFFICES ASSUME IInv, NEW p \in Running \cap Collecting, NEW address \in Address
               PROVE  LET map == ToAsmap(Rib(p))
                          covering == {b \in Bottlenecks(Rib(p)) : Covers(b[1], address)}
                      IN  IF covering = {} THEN Lookup(map, address) = 0
                          ELSE \E b \in covering :
                                  /\ \A other \in covering : Len(other[1]) <= Len(b[1])
                                  /\ Lookup(map, address) = b[2]
    BY DEF ClaimFollowsLongestPrefix
  <2> DEFINE records == Records(reading[p].targets, reading[p].extent)
             B == PrefixAsn(MrtHm(records))
  <2>1. records \in Seq(RibRecord)
    BY ReadingRecords
  <2>2. Rib(p) = MrtHm(records)
    BY DEF Rib
  <2> HIDE DEF records
  <2>3. Bottlenecks(Rib(p)) = B /\ B \in SUBSET (Path \X Nat) /\ IsFiniteSet(B)
    BY <2>1, <2>2, PrefixAsnIsBottlenecks
  <2>4. ToAsmap(Rib(p)) = UpdateMulti(EmptyMap, SetToSeq(B))
    BY <2>2 DEF ToAsmap
  <2> HIDE DEF B
  <2> QED BY <2>3, <2>4, MapOfEntries
<1> QED BY <1>1, Invariant, PTL

(***************************************************************************)
(* Where every path to a prefix has one origin, that is the elected one.   *)
(***************************************************************************)
LEMMA OneOriginIsElected ==
    ASSUME NEW paths \in Seq(AsPath), paths # << >>,
           \A i, j \in DOMAIN paths : Last(paths[i]) = Last(paths[j])
    PROVE  \A path \in Range(paths) : Last(path) = ElectedOrigin(paths)
<1>1. /\ ShortestFirst(paths) \in [1 .. Len(paths) -> AsPath]
      /\ Range(ShortestFirst(paths)) = Range(paths)
      /\ Last(ShortestFirst(paths)[1]) = ElectedOrigin(paths)
  BY ShortestFirstSorts
<1>2. 1 \in 1 .. Len(paths)
  OBVIOUS
<1>3. ShortestFirst(paths)[1] \in Range(paths)
  BY <1>1, <1>2 DEF Range
<1>4. PICK i \in DOMAIN paths : Last(paths[i]) = ElectedOrigin(paths)
  BY <1>1, <1>3 DEF Range
<1> QED BY <1>4 DEF Range

(***************************************************************************)
(* Reading fewer of the records of a prefix moves its bottleneck outwards. *)
(***************************************************************************)
LEMMA FewerRecordsShareMore ==
    ASSUME NEW part \in Seq(RibRecord), NEW whole \in Seq(RibRecord),
           Range(part) \subseteq Range(whole),
           NEW some \in MrtHm(part), NEW every \in MrtHm(whole), some[1] = every[1],
           \A i, j \in DOMAIN every[2] : Last(every[2][i]) = Last(every[2][j])
    PROVE  IsPrefix(CommonSuffix(every[2]), CommonSuffix(some[2]))
<1> DEFINE few == some[2]
           all == every[2]
           T == ToOrigin(all, ElectedOrigin(all))
           U == ToOrigin(few, ElectedOrigin(few))
<1>1. /\ few \in Seq(AsPath) /\ few # << >> /\ few = PathsTo(some[1], part)
      /\ all \in Seq(AsPath) /\ all # << >> /\ all = PathsTo(some[1], whole)
  BY MrtHmType
<1>2. Range(few) \subseteq Range(all)
  <2>1. Range(few) = UNION {Range(PathsOf(some[1], record)) : record \in Range(part)}
    BY <1>1, PathsToRange
  <2>2. Range(all) = UNION {Range(PathsOf(some[1], record)) : record \in Range(whole)}
    BY <1>1, PathsToRange
  <2> QED BY <2>1, <2>2
<1> HIDE DEF few, all
<1>3. \A path \in Range(all) : Last(path) = ElectedOrigin(all)
  BY <1>1, OneOriginIsElected DEF all
<1>4. U \subseteq T
  BY <1>2, <1>3 DEF ToOrigin
<1>5. T \in SUBSET Seq(Nat) /\ U # {} /\ Longest(CommonSuffix(all), T)
      /\ Longest(CommonSuffix(few), U)
  BY <1>1, ToOriginType, CommonSuffixIsLongest
<1> HIDE DEF T, U
<1>6. IsPrefix(CommonSuffix(all), CommonSuffix(few))
  BY <1>4, <1>5, FewerShareMore
<1> QED BY <1>6 DEF few, all

(***************************************************************************)
(* Of a prefix with one origin, tables cut short by a read error leave a   *)
(* bottleneck at or beyond the one the whole tables have, never between it *)
(* and the origin (build_ris_claim goes on with what it could read).       *)
(***************************************************************************)
THEOREM CutsStayUpstream == Spec => []CutTablesStayUpstream
<1>1. IInv => CutTablesStayUpstream
  <2> SUFFICES ASSUME IInv, NEW p \in Running \cap Collecting,
                      NEW some \in Rib(p),
                      NEW every \in MrtHm(WholeRecords(reading[p].targets)),
                      some[1] = every[1],
                      \A i, j \in DOMAIN every[2] : Last(every[2][i]) = Last(every[2][j])
               PROVE  IsPrefix(CommonSuffix(every[2]), CommonSuffix(some[2]))
    BY DEF CutTablesStayUpstream
  <2> QED BY ReadingRecords, FewerRecordsShareMore DEF Rib
<1> QED BY <1>1, Invariant, PTL

=============================================================================
