---------------------------- MODULE AsmapProofs ----------------------------
(***************************************************************************)
(* An ASMap, whatever lists of entries it is updated with: it is the canon-*)
(* ical trie of what they assign.  From that, what the program does with   *)
(* it: the integers of its binary form are decoded as they were encoded,   *)
(* its text files read back as the map, the overlapping one in the fewest  *)
(* lines there are; a node's own claim passes Gate 6; a diff is exact.     *)
(***************************************************************************)
EXTENDS AsmapFile, PathProofs

(* The inductive invariant. *)
IInv == MapIsCanonical /\ assigned = [a \in Address |-> assigned[a]]

LEMMA InitInvariant == Init => IInv
<1> SUFFICES ASSUME Init PROVE IInv
  OBVIOUS
<1>1. assigned = [a \in Address |-> 0] /\ map = Leaf(0)
  BY DEF Init, EmptyMap
<1>2. Below(assigned)[<< >>] = Leaf(0)
  BY <1>1, EmptyPath, UniformIsLeaf
<1> QED BY <1>1, <1>2, TrieIsBelow DEF IInv, MapIsCanonical

LEMMA NextInvariant == IInv /\ [Next]_vars => IInv'
<1> SUFFICES ASSUME IInv, [Next]_vars PROVE IInv'
  OBVIOUS
<1>1. ASSUME NEW entries \in EntryLists, Assign(entries) PROVE IInv'
  <2>1. entries \in Seq(Path \X Nat)
    BY EntryListsAssumption
  <2>2. assigned' = After(assigned, entries, DOMAIN entries)
    BY <1>1 DEF Assign, AssignedBy, After, AssignedAmong, LastOf
  <2>3. map' = TrieOf(assigned')
    BY <1>1, <2>1, <2>2, UpdateMultiIsCanonical DEF IInv, MapIsCanonical, Assign
  <2>4. assigned' = [a \in Address |-> assigned'[a]]
    BY <1>1 DEF Assign
  <2> QED BY <2>3, <2>4 DEF IInv, MapIsCanonical
<1>2. CASE UNCHANGED vars
  BY <1>2 DEF IInv, MapIsCanonical, vars
<1> QED BY <1>1, <1>2 DEF Next

THEOREM Invariant == Spec => []IInv
<1> QED BY InitInvariant, NextInvariant, PTL DEF Spec

(* Whatever lists a map is updated with and in whatever order their lines stand, it is
   the canonical trie of what they assign. *)
THEOREM MapCanonical == Spec => []MapIsCanonical
<1>1. IInv => MapIsCanonical
  BY DEF IInv
<1> QED BY <1>1, Invariant, PTL

(* A lookup in the map finds what the longest entry over the address says. *)
THEOREM LookupFindsAssigned == Spec => [](\A a \in Address : Lookup(map, a) = assigned[a])
<1>1. IInv => \A a \in Address : Lookup(map, a) = assigned[a]
  BY LookupOfTrie DEF IInv, MapIsCanonical
<1> QED BY <1>1, Invariant, PTL

---------------------------------------------------------------------------
(* The variable-length integers: shifts.                                   *)

(* The recursion of Room has a function that satisfies it. *)
LEMMA RoomUnfolds ==
    ASSUME NEW b \in Nat
    PROVE  \E room \in [0 .. b -> Nat \ {0}] :
              room[0] = 1 /\ (\A k \in 1 .. b : room[k] = 2 * room[k - 1]) /\ Room(b) = room[b]
<1> DEFINE V == Nat \ {0}
           Is(room) == room = [k \in 0 .. b |-> IF k = 0 THEN 1 ELSE 2 * room[k - 1]]
           room == CHOOSE room : Is(room)
           step == [k \in 1 .. b |-> [v \in V |-> 2 * v]]
<1>1. step \in [1 .. b -> [V -> V]] /\ 1 \in V
  OBVIOUS
<1> HIDE DEF step, V
<1>2. PICK g \in [0 .. b -> V] : Unfolds(g, b, 1, step)
  BY <1>1, IntervalRecursion
<1>3. ASSUME NEW k \in 1 .. b PROVE g[k] = 2 * g[k - 1]
  <2>1. g[k - 1] \in V
    <3>1. k - 1 \in 0 .. b
      OBVIOUS
    <3> QED BY <1>2, <3>1
  <2>2. g[k] = step[k][g[k - 1]]
    BY <1>2 DEF Unfolds
  <2> QED BY <2>1, <2>2 DEF step
<1>4. g[0] = 1
  BY <1>2 DEF Unfolds
<1>5. Is(g)
  <2> DEFINE again == [k \in 0 .. b |-> IF k = 0 THEN 1 ELSE 2 * g[k - 1]]
  <2>1. ASSUME NEW k \in 0 .. b PROVE g[k] = again[k]
    <3>1. CASE k = 0
      BY <1>4, <3>1
    <3>2. CASE k # 0
      <4>1. k \in 1 .. b
        BY <3>2
      <4> QED BY <1>3, <3>2, <4>1
    <3> QED BY <3>1, <3>2
  <2>2. g = again
    BY <1>2, <2>1
  <2> QED BY <2>2
<1>6. Is(room)
  BY <1>5, Zenon DEF room
<1>7. Room(b) = room[b]
  BY DEF Room
<1> HIDE DEF room
<1> DEFINE S == {k \in 0 .. b : room[k] = g[k]}
<1>8. 0 \in S
  BY <1>4, <1>6
<1>9. ASSUME NEW k \in 1 .. b, k - 1 \in S PROVE k \in S
  <2>1. room[k] = 2 * room[k - 1] /\ k \in 0 .. b
    BY <1>6
  <2> QED BY <1>3, <1>9, <2>1
<1> HIDE DEF S
<1>10. \A k \in 0 .. b : k \in S
  BY <1>8, <1>9, IntervalInduction
<1>11. Room(b) = g[b]
  BY <1>7, <1>10 DEF S
<1> QED BY <1>2, <1>3, <1>4, <1>11 DEF V

(* A bit more doubles the room. *)
LEMMA RoomDoubles ==
    /\ Room(0) = 1
    /\ \A b \in Nat : Room(b) \in Nat \ {0} /\ Room(b + 1) = 2 * Room(b)
<1>1. Room(0) = 1
  BY RoomUnfolds
<1>2. ASSUME NEW b \in Nat PROVE Room(b) \in Nat \ {0} /\ Room(b + 1) = 2 * Room(b)
  <2>1. PICK f \in [0 .. b -> Nat \ {0}] :
           f[0] = 1 /\ (\A k \in 1 .. b : f[k] = 2 * f[k - 1]) /\ Room(b) = f[b]
    BY RoomUnfolds
  <2>2. PICK g \in [0 .. b + 1 -> Nat \ {0}] :
           /\ g[0] = 1 /\ (\A k \in 1 .. b + 1 : g[k] = 2 * g[k - 1])
           /\ Room(b + 1) = g[b + 1]
    <3>1. b + 1 \in Nat
      OBVIOUS
    <3> QED BY <3>1, RoomUnfolds
  <2> DEFINE S == {k \in 0 .. b : f[k] = g[k]}
  <2>3. 0 \in S
    BY <2>1, <2>2
  <2>4. ASSUME NEW k \in 1 .. b, k - 1 \in S PROVE k \in S
    <3>1. k \in 1 .. b + 1 /\ k \in 0 .. b
      OBVIOUS
    <3>2. f[k] = 2 * f[k - 1] /\ g[k] = 2 * g[k - 1]
      BY <2>1, <2>2, <3>1
    <3> QED BY <2>4, <3>1, <3>2
  <2> HIDE DEF S
  <2>5. \A k \in 0 .. b : k \in S
    BY <2>3, <2>4, IntervalInduction
  <2>6. f[b] = g[b] /\ b \in 0 .. b
    BY <2>5 DEF S
  <2>7. b + 1 \in 1 .. b + 1 /\ (b + 1) - 1 = b
    OBVIOUS
  <2>8. g[b + 1] = 2 * g[b]
    BY <2>2, <2>7
  <2> QED BY <2>1, <2>2, <2>6, <2>8
<1> QED BY <1>1, <1>2

(* So has that of ShiftRight. *)
LEMMA ShiftUnfolds ==
    ASSUME NEW v \in Nat, NEW b \in Nat
    PROVE  \E rest \in [0 .. b -> Nat] :
              /\ rest[0] = v /\ \A k \in 1 .. b : rest[k] = rest[k - 1] \div 2
              /\ ShiftRight(v, b) = rest[b]
<1> DEFINE V == Nat
           Is(rest) == rest = [k \in 0 .. b |-> IF k = 0 THEN v ELSE rest[k - 1] \div 2]
           rest == CHOOSE rest : Is(rest)
           step == [k \in 1 .. b |-> [x \in V |-> x \div 2]]
<1>1. step \in [1 .. b -> [V -> V]] /\ v \in V
  <2>1. \A x \in Nat : x \div 2 \in Nat
    OBVIOUS
  <2> QED BY <2>1
<1> HIDE DEF step, V
<1>2. PICK g \in [0 .. b -> V] : Unfolds(g, b, v, step)
  BY <1>1, IntervalRecursion
<1>3. ASSUME NEW k \in 1 .. b PROVE g[k] = g[k - 1] \div 2
  <2>1. g[k - 1] \in V
    <3>1. k - 1 \in 0 .. b
      OBVIOUS
    <3> QED BY <1>2, <3>1
  <2>2. g[k] = step[k][g[k - 1]]
    BY <1>2 DEF Unfolds
  <2> QED BY <2>1, <2>2 DEF step
<1>4. g[0] = v
  BY <1>2 DEF Unfolds
<1>5. Is(g)
  <2> DEFINE again == [k \in 0 .. b |-> IF k = 0 THEN v ELSE g[k - 1] \div 2]
  <2>1. ASSUME NEW k \in 0 .. b PROVE g[k] = again[k]
    <3>1. CASE k = 0
      BY <1>4, <3>1
    <3>2. CASE k # 0
      <4>1. k \in 1 .. b
        BY <3>2
      <4> QED BY <1>3, <3>2, <4>1
    <3> QED BY <3>1, <3>2
  <2>2. g = again
    BY <1>2, <2>1
  <2> QED BY <2>2
<1>6. Is(rest)
  BY <1>5, Zenon DEF rest
<1>7. ShiftRight(v, b) = rest[b]
  BY DEF ShiftRight
<1> HIDE DEF rest
<1> DEFINE S == {k \in 0 .. b : rest[k] = g[k]}
<1>8. 0 \in S
  BY <1>4, <1>6
<1>9. ASSUME NEW k \in 1 .. b, k - 1 \in S PROVE k \in S
  <2>1. rest[k] = rest[k - 1] \div 2 /\ k \in 0 .. b
    BY <1>6
  <2> QED BY <1>3, <1>9, <2>1
<1> HIDE DEF S
<1>10. \A k \in 0 .. b : k \in S
  BY <1>8, <1>9, IntervalInduction
<1>11. ShiftRight(v, b) = g[b]
  BY <1>7, <1>10 DEF S
<1> QED BY <1>2, <1>3, <1>4, <1>11 DEF V

(* A shift by one more bit halves what is left. *)
LEMMA ShiftHalves ==
    ASSUME NEW v \in Nat
    PROVE  /\ ShiftRight(v, 0) = v
           /\ \A b \in Nat : /\ ShiftRight(v, b) \in Nat
                             /\ ShiftRight(v, b + 1) = ShiftRight(v, b) \div 2
<1>1. ShiftRight(v, 0) = v
  BY ShiftUnfolds
<1>2. ASSUME NEW b \in Nat
      PROVE  ShiftRight(v, b) \in Nat /\ ShiftRight(v, b + 1) = ShiftRight(v, b) \div 2
  <2>1. PICK f \in [0 .. b -> Nat] :
           /\ f[0] = v /\ \A k \in 1 .. b : f[k] = f[k - 1] \div 2
           /\ ShiftRight(v, b) = f[b]
    BY ShiftUnfolds
  <2>2. PICK g \in [0 .. b + 1 -> Nat] :
           /\ g[0] = v /\ \A k \in 1 .. b + 1 : g[k] = g[k - 1] \div 2
           /\ ShiftRight(v, b + 1) = g[b + 1]
    <3>1. b + 1 \in Nat
      OBVIOUS
    <3> QED BY <3>1, ShiftUnfolds
  <2> DEFINE S == {k \in 0 .. b : f[k] = g[k]}
  <2>3. 0 \in S
    BY <2>1, <2>2
  <2>4. ASSUME NEW k \in 1 .. b, k - 1 \in S PROVE k \in S
    <3>1. k \in 1 .. b + 1 /\ k \in 0 .. b
      OBVIOUS
    <3>2. f[k] = f[k - 1] \div 2 /\ g[k] = g[k - 1] \div 2
      BY <2>1, <2>2, <3>1
    <3> QED BY <2>4, <3>1, <3>2
  <2> HIDE DEF S
  <2>5. \A k \in 0 .. b : k \in S
    BY <2>3, <2>4, IntervalInduction
  <2>6. f[b] = g[b] /\ b \in 0 .. b
    BY <2>5 DEF S
  <2>7. b + 1 \in 1 .. b + 1 /\ (b + 1) - 1 = b
    OBVIOUS
  <2>8. g[b + 1] = g[b] \div 2
    BY <2>2, <2>7
  <2> QED BY <2>1, <2>2, <2>6, <2>8
<1> QED BY <1>1, <1>2

(* Of a number of so many bits a shift leaves one of the remaining bits. *)
LEMMA ShiftBound ==
    ASSUME NEW b \in Nat, NEW v \in 0 .. Room(b) - 1
    PROVE  \A k \in 0 .. b : ShiftRight(v, k) < Room(b - k)
<1> DEFINE S == {k \in 0 .. b : ShiftRight(v, k) < Room(b - k)}
<1>1. v \in Nat /\ Room(b) \in Nat
  BY RoomDoubles
<1>2. 0 \in S
  <2>1. b - 0 = b /\ 0 \in 0 .. b
    OBVIOUS
  <2> QED BY <1>1, <2>1, ShiftHalves
<1>3. ASSUME NEW k \in 1 .. b, k - 1 \in S PROVE k \in S
  <2> DEFINE x == ShiftRight(v, k - 1)
             r == Room(b - k)
  <2>1. k - 1 \in Nat /\ (k - 1) + 1 = k /\ b - k \in Nat /\ (b - k) + 1 = b - (k - 1)
        /\ k \in 0 .. b
    OBVIOUS
  <2>2. x \in Nat /\ ShiftRight(v, k) = x \div 2
    <3>1. \A q \in Nat : ShiftRight(v, q) \in Nat /\ ShiftRight(v, q + 1) = ShiftRight(v, q) \div 2
      BY <1>1, ShiftHalves
    <3> QED BY ONLY <3>1, <2>1
  <2>3. r \in Nat /\ Room(b - (k - 1)) = 2 * r
    BY <2>1, RoomDoubles
  <2>4. x < 2 * r
    BY <1>3, <2>3
  <2> HIDE DEF x, r
  <2>5. x \div 2 < r
    BY <2>2, <2>3, <2>4
  <2> QED BY <2>1, <2>2, <2>5 DEF r
<1> HIDE DEF S
<1>4. \A k \in 0 .. b : k \in S
  BY <1>2, <1>3, IntervalInduction
<1> QED BY <1>4 DEF S

---------------------------------------------------------------------------
(* The classes and the bits of an offset.                                  *)

(* The first offset of a class is behind the room of those before it. *)
LEMMA StartsGrow ==
    ASSUME NEW minval, NEW clsbits \in Seq(Nat)
    PROVE  LET starts == VarLenCoder(minval, clsbits).starts
           IN  /\ starts \in Seq(Nat) /\ Len(starts) = Len(clsbits) + 1 /\ starts[1] = 0
               /\ \A k \in 1 .. Len(clsbits) : starts[k + 1] = starts[k] + Room(clsbits[k])
<1> DEFINE n == Len(clsbits)
           starts == VarLenCoder(minval, clsbits).starts
           V == Seq(Nat) \ {<< >>}
           base == <<0>>
           Fold(s, k) == Append(s, Last(s) + Room(clsbits[k]))
           step == [k \in 1 .. n |-> [s \in V |-> Fold(s, k)]]
           Is(f) == f = [s \in SUBSET (1 .. n) |->
                            IF s = {} THEN base ELSE Fold(f[s \ {Max(s)}], Max(s))]
           f == CHOOSE f : Is(f)
<1>1. n \in Nat /\ DOMAIN clsbits = 1 .. n /\ \A k \in 1 .. n : clsbits[k] \in Nat
  OBVIOUS
<1>2. \A k \in 1 .. n : Room(clsbits[k]) \in Nat
  BY <1>1, RoomDoubles
<1>3. starts = f[1 .. n]
  BY <1>1 DEF VarLenCoder, FoldLeft, MapThenFoldSet
<1> HIDE DEF n, starts
<1>4. ASSUME NEW s \in V
      PROVE  Len(s) \in Nat \ {0} /\ Last(s) = s[Len(s)] /\ Last(s) \in Nat
  <2>1. Len(s) \in Nat \ {0}
    OBVIOUS
  <2>2. s[Len(s)] \in Nat
    BY <2>1
  <2> QED BY <2>1, <2>2 DEF Last
<1>5. ASSUME NEW s \in V, NEW k \in 1 .. n
      PROVE  /\ Fold(s, k) \in V /\ Len(Fold(s, k)) = Len(s) + 1
             /\ \A i \in 1 .. Len(s) : Fold(s, k)[i] = s[i]
             /\ Fold(s, k)[Len(s) + 1] = s[Len(s)] + Room(clsbits[k])
  <2> DEFINE x == Last(s) + Room(clsbits[k])
  <2>1. x \in Nat
    BY <1>2, <1>4
  <2>2. x = s[Len(s)] + Room(clsbits[k])
    BY <1>4
  <2> HIDE DEF x
  <2>3. /\ Append(s, x) \in V /\ Len(Append(s, x)) = Len(s) + 1
        /\ \A i \in 1 .. Len(s) : Append(s, x)[i] = s[i]
        /\ Append(s, x)[Len(s) + 1] = x
    BY <2>1
  <2> QED BY <2>2, <2>3 DEF x
<1>6. base \in V /\ step \in [1 .. n -> [V -> V]]
  <2>1. base \in V
    OBVIOUS
  <2> HIDE DEF V, Fold
  <2> QED BY <1>5, <2>1
<1> HIDE DEF V, base, step
<1>7. PICK g \in [SUBSET (1 .. n) -> V] :
        \A s \in SUBSET (1 .. n) :
           g[s] = IF s = {} THEN base ELSE step[Max(s)][g[s \ {Max(s)}]]
  <2>1. \E g \in [SUBSET (1 .. n) -> V] : FoldsOver(g, n, base, step)
    BY <1>1, <1>6, FoldRecursion
  <2> QED BY <2>1 DEF FoldsOver
<1>8. Is(g)
  <2> DEFINE again == [s \in SUBSET (1 .. n) |->
                          IF s = {} THEN base ELSE Fold(g[s \ {Max(s)}], Max(s))]
  <2>1. ASSUME NEW s \in SUBSET (1 .. n) PROVE g[s] = again[s]
    <3>1. CASE s = {}
      BY <1>7, <3>1
    <3>2. CASE s # {}
      <4>1. Max(s) \in 1 .. n
        BY <1>1, <3>2, MaxOfSome
      <4>2. g[s \ {Max(s)}] \in V
        BY <1>7
      <4>3. step[Max(s)][g[s \ {Max(s)}]] = Fold(g[s \ {Max(s)}], Max(s))
        BY <4>1, <4>2 DEF step
      <4> QED BY <1>7, <3>2, <4>3
    <3> QED BY <3>1, <3>2
  <2>2. g = again
    BY <1>7, <2>1
  <2> QED BY <2>2
<1>9. Is(f)
  BY <1>8, Zenon DEF f
<1> HIDE DEF f
<1>10. f[{}] = base
  <2>1. {} \in SUBSET (1 .. n)
    OBVIOUS
  <2> QED BY <1>9, <2>1
<1>11. ASSUME NEW i \in 1 .. n PROVE f[1 .. i] = Fold(f[1 .. i - 1], i)
  <2>1. 1 .. i \in SUBSET (1 .. n)
    BY <1>1
  <2>2. Max(1 .. i) = i /\ (1 .. i) \ {i} = 1 .. i - 1 /\ 1 .. i # {}
    <3>1. i \in Nat \ {0}
      BY <1>1
    <3> QED BY <3>1, LastOfInterval
  <2> HIDE DEF Fold
  <2>3. f[1 .. i] = IF 1 .. i = {} THEN base
                    ELSE Fold(f[(1 .. i) \ {Max(1 .. i)}], Max(1 .. i))
    BY <1>9, <2>1
  <2> QED BY <2>2, <2>3
<1> DEFINE Grown(s, i) == /\ s \in V /\ Len(s) = i + 1 /\ s[1] = 0
                          /\ \A k \in 1 .. i : s[k + 1] = s[k] + Room(clsbits[k])
           S == {i \in 0 .. n : Grown(f[1 .. i], i)}
<1>12. 0 \in S
  <2>1. 1 .. 0 = {} /\ 0 \in 0 .. n
    BY <1>1
  <2>2. Grown(base, 0)
    BY <1>6 DEF base
  <2> HIDE DEF Grown
  <2> QED BY <1>10, <2>1, <2>2
<1>13. ASSUME NEW i \in 1 .. n, i - 1 \in S PROVE i \in S
  <2> DEFINE s == f[1 .. i - 1]
             t == Fold(s, i)
  <2>1. Grown(s, i - 1)
    BY <1>13
  <2>2. f[1 .. i] = t
    BY <1>11
  <2>3. /\ t \in V /\ Len(t) = Len(s) + 1 /\ \A k \in 1 .. Len(s) : t[k] = s[k]
        /\ t[Len(s) + 1] = s[Len(s)] + Room(clsbits[i])
    BY <1>5, <2>1
  <2> HIDE DEF t, s
  <2>4. i \in Nat \ {0} /\ Len(s) = i /\ i \in 0 .. n
    BY <1>1, <2>1
  <2>5. t[1] = 0 /\ Len(t) = i + 1
    BY <2>1, <2>3, <2>4
  <2>6. ASSUME NEW k \in 1 .. i PROVE t[k + 1] = t[k] + Room(clsbits[k])
    <3>1. CASE k = i
      BY <2>3, <2>4, <3>1
    <3>2. CASE k # i
      <4>1. k \in 1 .. i - 1 /\ k \in 1 .. i /\ k + 1 \in 1 .. i
        BY <2>4, <3>2
      <4> QED BY <2>1, <2>3, <2>4, <4>1
    <3> QED BY <3>1, <3>2
  <2>7. Grown(t, i)
    BY <2>3, <2>5, <2>6
  <2> HIDE DEF Grown
  <2> QED BY <2>2, <2>4, <2>7
<1> HIDE DEF S
<1>14. \A i \in 0 .. n : i \in S
  BY <1>1, <1>12, <1>13, IntervalInduction
<1>15. Grown(starts, n)
  <2>1. n \in 0 .. n
    BY <1>1
  <2> HIDE DEF Grown
  <2> QED BY <1>3, <1>14, <2>1 DEF S
<1> QED BY <1>15 DEF n, starts, V

(* The bits of an offset double what is before them. *)
LEMMA ValueUnfolds ==
    ASSUME NEW bits \in Seq({0, 1})
    PROVE  \E g \in [0 .. Len(bits) -> Nat] :
              /\ g[0] = 0 /\ \A i \in 1 .. Len(bits) : g[i] = 2 * g[i - 1] + bits[i]
              /\ ValueOf(bits) = g[Len(bits)]
<1> DEFINE n == Len(bits)
           V == Nat
           base == 0
           Fold(v, k) == 2 * v + bits[k]
           step == [k \in 1 .. n |-> [v \in V |-> Fold(v, k)]]
           Is(f) == f = [s \in SUBSET (1 .. n) |->
                            IF s = {} THEN base ELSE Fold(f[s \ {Max(s)}], Max(s))]
           f == CHOOSE f : Is(f)
<1>1. n \in Nat /\ DOMAIN bits = 1 .. n /\ \A k \in 1 .. n : bits[k] \in {0, 1}
  OBVIOUS
<1>2. ValueOf(bits) = f[1 .. n]
  BY <1>1 DEF ValueOf, FoldLeft, MapThenFoldSet
<1> HIDE DEF n
<1>3. ASSUME NEW v \in V, NEW k \in 1 .. n PROVE Fold(v, k) \in V
  <2>1. bits[k] \in Nat
    BY <1>1
  <2> QED BY <2>1
<1>4. base \in V /\ step \in [1 .. n -> [V -> V]]
  <2>1. base \in V
    OBVIOUS
  <2> HIDE DEF V, Fold
  <2> QED BY <1>3, <2>1
<1> HIDE DEF V, base, step
<1>5. PICK h \in [SUBSET (1 .. n) -> V] :
        \A s \in SUBSET (1 .. n) :
           h[s] = IF s = {} THEN base ELSE step[Max(s)][h[s \ {Max(s)}]]
  <2>1. \E h \in [SUBSET (1 .. n) -> V] : FoldsOver(h, n, base, step)
    BY <1>1, <1>4, FoldRecursion
  <2> QED BY <2>1 DEF FoldsOver
<1>6. Is(h)
  <2> DEFINE again == [s \in SUBSET (1 .. n) |->
                          IF s = {} THEN base ELSE Fold(h[s \ {Max(s)}], Max(s))]
  <2>1. ASSUME NEW s \in SUBSET (1 .. n) PROVE h[s] = again[s]
    <3>1. CASE s = {}
      BY <1>5, <3>1
    <3>2. CASE s # {}
      <4>1. Max(s) \in 1 .. n
        BY <1>1, <3>2, MaxOfSome
      <4>2. h[s \ {Max(s)}] \in V
        BY <1>5
      <4>3. step[Max(s)][h[s \ {Max(s)}]] = Fold(h[s \ {Max(s)}], Max(s))
        BY <4>1, <4>2 DEF step
      <4> QED BY <1>5, <3>2, <4>3
    <3> QED BY <3>1, <3>2
  <2>2. h = again
    BY <1>5, <2>1
  <2> QED BY <2>2
<1>7. Is(f)
  BY <1>6, Zenon DEF f
<1> HIDE DEF f
<1>8. f[{}] = base
  <2>1. {} \in SUBSET (1 .. n)
    OBVIOUS
  <2> QED BY <1>7, <2>1
<1>9. ASSUME NEW i \in 1 .. n PROVE f[1 .. i] = Fold(f[1 .. i - 1], i)
  <2>1. 1 .. i \in SUBSET (1 .. n)
    BY <1>1
  <2>2. Max(1 .. i) = i /\ (1 .. i) \ {i} = 1 .. i - 1 /\ 1 .. i # {}
    <3>1. i \in Nat \ {0}
      BY <1>1
    <3> QED BY <3>1, LastOfInterval
  <2> HIDE DEF Fold
  <2>3. f[1 .. i] = IF 1 .. i = {} THEN base
                    ELSE Fold(f[(1 .. i) \ {Max(1 .. i)}], Max(1 .. i))
    BY <1>7, <2>1
  <2> QED BY <2>2, <2>3
<1> DEFINE g == [i \in 0 .. n |-> f[1 .. i]]
           S == {i \in 0 .. n : f[1 .. i] \in V}
<1>10. 0 \in S
  BY <1>1, <1>4, <1>8
<1>11. ASSUME NEW i \in 1 .. n, i - 1 \in S PROVE i \in S
  <2>1. f[1 .. i - 1] \in V /\ i \in 0 .. n
    BY <1>11
  <2>2. f[1 .. i] \in V
    BY <1>3, <1>9, <2>1
  <2> QED BY <2>1, <2>2
<1> HIDE DEF S
<1>12. \A i \in 0 .. n : i \in S
  BY <1>1, <1>10, <1>11, IntervalInduction
<1>13. g \in [0 .. n -> Nat]
  BY <1>12 DEF S, V
<1>14. g[0] = 0
  BY <1>1, <1>8 DEF base
<1>15. \A i \in 1 .. n : g[i] = 2 * g[i - 1] + bits[i]
  <2> TAKE i \in 1 .. n
  <2>1. i \in 0 .. n /\ i - 1 \in 0 .. n
    BY <1>1
  <2> QED BY <1>9, <2>1
<1>16. ValueOf(bits) = g[n]
  BY <1>1, <1>2
<1> HIDE DEF g
<1> QED BY <1>13, <1>14, <1>15, <1>16 DEF n

(* The bits of an offset are those that encode writes of it: read again, they are the
   offset. *)
LEMMA DigitsReadBack ==
    ASSUME NEW b \in Nat, NEW offset \in 0 .. Room(b) - 1
    PROVE  LET digits == [i \in 1 .. b |-> ShiftRight(offset, b - i) % 2]
           IN  digits \in Seq({0, 1}) /\ Len(digits) = b /\ ValueOf(digits) = offset
<1> DEFINE digits == [i \in 1 .. b |-> ShiftRight(offset, b - i) % 2]
<1>1. offset \in Nat
  BY RoomDoubles
<1>2. \A k \in Nat : ShiftRight(offset, k) \in Nat
  BY <1>1, ShiftHalves
<1>3. ASSUME NEW i \in 1 .. b
      PROVE  digits[i] = ShiftRight(offset, b - i) % 2 /\ digits[i] \in {0, 1}
  <2>1. ShiftRight(offset, b - i) \in Nat
    BY <1>2
  <2> QED BY <2>1
<1>4. digits \in [1 .. b -> {0, 1}]
  BY <1>3
<1>5. digits \in Seq({0, 1}) /\ Len(digits) = b
  <2> HIDE DEF digits
  <2> QED BY <1>4
<1> HIDE DEF digits
<1>6. PICK g \in [0 .. b -> Nat] :
        /\ g[0] = 0 /\ \A i \in 1 .. b : g[i] = 2 * g[i - 1] + digits[i]
        /\ ValueOf(digits) = g[b]
  BY <1>5, ValueUnfolds
<1> DEFINE S == {i \in 0 .. b : g[i] = ShiftRight(offset, b - i)}
<1>7. 0 \in S
  <2>1. ShiftRight(offset, b) < Room(0)
    <3>1. b \in 0 .. b /\ b - b = 0
      OBVIOUS
    <3> QED BY <3>1, ShiftBound
  <2>2. ShiftRight(offset, b) = 0
    <3>1. ShiftRight(offset, b) \in Nat /\ Room(0) = 1
      BY <1>2, RoomDoubles
    <3> QED BY <2>1, <3>1
  <2> QED BY <1>6, <2>2
<1>8. ASSUME NEW i \in 1 .. b, i - 1 \in S PROVE i \in S
  <2> DEFINE x == ShiftRight(offset, b - i)
  <2>1. x \in Nat /\ ShiftRight(offset, (b - i) + 1) = x \div 2
    <3>1. b - i \in Nat
      OBVIOUS
    <3> QED BY <1>1, <3>1, ShiftHalves
  <2>2. b - (i - 1) = (b - i) + 1 /\ i \in 0 .. b
    OBVIOUS
  <2>3. g[i - 1] = x \div 2
    BY <1>8, <2>1, <2>2
  <2>4. digits[i] = x % 2
    BY <1>3
  <2> HIDE DEF x
  <2>5. g[i] = 2 * (x \div 2) + (x % 2)
    BY <1>6, <2>3, <2>4
  <2>6. 2 * (x \div 2) + (x % 2) = x
    BY <2>1
  <2> QED BY <2>2, <2>5, <2>6 DEF x
<1> HIDE DEF S
<1>9. \A i \in 0 .. b : i \in S
  BY <1>7, <1>8, IntervalInduction
<1>10. g[b] = offset
  <2>1. g[b] = ShiftRight(offset, b - b) /\ b - b = 0
    BY <1>9 DEF S
  <2> QED BY <1>1, <2>1, ShiftHalves
<1> QED BY <1>5, <1>6, <1>10 DEF digits

---------------------------------------------------------------------------
(* What encode writes and decode reads.                                    *)

(* The coders that VarLenCoder::new makes. *)
Coders == {VarLenCoder(minval, clsbits) : minval \in Nat, clsbits \in Seq(Nat) \ {<< >>}}

(* The four coders of the code are among them. *)
LEMMA CodersOfTheCode == {CODER_INS, CODER_ASN, CODER_MATCH, CODER_JUMP} \subseteq Coders
<1>1. /\ <<0, 0, 1>> \in Seq(Nat) \ {<< >>}
      /\ [k \in 1 .. 10 |-> k + 14] \in Seq(Nat) \ {<< >>}
      /\ [k \in 1 .. 26 |-> k + 4] \in Seq(Nat) \ {<< >>}
  OBVIOUS
<1>2. [k \in 1 .. MATCH_CLASSES |-> k] \in Seq(Nat) \ {<< >>}
  BY MatchAssumption
<1>3. \A minval \in Nat, clsbits \in Seq(Nat) \ {<< >>} : VarLenCoder(minval, clsbits) \in Coders
  BY DEF Coders
<1>4. 0 \in Nat /\ 1 \in Nat /\ 2 \in Nat /\ 17 \in Nat
  OBVIOUS
<1>5. /\ VarLenCoder(0, <<0, 0, 1>>) \in Coders
      /\ VarLenCoder(1, [k \in 1 .. 10 |-> k + 14]) \in Coders
      /\ VarLenCoder(2, [k \in 1 .. MATCH_CLASSES |-> k]) \in Coders
      /\ VarLenCoder(17, [k \in 1 .. 26 |-> k + 4]) \in Coders
  BY ONLY <1>1, <1>2, <1>3, <1>4
<1> QED BY <1>5, Zenon DEF CODER_INS, CODER_ASN, CODER_MATCH, CODER_JUMP

(* What every coder has: one first offset more than classes. *)
LEMMA CoderShape ==
    ASSUME NEW c \in Coders
    PROVE  /\ c.minval \in Nat /\ Classes(c) \in Nat \ {0}
           /\ c.clsbits \in [1 .. Classes(c) -> Nat]
           /\ c.starts \in [1 .. Classes(c) + 1 -> Nat] /\ c.starts[1] = 0
           /\ \A k \in 1 .. Classes(c) : /\ Room(c.clsbits[k]) \in Nat \ {0}
                                         /\ c.starts[k + 1] = c.starts[k] + Room(c.clsbits[k])
<1>1. PICK minval \in Nat, clsbits \in Seq(Nat) \ {<< >>} : c = VarLenCoder(minval, clsbits)
  BY DEF Coders
<1>2. c.minval = minval /\ c.clsbits = clsbits /\ c.starts = VarLenCoder(minval, clsbits).starts
  BY <1>1 DEF VarLenCoder
<1>3. clsbits \in Seq(Nat) /\ Len(clsbits) \in Nat \ {0} /\ clsbits \in [1 .. Len(clsbits) -> Nat]
  OBVIOUS
<1> DEFINE starts == VarLenCoder(minval, clsbits).starts
           n == Len(clsbits)
<1>4. /\ starts \in Seq(Nat) /\ Len(starts) = n + 1 /\ starts[1] = 0
      /\ \A k \in 1 .. n : starts[k + 1] = starts[k] + Room(clsbits[k])
  BY <1>3, StartsGrow
<1> HIDE DEF starts
<1>5. starts \in [1 .. n + 1 -> Nat]
  BY <1>4
<1>6. \A k \in 1 .. n : Room(clsbits[k]) \in Nat \ {0}
  BY <1>3, RoomDoubles
<1> HIDE DEF n
<1>7. Classes(c) = n /\ c.starts = starts
  BY <1>2 DEF Classes, starts, n
<1>8. n \in Nat \ {0} /\ clsbits \in [1 .. n -> Nat]
  BY <1>3 DEF n
<1> QED BY <1>2, <1>4, <1>5, <1>6, <1>7, <1>8

(* The classes skipped are those before the one the value is in. *)
LEMMA SkippedIs ==
    ASSUME NEW c \in Coders, NEW val, CanEncode(c, val)
    PROVE  LET m == Skipped(c, val)
           IN  /\ m \in 0 .. Classes(c) - 1
               /\ val - c.minval - c.starts[m + 1] \in 0 .. Room(c.clsbits[m + 1]) - 1
<1> DEFINE n == Classes(c)
           starts == c.starts
           off == val - c.minval
           K == {k \in 1 .. n : off >= starts[k + 1]}
           T == {k \in 1 .. n : off < starts[k + 1]}
<1>1. /\ c.minval \in Nat /\ n \in Nat \ {0}
      /\ starts \in [1 .. n + 1 -> Nat] /\ starts[1] = 0
      /\ \A k \in 1 .. n : /\ Room(c.clsbits[k]) \in Nat \ {0}
                           /\ starts[k + 1] = starts[k] + Room(c.clsbits[k])
  BY CoderShape
<1>2. off \in Nat /\ off < starts[n + 1] /\ val \in Nat
  <2>1. starts[n + 1] \in Nat
    <3> HIDE DEF starts, n
    <3>1. n + 1 \in 1 .. n + 1
      BY <1>1
    <3> QED BY <1>1, <3>1
  <2> QED BY <1>1, <2>1 DEF CanEncode, MaxVal
<1>3. Skipped(c, val) = Cardinality(K)
  BY DEF Skipped
<1> HIDE DEF n, starts, off
<1>4. n \in T /\ T \in SUBSET Nat
  BY <1>1, <1>2
<1>5. PICK m \in T : \A k \in T : m <= k
  BY <1>4, LeastElement
<1>6. m \in 1 .. n /\ off < starts[m + 1]
  BY <1>5
<1> DEFINE S == {i \in 0 .. n - m : off < starts[m + i + 1]}
<1>7. 0 \in S
  <2>1. m + 0 + 1 = m + 1 /\ 0 \in 0 .. n - m
    BY <1>1, <1>6
  <2> QED BY <1>6, <2>1
<1>8. ASSUME NEW i \in 1 .. n - m, i - 1 \in S PROVE i \in S
  <2>1. m + i \in 1 .. n /\ m + (i - 1) + 1 = m + i /\ i \in 0 .. n - m
    <3>1. i \in 1 .. n - m /\ n \in Nat /\ m \in 1 .. n
      BY <1>1, <1>6
    <3> QED BY ONLY <3>1
  <2>2. /\ starts[(m + i) + 1] = starts[m + i] + Room(c.clsbits[m + i])
        /\ starts[m + i] \in Nat /\ Room(c.clsbits[m + i]) \in Nat \ {0}
    BY <1>1, <2>1
  <2>3. off < starts[m + i]
    BY <1>8, <2>1
  <2> QED BY <1>2, <2>1, <2>2, <2>3
<1> HIDE DEF S
<1>9. \A i \in 0 .. n - m : i \in S
  <2>1. n - m \in Nat
    BY <1>1, <1>6
  <2> QED BY <1>7, <1>8, <2>1, IntervalInduction
<1>10. ASSUME NEW k \in m .. n PROVE off < starts[k + 1]
  <2>1. k - m \in 0 .. n - m /\ m + (k - m) + 1 = k + 1
    BY <1>1, <1>6
  <2>2. k - m \in S
    BY <1>9, <2>1
  <2> QED BY <2>1, <2>2 DEF S
<1>11. ASSUME NEW k \in 1 .. m - 1 PROVE k \in 1 .. n /\ off >= starts[k + 1]
  <2>1. k \in 1 .. n /\ ~(m <= k)
    BY <1>1, <1>6
  <2>2. k \notin T
    BY <1>5, <2>1
  <2>3. starts[k + 1] \in Nat
    BY <1>1, <2>1
  <2> QED BY <1>2, <2>1, <2>2, <2>3
<1>12. K = 1 .. m - 1
  <2>1. ASSUME NEW k \in K PROVE k \in 1 .. m - 1
    <3>1. k \in 1 .. n /\ off >= starts[k + 1] /\ starts[k + 1] \in Nat
      BY <1>1
    <3>2. ~(k \in m .. n)
      BY <1>2, <1>10, <3>1
    <3> QED BY <1>1, <1>6, <3>1, <3>2
  <2> QED BY <1>11, <2>1
<1> HIDE DEF K
<1>13. Skipped(c, val) = m - 1
  <2>1. Cardinality(1 .. m - 1) = m - 1
    <3>1. m - 1 \in Int /\ 1 \in Int /\ ~(1 > (m - 1) + 1)
      BY <1>1, <1>6
    <3> QED BY <1>1, <1>6, <3>1, FS_Interval
  <2> QED BY <1>3, <1>12, <2>1
<1>14. starts[m] <= off /\ starts[m] \in Nat
  <2>1. CASE m = 1
    BY <1>1, <1>2, <2>1
  <2>2. CASE m # 1
    <3>1. m - 1 \in 1 .. m - 1 /\ (m - 1) + 1 = m
      BY <1>1, <1>6, <2>2
    <3>2. m \in 1 .. n + 1
      BY <1>1, <1>6
    <3>3. starts[m] \in Nat
      BY <1>1, <3>2
    <3>4. off >= starts[(m - 1) + 1]
      BY <1>11, <3>1
    <3> QED BY <1>2, <3>1, <3>3, <3>4
  <2> QED BY <2>1, <2>2
<1>15. starts[m + 1] = starts[m] + Room(c.clsbits[m]) /\ Room(c.clsbits[m]) \in Nat \ {0}
  BY <1>1, <1>6
<1>16. off - starts[m] \in 0 .. Room(c.clsbits[m]) - 1
  BY <1>2, <1>6, <1>14, <1>15
<1>17. m - 1 \in 0 .. n - 1 /\ (m - 1) + 1 = m
  BY <1>1, <1>6
<1> QED BY <1>13, <1>16, <1>17 DEF n, starts, off

(* An encoded value is the class in unary and the bits of the offset. *)
LEMMA EncodeShape ==
    ASSUME NEW c \in Coders, NEW val, CanEncode(c, val)
    PROVE  LET m == Skipped(c, val)
               stop == StopBits(c, m)
               bits == Encode(c, val)
           IN  /\ m \in 0 .. Classes(c) - 1
               /\ stop = IF m = Classes(c) - 1 THEN 0 ELSE 1
               /\ bits \in Seq({0, 1}) /\ Len(bits) = m + stop + c.clsbits[m + 1]
               /\ \A i \in 1 .. m : bits[i] = 1
               /\ m # Classes(c) - 1 => bits[m + 1] = 0
               /\ ValueOf(SubSeq(bits, m + stop + 1, Len(bits)))
                     = val - c.minval - c.starts[m + 1]
<1> DEFINE m == Skipped(c, val)
           n == Classes(c)
           stop == StopBits(c, m)
           b == c.clsbits[m + 1]
           offset == val - c.minval - c.starts[m + 1]
           digits == [i \in 1 .. b |-> ShiftRight(offset, b - i) % 2]
           bits == Ones(m) \o Zeros(stop) \o digits
<1>1. m \in 0 .. n - 1 /\ offset \in 0 .. Room(b) - 1 /\ n \in Nat \ {0} /\ b \in Nat
  <2>1. m \in 0 .. n - 1 /\ offset \in 0 .. Room(b) - 1
    BY SkippedIs
  <2>2. n \in Nat \ {0} /\ c.clsbits \in [1 .. n -> Nat]
    BY CoderShape
  <2> HIDE DEF m, n
  <2>3. m + 1 \in 1 .. n
    BY <2>1, <2>2
  <2> QED BY <2>1, <2>2, <2>3
<1>2. Encode(c, val) = bits
  BY DEF Encode
<1> HIDE DEF m, b, offset
<1>3. stop = (IF m = n - 1 THEN 0 ELSE 1) /\ stop \in {0, 1}
  <2> HIDE DEF n
  <2>1. m + 1 < n <=> m # n - 1
    BY <1>1
  <2> QED BY <2>1 DEF StopBits, n
<1>4. digits \in Seq({0, 1}) /\ Len(digits) = b /\ ValueOf(digits) = offset
  BY <1>1, DigitsReadBack
<1> HIDE DEF n, stop, digits
<1>5. /\ Ones(m) \in Seq({0, 1}) /\ Len(Ones(m)) = m /\ \A i \in 1 .. m : Ones(m)[i] = 1
      /\ Zeros(stop) \in Seq({0, 1}) /\ Len(Zeros(stop)) = stop
      /\ \A i \in 1 .. stop : Zeros(stop)[i] = 0
  <2>1. Ones(m) \in [1 .. m -> {0, 1}] /\ Zeros(stop) \in [1 .. stop -> {0, 1}]
    BY DEF Ones, Zeros
  <2>2. m \in Nat /\ stop \in Nat
    BY <1>1, <1>3
  <2>3. /\ \A i \in 1 .. m : Ones(m)[i] = 1
        /\ \A i \in 1 .. stop : Zeros(stop)[i] = 0
    BY DEF Ones, Zeros
  <2> QED BY <2>1, <2>2, <2>3
<1> DEFINE head == Ones(m) \o Zeros(stop)
<1>6. /\ head \in Seq({0, 1}) /\ Len(head) = m + stop
      /\ \A i \in 1 .. m : head[i] = 1
      /\ \A i \in 1 .. stop : head[m + i] = 0
  <2>1. m \in Nat /\ stop \in Nat
    BY <1>1, <1>3
  <2> DEFINE o == Ones(m)
             z == Zeros(stop)
  <2> HIDE DEF o, z
  <2>2. /\ o \in Seq({0, 1}) /\ Len(o) = m /\ \A i \in 1 .. m : o[i] = 1
        /\ z \in Seq({0, 1}) /\ Len(z) = stop /\ \A i \in 1 .. stop : z[i] = 0
    BY <1>5 DEF o, z
  <2>3. /\ o \o z \in Seq({0, 1}) /\ Len(o \o z) = m + stop
        /\ \A i \in 1 .. m : (o \o z)[i] = 1
        /\ \A i \in 1 .. stop : (o \o z)[m + i] = 0
    BY <2>1, <2>2
  <2> QED BY <2>3 DEF o, z
<1> HIDE DEF head
<1>7. /\ head \o digits \in Seq({0, 1}) /\ Len(head \o digits) = m + stop + b
      /\ \A i \in 1 .. m + stop : (head \o digits)[i] = head[i]
      /\ SubSeq(head \o digits, m + stop + 1, m + stop + b) = digits
  <2>1. m + stop \in Nat /\ b \in Nat
    BY <1>1, <1>3
  <2> DEFINE h == m + stop
             whole == head \o digits
             tail == SubSeq(whole, h + 1, h + b)
  <2> HIDE DEF h
  <2>2. h \in Nat /\ Len(head) = h
    BY <1>6, <2>1 DEF h
  <2>3. /\ whole \in Seq({0, 1}) /\ Len(whole) = h + b
        /\ \A i \in 1 .. h : whole[i] = head[i]
        /\ \A i \in 1 .. b : whole[h + i] = digits[i]
    BY <1>4, <1>6, <2>1, <2>2
  <2> HIDE DEF whole
  <2>4. Len(tail) = b /\ \A i \in 1 .. b : tail[i] = whole[h + i]
    BY <2>1, <2>2, <2>3
  <2>5. tail \in Seq({0, 1})
    BY <2>1, <2>2, <2>3
  <2> HIDE DEF tail
  <2>6. \A i \in 1 .. b : tail[i] = digits[i]
    BY <2>3, <2>4
  <2>7. tail = digits
    BY <1>4, <2>4, <2>5, <2>6, SeqEqual
  <2> QED BY <2>3, <2>7 DEF h, tail, whole
<1>8. bits = head \o digits
  BY DEF head
<1> HIDE DEF bits
<1>9. \A i \in 1 .. m : bits[i] = 1
  <2>1. \A i \in 1 .. m : i \in 1 .. m + stop
    BY <1>1, <1>3
  <2> QED BY <1>6, <1>7, <1>8, <2>1
<1>10. ASSUME m # n - 1 PROVE bits[m + 1] = 0
  <2>1. stop = 1 /\ m + 1 \in 1 .. m + stop
    BY <1>1, <1>3, <1>10
  <2>2. head[m + 1] = 0
    BY <1>6, <2>1
  <2> QED BY <1>7, <1>8, <2>1, <2>2
<1> QED BY <1>1, <1>2, <1>3, <1>4, <1>7, <1>8, <1>9, <1>10 DEF m, n, stop, b, offset

(* The size is the length of what encode writes. *)
THEOREM SizeIsLength ==
    ASSUME NEW c \in Coders, NEW val, CanEncode(c, val)
    PROVE  Len(Encode(c, val)) = EncodeSize(c, val)
<1>2. Skipped(c, val) < Classes(c)
  BY EncodeShape, CoderShape
<1>3. EncodeSize(c, val) = Skipped(c, val) + StopBits(c, Skipped(c, val))
                              + c.clsbits[Skipped(c, val) + 1]
  BY <1>2 DEF EncodeSize
<1> QED BY <1>3, EncodeShape

(* A slice has the elements between its ends. *)
LEMMA SliceOf ==
    ASSUME NEW A, NEW s \in Seq(A), NEW i \in Nat, NEW j \in Nat, i <= j, j <= Len(s)
    PROVE  /\ SubSeq(s, i + 1, j) \in Seq(A) /\ Len(SubSeq(s, i + 1, j)) = j - i
           /\ \A k \in 1 .. j - i : SubSeq(s, i + 1, j)[k] = s[i + k]
  OBVIOUS

(* decode takes the ones that are there, at most one per class, for the class, and
   gives up when the stream has not all bits of it. *)
LEMMA DecodeReads ==
    ASSUME NEW c \in Coders, NEW stream \in Seq({0, 1}), NEW pos \in Nat,
           NEW m \in 0 .. Classes(c) - 1,
           \A j \in 1 .. m : pos + j <= Len(stream) /\ stream[pos + j] = 1,
           \/ m = Classes(c) - 1 \/ pos + (m + 1) > Len(stream)
           \/ stream[pos + (m + 1)] = 0
    PROVE  LET start == pos + m + StopBits(c, m)
               end == start + c.clsbits[m + 1]
           IN  Decode(c, stream, pos) =
                  IF end > Len(stream) THEN Nothing
                  ELSE [val |-> c.minval + c.starts[m + 1]
                                   + ValueOf(SubSeq(stream, start + 1, end)),
                        pos |-> end]
<1> DEFINE n == Classes(c)
           Flag(j) == IF pos + j <= Len(stream) THEN stream[pos + j] ELSE 0
           Takes(k) == /\ \A j \in 1 .. k : Flag(j) = 1
                       /\ k = n - 1 \/ Flag(k + 1) = 0
           ones == CHOOSE k \in 0 .. n - 1 : Takes(k)
<1>1. n \in Nat \ {0} /\ Len(stream) \in Nat
  BY CoderShape
<1>2. (\A j \in 1 .. m : Flag(j) = 1) /\ (m = n - 1 \/ Flag(m + 1) = 0)
  OBVIOUS
<1> HIDE DEF n, Flag
<1>3. Takes(m) /\ m \in 0 .. n - 1
  BY <1>2 DEF n
<1>4. ASSUME NEW k \in 0 .. n - 1, Takes(k) PROVE k = m
  <2>1. CASE k < m
    <3>1. k + 1 \in 1 .. m /\ k # n - 1
      BY <1>1, <1>3, <2>1
    <3>2. Flag(k + 1) = 1 /\ Flag(k + 1) = 0
      BY <1>3, <1>4, <3>1
    <3> QED BY <3>2
  <2>2. CASE m < k
    <3>1. m + 1 \in 1 .. k /\ m # n - 1
      BY <1>1, <1>3, <2>2
    <3>2. Flag(m + 1) = 1 /\ Flag(m + 1) = 0
      BY <1>3, <1>4, <3>1
    <3> QED BY <3>2
  <2> QED BY <1>1, <1>3, <2>1, <2>2
<1> HIDE DEF Takes
<1>5. ones = m
  BY <1>3, <1>4
<1>6. Decode(c, stream, pos) =
        LET start == pos + ones + StopBits(c, ones)
            end == start + c.clsbits[ones + 1]
        IN  IF end > Len(stream) THEN Nothing
            ELSE [val |-> c.minval + c.starts[ones + 1]
                             + ValueOf(SubSeq(stream, start + 1, end)),
                  pos |-> end]
  BY Zenon DEF Decode, Takes, Flag, n
<1> HIDE DEF ones
<1> QED BY <1>5, <1>6

(* What encode writes, with any bits before it and any behind it, is the value and the
   bit behind it to decode. *)
THEOREM DecodeInvertsEncode ==
    ASSUME NEW c \in Coders, NEW val, CanEncode(c, val),
           NEW before \in Seq({0, 1}), NEW after \in Seq({0, 1})
    PROVE  Decode(c, before \o Encode(c, val) \o after, Len(before))
              = [val |-> val, pos |-> Len(before) + Len(Encode(c, val))]
<1> DEFINE m == Skipped(c, val)
           n == Classes(c)
           stop == StopBits(c, m)
           b == c.clsbits[m + 1]
           bits == Encode(c, val)
           pos == Len(before)
           stream == before \o bits \o after
           off == m + stop
           total == off + b
<1>1. /\ m \in 0 .. n - 1 /\ stop = (IF m = n - 1 THEN 0 ELSE 1)
      /\ bits \in Seq({0, 1}) /\ Len(bits) = m + stop + b
      /\ \A i \in 1 .. m : bits[i] = 1
      /\ m # n - 1 => bits[m + 1] = 0
      /\ ValueOf(SubSeq(bits, m + stop + 1, Len(bits))) = val - c.minval - c.starts[m + 1]
  BY EncodeShape
<1>2. /\ n \in Nat \ {0} /\ c.minval \in Nat /\ c.starts[m + 1] \in Nat /\ b \in Nat
      /\ val \in Int
  <2>1. /\ n \in Nat \ {0} /\ c.minval \in Nat /\ c.clsbits \in [1 .. n -> Nat]
        /\ c.starts \in [1 .. n + 1 -> Nat]
    BY CoderShape
  <2>2. m + 1 \in 1 .. n /\ m + 1 \in 1 .. n + 1
    <3> HIDE DEF m, n
    <3> QED BY <1>1, <2>1
  <2>3. c.starts[n + 1] \in Nat
    <3> HIDE DEF n
    <3>1. n + 1 \in 1 .. n + 1
      BY <2>1
    <3> QED BY <2>1, <3>1
  <2>4. c.starts[m + 1] \in Nat /\ c.clsbits[m + 1] \in Nat
    BY <2>1, <2>2
  <2>5. val \in c.minval .. c.minval + c.starts[n + 1] - 1
    BY DEF CanEncode, MaxVal
  <2>6. val \in Int
    BY ONLY <2>1, <2>3, <2>5
  <2> QED BY <2>1, <2>4, <2>6
<1> HIDE DEF m, n, stop, b, bits
<1>3. off \in Nat /\ total \in Nat /\ Len(bits) = total /\ off + 1 \in Nat
  <2>1. m \in Nat /\ stop \in Nat /\ b \in Nat /\ Len(bits) = m + stop + b
    BY <1>1, <1>2
  <2> QED BY ONLY <2>1
<1>4. off <= total
  BY <1>2, <1>3
<1> HIDE DEF off, total
<1>5. /\ pos \in Nat /\ stream \in Seq({0, 1}) /\ Len(stream) >= pos + total
      /\ Len(stream) \in Nat
      /\ \A i \in 1 .. total : stream[pos + i] = bits[i]
  <2>0. before \in Seq({0, 1}) /\ pos \in Nat /\ Len(before) = pos
    OBVIOUS
  <2> HIDE DEF pos
  <2>1. /\ before \o bits \in Seq({0, 1}) /\ Len(before \o bits) = pos + total
        /\ \A i \in 1 .. total : (before \o bits)[pos + i] = bits[i]
    BY <1>1, <1>3, <2>0
  <2> DEFINE front == before \o bits
  <2> HIDE DEF front
  <2>2. /\ front \in Seq({0, 1}) /\ Len(front) = pos + total
        /\ \A i \in 1 .. total : front[pos + i] = bits[i]
    BY <2>1 DEF front
  <2>3. /\ front \o after \in Seq({0, 1}) /\ Len(front \o after) >= pos + total
        /\ \A i \in 1 .. pos + total : (front \o after)[i] = front[i]
    BY <1>3, <2>0, <2>2
  <2>4. \A i \in 1 .. total : pos + i \in 1 .. pos + total
    BY <1>3, <2>0
  <2>5. \A i \in 1 .. total : (front \o after)[pos + i] = bits[i]
    BY <2>2, <2>3, <2>4
  <2>6. front \o after = stream
    BY DEF front, stream
  <2> HIDE DEF stream
  <2>7. Len(stream) \in Nat
    BY <2>3, <2>6
  <2> QED BY <2>0, <2>3, <2>5, <2>6, <2>7
<1> HIDE DEF stream, pos
<1>6. SubSeq(stream, pos + off + 1, pos + total) = SubSeq(bits, off + 1, total)
  <2> DEFINE s == SubSeq(stream, pos + off + 1, pos + total)
             t == SubSeq(bits, off + 1, total)
  <2>1. /\ Len(s) = total - off /\ s \in Seq({0, 1})
        /\ \A i \in 1 .. total - off : s[i] = stream[pos + off + i]
    <3> DEFINE i == pos + off
               j == pos + total
    <3>1. i \in Nat /\ j \in Nat /\ i <= j /\ j <= Len(stream) /\ j - i = total - off
      BY <1>3, <1>4, <1>5
    <3> HIDE DEF i, j
    <3>2. /\ SubSeq(stream, i + 1, j) \in Seq({0, 1}) /\ Len(SubSeq(stream, i + 1, j)) = j - i
          /\ \A k \in 1 .. j - i : SubSeq(stream, i + 1, j)[k] = stream[i + k]
      <4>1. stream \in Seq({0, 1})
        BY <1>5
      <4> QED BY ONLY <3>1, <4>1, SliceOf
    <3> QED BY <3>1, <3>2 DEF i, j
  <2>2. /\ Len(t) = total - off /\ t \in Seq({0, 1})
        /\ \A i \in 1 .. total - off : t[i] = bits[off + i]
    <3>1. total <= Len(bits)
      BY <1>3
    <3> QED BY <1>1, <1>3, <1>4, <3>1, SliceOf
  <2>3. \A i \in 1 .. total - off : stream[pos + off + i] = bits[off + i]
    <3> TAKE i \in 1 .. total - off
    <3>1. off + i \in 1 .. total /\ pos + off + i = pos + (off + i)
      BY <1>3, <1>4, <1>5
    <3> QED BY <1>5, <3>1
  <2> HIDE DEF s, t
  <2>4. s = t
    BY <2>1, <2>2, <2>3, SeqEqual
  <2> QED BY <2>4 DEF s, t
<1>7. \A j \in 1 .. m : pos + j <= Len(stream) /\ stream[pos + j] = 1
  <2> TAKE j \in 1 .. m
  <2>1. j \in 1 .. total
    BY <1>1, <1>2, <1>3 DEF total, off
  <2>2. stream[pos + j] = 1
    BY <1>1, <1>5, <2>1
  <2>3. pos + j <= pos + total
    BY <1>3, <1>5, <2>1
  <2>4. pos + j <= Len(stream)
    BY <1>3, <1>5, <2>1, <2>3
  <2> QED BY <2>2, <2>4
<1>8. m = n - 1 \/ stream[pos + (m + 1)] = 0
  <2> SUFFICES ASSUME m # n - 1 PROVE stream[pos + (m + 1)] = 0
    OBVIOUS
  <2>1. m + 1 \in 1 .. total
    BY <1>1, <1>2, <1>3 DEF total, off
  <2> QED BY <1>1, <1>5, <2>1
<1>9. Decode(c, stream, pos) =
        LET start == pos + m + StopBits(c, m)
            end == start + c.clsbits[m + 1]
        IN  IF end > Len(stream) THEN Nothing
            ELSE [val |-> c.minval + c.starts[m + 1] + ValueOf(SubSeq(stream, start + 1, end)),
                  pos |-> end]
  BY <1>1, <1>5, <1>7, <1>8, DecodeReads DEF n
<1>10. /\ pos + m + StopBits(c, m) = pos + off
       /\ pos + off + c.clsbits[m + 1] = pos + total
  <2>1. m \in Nat /\ stop \in Nat /\ b \in Nat
    BY <1>1, <1>2
  <2>2. StopBits(c, m) = stop /\ c.clsbits[m + 1] = b
    BY DEF stop, b
  <2>3. off = m + stop /\ total = off + b
    BY DEF off, total
  <2> HIDE DEF stop, b, off, total
  <2> QED BY <1>5, <2>1, <2>2, <2>3
<1>11. Decode(c, stream, pos) =
         [val |-> c.minval + c.starts[m + 1]
                     + ValueOf(SubSeq(stream, pos + off + 1, pos + total)),
          pos |-> pos + total]
  <2>1. ~(pos + total > Len(stream))
    BY <1>3, <1>5
  <2> QED BY <1>9, <1>10, <2>1
<1>12. ValueOf(SubSeq(stream, pos + off + 1, pos + total)) = val - c.minval - c.starts[m + 1]
  BY <1>1, <1>3, <1>6 DEF off
<1>13. c.minval + c.starts[m + 1] + (val - c.minval - c.starts[m + 1]) = val
  BY <1>2
<1> QED BY <1>3, <1>11, <1>12, <1>13 DEF stream, pos, bits

(* A stream that ends within a value is no value to decode: it is never taken for a
   shorter one. *)
THEOREM CutValueIsNothing ==
    ASSUME NEW c \in Coders, NEW val, CanEncode(c, val), NEW before \in Seq({0, 1}),
           NEW cut \in 0 .. Len(Encode(c, val)) - 1
    PROVE  Decode(c, before \o SubSeq(Encode(c, val), 1, cut), Len(before)) = Nothing
<1> DEFINE m == Skipped(c, val)
           n == Classes(c)
           bits == Encode(c, val)
           pos == Len(before)
           stream == before \o SubSeq(bits, 1, cut)
<1>1. /\ m \in 0 .. n - 1 /\ StopBits(c, m) = (IF m = n - 1 THEN 0 ELSE 1)
      /\ bits \in Seq({0, 1}) /\ Len(bits) = m + StopBits(c, m) + c.clsbits[m + 1]
      /\ \A i \in 1 .. m : bits[i] = 1
      /\ m # n - 1 => bits[m + 1] = 0
  BY EncodeShape
<1>2. n \in Nat \ {0} /\ \A k \in 0 .. n - 1 : c.clsbits[k + 1] \in Nat
  <2>1. n \in Nat \ {0} /\ c.clsbits \in [1 .. n -> Nat]
    BY CoderShape
  <2> HIDE DEF n
  <2>2. \A k \in 0 .. n - 1 : k + 1 \in 1 .. n
    BY <2>1
  <2> QED BY <2>1, <2>2
<1> HIDE DEF m, n, bits
<1>3. cut \in Nat /\ cut < Len(bits) /\ Len(bits) \in Nat
  BY <1>1 DEF bits
<1>4. /\ pos \in Nat /\ stream \in Seq({0, 1}) /\ Len(stream) = pos + cut
      /\ \A i \in 1 .. cut : stream[pos + i] = bits[i]
  <2> DEFINE head == SubSeq(bits, 1, cut)
  <2>1. head \in Seq({0, 1}) /\ Len(head) = cut /\ \A i \in 1 .. cut : head[i] = bits[i]
    BY <1>1, <1>3
  <2> HIDE DEF head
  <2>2. /\ pos \in Nat /\ before \o head \in Seq({0, 1}) /\ Len(before \o head) = pos + cut
        /\ \A i \in 1 .. cut : (before \o head)[pos + i] = head[i]
    <3>1. before \in Seq({0, 1}) /\ pos = Len(before) /\ pos \in Nat
      OBVIOUS
    <3> HIDE DEF pos
    <3> QED BY ONLY <1>3, <2>1, <3>1
  <2> QED BY <2>1, <2>2 DEF head
<1> HIDE DEF stream, pos
<1> DEFINE k == IF cut < m THEN cut ELSE m
<1>5. /\ k \in 0 .. n - 1 /\ k <= cut /\ k <= m
      /\ k # n - 1 /\ k # cut => k = m /\ m + 1 \in 1 .. cut
  <2>1. m \in 0 .. n - 1 /\ n \in Nat \ {0} /\ cut \in Nat
    BY <1>1, <1>2, <1>3
  <2> QED BY ONLY <2>1
<1>6. \A j \in 1 .. k : pos + j <= Len(stream) /\ stream[pos + j] = 1
  <2> TAKE j \in 1 .. k
  <2>1. j \in 1 .. cut /\ j \in 1 .. m
    BY <1>1, <1>2, <1>3, <1>5
  <2>2. stream[pos + j] = 1
    BY <1>1, <1>4, <2>1
  <2>3. pos + j <= Len(stream)
    BY <1>3, <1>4, <2>1
  <2> QED BY <2>2, <2>3
<1>7. \/ k = n - 1 \/ pos + (k + 1) > Len(stream)
      \/ stream[pos + (k + 1)] = 0
  <2>1. CASE k = cut
    BY <1>3, <1>4, <2>1
  <2>2. CASE k # cut /\ k # n - 1
    <3>1. k = m /\ m + 1 \in 1 .. cut
      BY <1>5, <2>2
    <3> QED BY <1>1, <1>4, <2>2, <3>1
  <2> QED BY <2>1, <2>2
<1> HIDE DEF k
<1>8. Decode(c, stream, pos) =
        LET start == pos + k + StopBits(c, k)
            end == start + c.clsbits[k + 1]
        IN  IF end > Len(stream) THEN Nothing
            ELSE [val |-> c.minval + c.starts[k + 1] + ValueOf(SubSeq(stream, start + 1, end)),
                  pos |-> end]
  BY <1>4, <1>5, <1>6, <1>7, DecodeReads DEF n
<1>9. pos + k + StopBits(c, k) + c.clsbits[k + 1] > Len(stream)
  <2>1. CASE cut < m
    <3>1. k = cut /\ k + 1 < n /\ c.clsbits[k + 1] \in Nat
      BY <1>1, <1>2, <1>3, <1>5, <2>1 DEF k
    <3>2. StopBits(c, k) = 1
      BY <3>1 DEF StopBits, n
    <3> QED BY <1>3, <1>4, <3>1, <3>2
  <2>2. CASE ~(cut < m)
    <3>1. k = m /\ c.clsbits[m + 1] \in Nat /\ StopBits(c, m) \in Nat
      BY <1>1, <1>2, <2>2 DEF k
    <3>2. m + StopBits(c, m) + c.clsbits[m + 1] > cut /\ m \in Nat
      BY <1>1, <1>3, <2>2
    <3> DEFINE stop == StopBits(c, m)
               size == c.clsbits[m + 1]
    <3>3. pos + m + stop + size > pos + cut
      <4>1. stop \in Nat /\ size \in Nat /\ m + stop + size > cut /\ m \in Nat /\ pos \in Nat /\ cut \in Nat
        BY <1>3, <1>4, <3>1, <3>2
      <4> HIDE DEF stop, size
      <4> QED BY ONLY <4>1
    <3> QED BY <1>4, <3>1, <3>3
  <2> QED BY <2>1, <2>2
<1>10. Decode(c, stream, pos) = Nothing
  BY <1>8, <1>9
<1> QED BY <1>10 DEF stream, pos, bits

---------------------------------------------------------------------------
(* The walk of to_entries_flat over the canonical trie of f. *)
IsFlat(f, fill, flat) ==
    flat = [path \in Path |->
              LET at == NodeAt(TrieOf(f), path)
                  halves == flat[Append(path, 0)] \o flat[Append(path, 1)]
              IN  IF IsLeaf(at) THEN LeafEntries(path, at[1])
                  ELSE IF fill /\ OneAsn(halves) THEN << <<path, halves[1][2]>> >> ELSE halves]

Flat(f, fill) == CHOOSE flat : IsFlat(f, fill, flat)

(* to_entries_flat is the walk. *)
LEMMA FlatIsFlat == \A f, fill : EntriesFlat(TrieOf(f), fill) = Flat(f, fill)[<< >>]
BY DEF EntriesFlat, Flat, IsFlat

(* A path and the ASN it is to have. *)
Entry == Path \X Nat

(* The entries of a leaf are entries. *)
LEMMA LeafEntriesType ==
    ASSUME NEW f \in [Address -> Nat], NEW p \in Path, IsLeaf(Below(f)[p])
    PROVE  Below(f)[p][1] \in Nat /\ LeafEntries(p, Below(f)[p][1]) \in Seq(Entry)
<1>1. PICK a \in Address : Covers(p, a)
  BY CoversSome
<1>2. Below(f)[p][1] \in Nat
  BY <1>1, LeafIsUniform
<1>3. <<p, Below(f)[p][1]>> \in Entry
  BY <1>2 DEF Entry
<1> QED BY <1>2, <1>3 DEF LeafEntries

(* The walk has lists of entries: those of a leaf, and of the halves, widened or not. *)
LEMMA FlatEquation ==
    ASSUME NEW f \in [Address -> Nat], NEW fill \in BOOLEAN, NEW p \in Path
    PROVE  LET halves == Flat(f, fill)[Append(p, 0)] \o Flat(f, fill)[Append(p, 1)]
           IN  /\ Flat(f, fill)[p] \in Seq(Entry)
               /\ IsLeaf(Below(f)[p]) => Flat(f, fill)[p] = LeafEntries(p, Below(f)[p][1])
               /\ ~IsLeaf(Below(f)[p]) =>
                     /\ Len(p) # V6Bits
                     /\ Flat(f, fill)[p] = IF fill /\ OneAsn(halves)
                                           THEN << <<p, halves[1][2]>> >> ELSE halves
<1> DEFINE V == Seq(Entry)
           stop == {q \in Path : IsLeaf(Below(f)[q])}
           ends == [q \in Path |-> IF IsLeaf(Below(f)[q])
                                   THEN LeafEntries(q, Below(f)[q][1]) ELSE << >>]
           Join(q, pair) == IF fill /\ OneAsn(pair[1] \o pair[2])
                            THEN << <<q, (pair[1] \o pair[2])[1][2]>> >> ELSE pair[1] \o pair[2]
           step == [q \in Path |-> [pair \in V \X V |-> Join(q, pair)]]
<1>1. stop \in SUBSET Path /\ \A q \in Path : Len(q) = V6Bits => q \in stop
  BY AddressIsLeaf
<1>2. ends \in [Path -> V]
  BY LeafEntriesType
<1>3. step \in [Path -> [V \X V -> V]]
  <2>1. ASSUME NEW q \in Path, NEW pair \in V \X V PROVE Join(q, pair) \in V
    <3>1. pair[1] \o pair[2] \in Seq(Entry)
      OBVIOUS
    <3> DEFINE both == pair[1] \o pair[2]
    <3>2. OneAsn(both) => both[1] \in Entry
      <4> HIDE DEF both
      <4>1. both \in Seq(Entry)
        BY <3>1 DEF both
      <4> QED BY <4>1 DEF OneAsn
    <3>3. OneAsn(both) => <<q, both[1][2]>> \in Entry
      BY <3>2 DEF Entry
    <3> HIDE DEF both
    <3>4. fill /\ OneAsn(both) => << <<q, both[1][2]>> >> \in Seq(Entry)
      BY <3>3
    <3>5. (IF fill /\ OneAsn(both) THEN << <<q, both[1][2]>> >> ELSE both) \in Seq(Entry)
      BY <3>1, <3>4 DEF both
    <3> QED BY <3>5 DEF both
  <2> HIDE DEF Join, V
  <2> QED BY <2>1
<1> HIDE DEF V, stop, ends, step
<1>4. PICK g \in [Path -> V] : RecursOver(g, Path, stop, ends, step)
  BY <1>1, <1>2, <1>3, PathRecursion
<1>5. \A q \in Path : q \notin stop => Append(q, 0) \in Path /\ Append(q, 1) \in Path
  BY <1>1, PathAppend, PathType, WidthIsNat DEF Bit
<1>6. IsFlat(f, fill, g)
  <2> DEFINE h == [path \in Path |->
              LET at == NodeAt(TrieOf(f), path)
                  halves == g[Append(path, 0)] \o g[Append(path, 1)]
              IN  IF IsLeaf(at) THEN LeafEntries(path, at[1])
                  ELSE IF fill /\ OneAsn(halves) THEN << <<path, halves[1][2]>> >> ELSE halves]
  <2>1. ASSUME NEW q \in Path PROVE g[q] = h[q]
    <3>1. NodeAt(TrieOf(f), q) = Below(f)[q]
      BY NodeIsBelow
    <3>2. CASE IsLeaf(Below(f)[q])
      <4>1. q \in stop /\ g[q] = ends[q]
        BY <1>4, <3>2 DEF RecursOver, stop
      <4> QED BY <3>1, <3>2, <4>1 DEF ends
    <3>3. CASE ~IsLeaf(Below(f)[q])
      <4>1. q \notin stop /\ g[q] = step[q][<<g[Append(q, 0)], g[Append(q, 1)]>>]
        BY <1>4, <3>3 DEF RecursOver, stop
      <4>2. <<g[Append(q, 0)], g[Append(q, 1)]>> \in V \X V
        BY <1>4, <1>5, <4>1
      <4>3. g[q] = Join(q, <<g[Append(q, 0)], g[Append(q, 1)]>>)
        BY <4>1, <4>2 DEF step
      <4> QED BY <3>1, <3>3, <4>3
    <3> QED BY <3>2, <3>3
  <2>2. g = h
    BY <1>4, <2>1
  <2> QED BY <2>2 DEF IsFlat
<1>7. IsFlat(f, fill, Flat(f, fill))
  BY <1>6, Zenon DEF Flat
<1> DEFINE F == Flat(f, fill)
           halves(q) == F[Append(q, 0)] \o F[Append(q, 1)]
<1>8. ASSUME NEW q \in Path
      PROVE  /\ IsLeaf(Below(f)[q]) => F[q] = LeafEntries(q, Below(f)[q][1])
             /\ ~IsLeaf(Below(f)[q]) =>
                   F[q] = IF fill /\ OneAsn(halves(q)) THEN << <<q, halves(q)[1][2]>> >>
                          ELSE halves(q)
  BY <1>7, NodeIsBelow DEF IsFlat
<1> HIDE DEF F
<1> DEFINE T == {q \in Path : F[q] \in V}
<1>9. \A q \in Path : IsLeaf(Below(f)[q]) => F[q] \in V
  BY <1>8, LeafEntriesType DEF V
<1>10. \A q \in Path : Len(q) = V6Bits => q \in T
  BY <1>9, AddressIsLeaf
<1>11. ASSUME NEW q \in Path, Len(q) # V6Bits, Append(q, 0) \in T, Append(q, 1) \in T
       PROVE  q \in T
  <2>1. <<F[Append(q, 0)], F[Append(q, 1)]>> \in V \X V
    BY <1>11
  <2>2. Join(q, <<F[Append(q, 0)], F[Append(q, 1)]>>) \in V
    <3>1. step[q][<<F[Append(q, 0)], F[Append(q, 1)]>>] \in V
      BY <1>3, <2>1
    <3> QED BY <2>1, <3>1 DEF step
  <2>3. ~IsLeaf(Below(f)[q]) => F[q] \in V
    BY <1>8, <2>2
  <2> QED BY <1>9, <2>3
<1> HIDE DEF T
<1>12. p \in T
  BY <1>10, <1>11, PathInduction
<1>13. F[p] \in V
  BY <1>12 DEF T
<1>14. ~IsLeaf(Below(f)[p]) => Len(p) # V6Bits
  BY AddressIsLeaf
<1> QED BY <1>8, <1>13, <1>14 DEF F, V

---------------------------------------------------------------------------
(***************************************************************************)
(* The flat entries of the part of the map of f under a path: they are     *)
(* there, say what f says, say it of everything that is assigned, and no   *)
(* two of them speak of one address; without fill they are the leaves.     *)
(***************************************************************************)
FlatFacts(f, fill, p, entries) ==
    /\ \A e \in entries : /\ Within(e[1], p) /\ e[2] # 0
                          /\ \A a \in Address : Covers(e[1], a) => f[a] = e[2] \/ (fill /\ f[a] = 0)
    /\ \A a \in Address : Covers(p, a) /\ f[a] # 0 => \E e \in entries : Covers(e[1], a)
    /\ \A d, e \in entries : d = e \/ Apart(d[1], e[1])

(* No entry is below a leaf: nothing that it passes on its way down is one. *)
FlatLeaves(f, p, entries) ==
    \A e \in entries : \A k \in Len(p) .. Len(e[1]) - 1 : ~IsLeaf(Below(f)[Upto(e[1], k)])

(* The facts hold of the walk, from the addresses up. *)
LEMMA FlatIsRight ==
    ASSUME NEW f \in [Address -> Nat], NEW fill \in BOOLEAN, NEW p \in Path
    PROVE  FlatFacts(f, fill, p, Range(Flat(f, fill)[p]))
<1> DEFINE F(q) == Range(Flat(f, fill)[q])
           S == {q \in Path : FlatFacts(f, fill, q, F(q))}
<1>1. ASSUME NEW q \in Path, IsLeaf(Below(f)[q]) PROVE q \in S
  <2> DEFINE asn == Below(f)[q][1]
  <2>1. \A a \in Address : Covers(q, a) => f[a] = asn
    BY <1>1, LeafIsUniform
  <2>2. F(q) = IF asn = 0 THEN {} ELSE {<<q, asn>>}
    BY <1>1, FlatEquation, RangeOfOne DEF LeafEntries
  <2>3. Within(q, q)
    BY WithinSelf
  <2> HIDE DEF asn, F
  <2>4. FlatFacts(f, fill, q, F(q))
    <3>1. CASE asn = 0
      BY <2>1, <2>2, <3>1 DEF FlatFacts
    <3>2. CASE asn # 0
      <4>1. F(q) = {<<q, asn>>}
        BY <2>2, <3>2
      <4> QED BY <2>1, <2>3, <3>2, <4>1 DEF FlatFacts
    <3> QED BY <3>1, <3>2
  <2> QED BY <2>4
<1>2. \A q \in Path : Len(q) = V6Bits => q \in S
  BY <1>1, AddressIsLeaf
<1>3. ASSUME NEW q \in Path, Len(q) # V6Bits, Append(q, 0) \in S, Append(q, 1) \in S
      PROVE  q \in S
  <2>1. CASE IsLeaf(Below(f)[q])
    BY <1>1, <2>1
  <2>2. CASE ~IsLeaf(Below(f)[q])
    <3> DEFINE l == Append(q, 0)
               r == Append(q, 1)
               both == Flat(f, fill)[l] \o Flat(f, fill)[r]
    <3>1. /\ l \in Path /\ r \in Path
          /\ \A a \in Address : Covers(q, a) <=> Covers(l, a) \/ Covers(r, a)
          /\ Apart(l, r)
      BY <1>3, HalvesOfPath
    <3>2. FlatFacts(f, fill, l, F(l)) /\ FlatFacts(f, fill, r, F(r))
      BY <1>3
    <3>3. /\ both \in Seq(Entry) /\ Range(both) = F(l) \cup F(r)
          /\ F(l) \subseteq Entry /\ F(r) \subseteq Entry
      <4>1. Flat(f, fill)[l] \in Seq(Entry) /\ Flat(f, fill)[r] \in Seq(Entry)
        BY <3>1, FlatEquation
      <4> QED BY <4>1, RangeOfBoth
    <3>4. \A e \in F(l) \cup F(r) : e[1] \in Path
      BY <3>3 DEF Entry
    <3>5. /\ \A e \in F(l) : Within(e[1], l) /\ Within(e[1], q)
          /\ \A e \in F(r) : Within(e[1], r) /\ Within(e[1], q)
      BY <1>3, <3>2, <3>4, WithinHalf DEF FlatFacts, Bit
    <3>6. \A d \in F(l), e \in F(r) : Apart(d[1], e[1]) /\ Apart(e[1], d[1])
      <4> TAKE d \in F(l), e \in F(r)
      <4>1. \A a \in Address : (Covers(d[1], a) => Covers(l, a)) /\ (Covers(e[1], a) => Covers(r, a))
        BY <3>1, <3>4, <3>5, WithinCovers
      <4> QED BY <3>1, <4>1 DEF Apart
    <3> HIDE DEF F, l, r
    <3>7. FlatFacts(f, fill, q, F(l) \cup F(r))
      <4>1. \A e \in F(l) \cup F(r) :
               /\ Within(e[1], q) /\ e[2] # 0
               /\ \A a \in Address : Covers(e[1], a) => f[a] = e[2] \/ (fill /\ f[a] = 0)
        BY <3>2, <3>5 DEF FlatFacts
      <4>2. \A a \in Address : Covers(q, a) /\ f[a] # 0 => \E e \in F(l) \cup F(r) : Covers(e[1], a)
        BY <3>1, <3>2 DEF FlatFacts
      <4>3. \A d, e \in F(l) \cup F(r) : d = e \/ Apart(d[1], e[1])
        BY <3>2, <3>6 DEF FlatFacts
      <4> QED BY <4>1, <4>2, <4>3 DEF FlatFacts
    <3>8. Flat(f, fill)[q] = IF fill /\ OneAsn(both) THEN << <<q, both[1][2]>> >> ELSE both
      BY <2>2, FlatEquation DEF l, r
    <3> HIDE DEF both
    <3>9. CASE ~(fill /\ OneAsn(both))
      BY <3>3, <3>7, <3>8, <3>9 DEF F
    <3>10. CASE fill /\ OneAsn(both)
      <4> DEFINE asn == both[1][2]
      <4>1. Flat(f, fill)[q] = << <<q, asn>> >>
        BY <3>8, <3>10
      <4>2. F(q) = {<<q, asn>>}
        BY <4>1, RangeOfOne DEF F
      <4>3. both[1] \in Range(both) /\ \A e \in Range(both) : e[2] = asn
        <5>1. DOMAIN both = 1 .. Len(both) /\ Len(both) \in Nat
          BY <3>3
        <5> QED BY <3>10, <5>1 DEF OneAsn, Range
      <4> HIDE DEF asn
      <4>4. asn # 0
        BY <3>3, <3>7, <4>3 DEF FlatFacts
      <4>5. \A a \in Address : Covers(q, a) => f[a] = asn \/ f[a] = 0
        BY <3>3, <3>7, <4>3, <3>10 DEF FlatFacts
      <4>6. Within(q, q)
        BY WithinSelf
      <4>7. FlatFacts(f, fill, q, {<<q, asn>>})
        BY <3>10, <4>4, <4>5, <4>6 DEF FlatFacts
      <4> QED BY <4>2, <4>7
    <3> QED BY <3>9, <3>10
  <2> QED BY <2>1, <2>2
<1> HIDE DEF S
<1>4. p \in S
  BY <1>2, <1>3, PathInduction
<1> QED BY <1>4 DEF S

(* What the flat entries tell of an address. *)
LEMMA FlatTells ==
    ASSUME NEW f \in [Address -> Nat], NEW fill \in BOOLEAN, NEW a \in Address,
           fill => f[a] # 0
    PROVE  Tells(EntriesFlat(TrieOf(f), fill), a, 0, f[a])
<1> DEFINE entries == EntriesFlat(TrieOf(f), fill)
<1>1. entries = Flat(f, fill)[<< >>]
  BY FlatIsFlat
<1>2. FlatFacts(f, fill, << >>, Range(entries))
  BY <1>1, EmptyPath, FlatIsRight
<1>3. Covers(<< >>, a)
  BY EmptyPath, CoversIsPointwise
<1> HIDE DEF entries
<1>4. \A e \in Over(entries, a) : e[2] = f[a]
  BY <1>2 DEF FlatFacts, Over
<1>5. f[a] # 0 => Over(entries, a) # {}
  BY <1>2, <1>3 DEF FlatFacts, Over
<1>6. Tells(entries, a, 0, f[a])
  BY <1>4, <1>5 DEF Tells
<1> QED BY <1>6 DEF entries

(* Without fill the flat entries are the topmost leaves. *)
LEMMA FlatAreLeaves ==
    ASSUME NEW f \in [Address -> Nat], NEW p \in Path
    PROVE  FlatLeaves(f, p, Range(Flat(f, FALSE)[p]))
<1> DEFINE F(q) == Range(Flat(f, FALSE)[q])
           S == {q \in Path : FlatLeaves(f, q, F(q))}
<1>1. ASSUME NEW q \in Path, IsLeaf(Below(f)[q]) PROVE q \in S
  <2> DEFINE asn == Below(f)[q][1]
  <2>2. F(q) = IF asn = 0 THEN {} ELSE {<<q, asn>>}
    BY <1>1, FlatEquation, RangeOfOne DEF LeafEntries
  <2>3. \A e \in F(q) : e[1] = q
    <3> HIDE DEF F, asn
    <3> QED BY <2>2
  <2>4. Len(q) .. Len(q) - 1 = {}
    BY PathType
  <2> HIDE DEF F
  <2> QED BY <2>3, <2>4 DEF FlatLeaves
<1>2. \A q \in Path : Len(q) = V6Bits => q \in S
  BY <1>1, AddressIsLeaf
<1>3. ASSUME NEW q \in Path, Len(q) # V6Bits, Append(q, 0) \in S, Append(q, 1) \in S
      PROVE  q \in S
  <2>1. CASE IsLeaf(Below(f)[q])
    BY <1>1, <2>1
  <2>2. CASE ~IsLeaf(Below(f)[q])
    <3>1. Append(q, 0) \in Path /\ Append(q, 1) \in Path
      BY <1>3, HalvesOfPath
    <3>2. Flat(f, FALSE)[q] = Flat(f, FALSE)[Append(q, 0)] \o Flat(f, FALSE)[Append(q, 1)]
      BY <2>2, FlatEquation
    <3>3. Flat(f, FALSE)[Append(q, 0)] \in Seq(Entry) /\ Flat(f, FALSE)[Append(q, 1)] \in Seq(Entry)
      BY <3>1, FlatEquation
    <3>4. F(q) = F(Append(q, 0)) \cup F(Append(q, 1)) /\ F(Append(q, 0)) \subseteq Entry
          /\ F(Append(q, 1)) \subseteq Entry
      <4> DEFINE l == Flat(f, FALSE)[Append(q, 0)]
                 r == Flat(f, FALSE)[Append(q, 1)]
      <4>1. Range(l \o r) = Range(l) \cup Range(r) /\ Range(l) \subseteq Entry
            /\ Range(r) \subseteq Entry
        <5> HIDE DEF l, r
        <5>1. l \in Seq(Entry) /\ r \in Seq(Entry)
          BY <3>3 DEF l, r
        <5> QED BY <5>1, RangeOfBoth
      <4> QED BY <3>2, <4>1
    <3>5. ASSUME NEW b \in Bit, NEW e \in F(Append(q, b)), NEW k \in Len(q) .. Len(e[1]) - 1
          PROVE  ~IsLeaf(Below(f)[Upto(e[1], k)])
      <4>1. Append(q, b) \in Path /\ Len(Append(q, b)) = Len(q) + 1 /\ Append(q, b) \in S
          <5>1. Len(q) < V6Bits
          BY <1>3, PathType, WidthIsNat
        <5>2. b = 0 \/ b = 1
          BY DEF Bit
        <5> HIDE DEF S
        <5> QED BY <1>3, <5>1, <5>2, PathAppend
      <4>2. e \in F(Append(q, 0)) \/ e \in F(Append(q, 1))
        BY DEF Bit
      <4>3. e[1] \in Path
        <5> HIDE DEF F
        <5>1. e \in Entry
          BY <3>4, <4>2
        <5> QED BY <5>1 DEF Entry
      <4>4. Within(e[1], Append(q, b))
        BY <4>1, FlatIsRight DEF FlatFacts
      <4>5. Within(e[1], q) /\ Len(e[1]) > Len(q)
        BY <1>3, <4>3, <4>4, WithinHalf
      <4>6. CASE k = Len(q)
        <5>1. Upto(e[1], k) \in Path /\ Len(Upto(e[1], k)) = k
              /\ \A i \in 1 .. k : Upto(e[1], k)[i] = e[1][i]
          <6>1. Len(e[1]) \in Nat /\ Len(q) \in Nat
            BY <4>3, PathType
          <6>2. k \in 0 .. Len(e[1])
            BY <4>5, <4>6, <6>1
          <6> QED BY <4>3, <6>2, UptoGrows
        <5>2. Upto(e[1], k) = q
          <6>1. Upto(e[1], k) \in Seq(Bit) /\ q \in Seq(Bit)
            BY <5>1, PathType
          <6>2. \A i \in 1 .. Len(q) : e[1][i] = q[i]
            BY <4>5 DEF Within
          <6> QED BY ONLY <4>6, <5>1, <6>1, <6>2, SeqEqual
        <5> QED BY <2>2, <5>2
      <4>7. CASE k # Len(q)
        <5>1. k \in Len(q) + 1 .. Len(e[1]) - 1
          BY <4>7, PathType, <4>3
        <5> HIDE DEF F
        <5> QED BY <4>1, <5>1 DEF FlatLeaves
      <4> QED BY <4>6, <4>7
    <3> HIDE DEF F
    <3> QED BY <3>4, <3>5 DEF FlatLeaves, Bit
  <2> QED BY <2>1, <2>2
<1> HIDE DEF S
<1>4. p \in S
  BY <1>2, <1>3, PathInduction
<1> QED BY <1>4 DEF S

---------------------------------------------------------------------------
(* A string of zeros. *)
LEMMA ZerosType ==
    ASSUME NEW n \in Nat
    PROVE  Zeros(n) \in Seq(Bit) /\ Len(Zeros(n)) = n /\ \A i \in 1 .. n : Zeros(n)[i] = 0
BY DEF Zeros, Bit

(* The text of a path parses strictly and as a network, and reads back as the path; it
   is an IPv4 text exactly if the path is in the mapped range. *)
LEMMA NetworkOfPath ==
    ASSUME NEW p \in Path
    PROVE  LET net == BitsToNetwork(p) IN
           /\ net \in Network /\ IsCanonical(net) /\ PathOf(net) = p
           /\ net.fam \in {"v4", "v6"}
           /\ net.fam = "v4" => Within(p, MappedRange) /\ net.len = Len(p) - MappedBits
           /\ net.fam = "v6" => ~Within(p, MappedRange) /\ net.len = Len(p)
<1> USE WidthAssumption, MappedRangeAssumption
<1> DEFINE net == BitsToNetwork(p)
           pad == Zeros(V6Bits - Len(p))
<1>1. p \in Seq(Bit) /\ Len(p) \in Nat /\ Len(p) <= V6Bits /\ p \in [1 .. Len(p) -> Bit]
  BY PathType
<1>2. /\ pad \in Seq(Bit) /\ Len(pad) = V6Bits - Len(p)
      /\ \A i \in 1 .. V6Bits - Len(p) : pad[i] = 0
  <2>1. V6Bits - Len(p) \in Nat
    BY <1>1, WidthIsNat
  <2> QED BY <2>1, ZerosType
<1>3. MappedRange \in Seq(Bit) /\ Len(MappedRange) = MappedBits
  OBVIOUS
<1>4. (Len(p) >= MappedBits /\ SubSeq(p, 1, MappedBits) = MappedRange) <=> Within(p, MappedRange)
  <2>1. CASE Len(p) >= MappedBits
    <3>1. /\ SubSeq(p, 1, MappedBits) \in Seq(Bit) /\ Len(SubSeq(p, 1, MappedBits)) = MappedBits
          /\ \A i \in 1 .. MappedBits : SubSeq(p, 1, MappedBits)[i] = p[i]
      BY <1>1, <2>1
    <3>2. (SubSeq(p, 1, MappedBits) = MappedRange) <=> \A i \in 1 .. MappedBits : p[i] = MappedRange[i]
      BY <1>3, <3>1, SeqEqual
    <3> QED BY <1>3, <2>1, <3>2 DEF Within
  <2>2. CASE ~ (Len(p) >= MappedBits)
    BY <1>1, <1>3, <2>2 DEF Within
  <2> QED BY <2>1, <2>2
<1> HIDE DEF pad
<1>5. CASE Within(p, MappedRange)
  <2> DEFINE rest == SubSeq(p, MappedBits + 1, Len(p))
  <2>1. Len(p) >= MappedBits /\ \A i \in 1 .. MappedBits : p[i] = MappedRange[i]
    BY <1>3, <1>5 DEF Within
  <2>2. /\ rest \in Seq(Bit) /\ Len(rest) = Len(p) - MappedBits
        /\ \A i \in 1 .. Len(p) - MappedBits : rest[i] = p[MappedBits + i]
    <3>1. SubSeq(p, MappedBits + 1, Len(p)) \in Seq(Bit)
          /\ Len(SubSeq(p, MappedBits + 1, Len(p))) = Len(p) - MappedBits
          /\ \A k \in 1 .. Len(p) - MappedBits : SubSeq(p, MappedBits + 1, Len(p))[k] = p[MappedBits + k]
      <4>1. MappedBits \in Nat /\ MappedBits <= Len(p)
        BY <1>1, <2>1
      <4> HIDE DEF net, rest
      <4>2. p \in Seq(Bit) /\ Len(p) \in Nat /\ Len(p) <= Len(p)
        BY <1>1
      <4> QED BY ONLY <4>1, <4>2, SubSeqProperties, SliceOf
    <3> QED BY <3>1
  <2>3. net = [fam |-> "v4", addr |-> rest \o pad, len |-> Len(p) - MappedBits]
    BY <1>4, <1>5 DEF BitsToNetwork, pad
  <2> HIDE DEF net, rest
  <2>4. /\ rest \o pad \in Seq(Bit) /\ Len(rest \o pad) = V4Bits
        /\ \A i \in 1 .. Len(p) - MappedBits : (rest \o pad)[i] = rest[i]
        /\ \A i \in Len(p) - MappedBits + 1 .. V4Bits : (rest \o pad)[i] = 0
    <3>1. rest \o pad \in Seq(Bit) /\ Len(rest \o pad) = V4Bits
      <4>1. rest \o pad \in Seq(Bit) /\ Len(rest \o pad) = Len(rest) + Len(pad)
        <5>1. rest \in Seq(Bit) /\ pad \in Seq(Bit)
          BY ONLY <1>2, <2>2
        <5> QED BY ONLY <5>1
      <4> QED BY <1>1, <1>2, <2>1, <2>2, <4>1 DEF V6Bits
    <3>2. \A i \in 1 .. Len(p) - MappedBits : (rest \o pad)[i] = rest[i]
      BY <1>1, <1>2, <2>1, <2>2, WidthIsNat
    <3>3. ASSUME NEW i \in Len(p) - MappedBits + 1 .. V4Bits PROVE (rest \o pad)[i] = 0
      <4>1. i - (Len(p) - MappedBits) \in 1 .. V6Bits - Len(p) /\ i \in 1 .. Len(rest) + Len(pad)
            /\ i > Len(rest)
        BY <1>1, <1>2, <2>1, <2>2, WidthIsNat DEF V6Bits
      <4>2. (rest \o pad)[i] = pad[i - Len(rest)]
        BY <1>2, <2>2, <4>1
      <4> QED BY <1>2, <2>2, <4>1, <4>2
    <3> QED BY <3>1, <3>2, <3>3
  <2>5. net \in Network
    <3>1. rest \o pad \in [1 .. V4Bits -> Bit]
      <4> DEFINE all == rest \o pad
      <4> HIDE DEF all
      <4>1. all \in Seq(Bit) /\ Len(all) = V4Bits
        BY <2>4 DEF all
      <4>2. all \in [1 .. V4Bits -> Bit]
        BY <4>1
      <4> QED BY <4>2 DEF all
    <3>2. Len(p) - MappedBits \in 0 .. V4Bits
      BY <1>1, <2>1 DEF V6Bits
    <3> QED BY <2>3, <3>1, <3>2 DEF Network
  <2>6. IsCanonical(net)
    BY <2>3, <2>4 DEF IsCanonical
  <2>7. PathOf(net) = p
    <3> DEFINE bits == [i \in 1 .. net.len |-> net.addr[i]]
               back == [i \in 1 .. MappedBits + net.len |->
                          IF i <= MappedBits THEN MappedRange[i] ELSE bits[i - MappedBits]]
    <3>1. net.fam = "v4" /\ net.len = Len(p) - MappedBits /\ net.addr = rest \o pad
      BY <2>3
    <3>2. PathOf(net) = back
      <4>1. CanonicalPrefix(net).fam = "v4" /\ CanonicalPrefix(net).len = net.len
            /\ CanonicalPrefix(net).bits = bits
        BY <3>1 DEF CanonicalPrefix
      <4>2. CanonicalPrefix(net).fam # "v6"
        BY <4>1
      <4> HIDE DEF bits
      <4> QED BY <4>1, <4>2 DEF PathOf, IpToBits
    <3>3. MappedBits + net.len = Len(p)
      BY <1>1, <3>1
    <3>4. ASSUME NEW i \in 1 .. Len(p) PROVE back[i] = p[i]
      <4>1. CASE i <= MappedBits
        BY <2>1, <3>3, <4>1
      <4>2. CASE ~ (i <= MappedBits)
        <5>1. i - MappedBits \in 1 .. Len(p) - MappedBits /\ MappedBits + (i - MappedBits) = i
          BY <1>1, <4>2
        <5>2. back[i] = bits[i - MappedBits]
          BY <3>3, <4>2
        <5>3. bits[i - MappedBits] = net.addr[i - MappedBits]
          BY <3>1, <5>1
        <5> QED BY <2>2, <2>4, <3>1, <5>1, <5>2, <5>3
      <4> QED BY <4>1, <4>2
    <3>5. back = [i \in 1 .. Len(p) |-> p[i]]
      BY <3>3, <3>4
    <3> QED BY <1>1, <3>2, <3>5
  <2> QED BY <1>5, <2>3, <2>5, <2>6, <2>7 DEF net
<1>6. CASE ~Within(p, MappedRange)
  <2>3. net = [fam |-> "v6", addr |-> p \o pad, len |-> Len(p)]
    BY <1>4, <1>6 DEF BitsToNetwork, pad
  <2> HIDE DEF net
  <2>4. /\ p \o pad \in Seq(Bit) /\ Len(p \o pad) = V6Bits
        /\ \A i \in 1 .. Len(p) : (p \o pad)[i] = p[i]
        /\ \A i \in Len(p) + 1 .. V6Bits : (p \o pad)[i] = 0
    <3>1. p \o pad \in Seq(Bit) /\ Len(p \o pad) = V6Bits
      BY <1>1, <1>2, WidthIsNat
    <3>2. \A i \in 1 .. Len(p) : (p \o pad)[i] = p[i]
      BY <1>1, <1>2, WidthIsNat
    <3>3. ASSUME NEW i \in Len(p) + 1 .. V6Bits PROVE (p \o pad)[i] = 0
      <4>1. i - Len(p) \in 1 .. V6Bits - Len(p) /\ i \in 1 .. Len(p) + Len(pad) /\ i > Len(p)
        BY <1>1, <1>2, WidthIsNat
      <4>2. (p \o pad)[i] = pad[i - Len(p)]
        BY <1>1, <1>2, <4>1
      <4> QED BY <1>2, <4>1, <4>2
    <3> QED BY <3>1, <3>2, <3>3
  <2>5. net \in Network
    <3>1. p \o pad \in [1 .. V6Bits -> Bit]
      <4> DEFINE all == p \o pad
      <4> HIDE DEF all
      <4>1. all \in Seq(Bit) /\ Len(all) = V6Bits
        BY <2>4 DEF all
      <4>2. all \in [1 .. V6Bits -> Bit]
        BY <4>1
      <4> QED BY <4>2 DEF all
    <3>2. Len(p) \in 0 .. V6Bits
      BY <1>1, WidthIsNat
    <3> QED BY <2>3, <3>1, <3>2 DEF Network
  <2>6. IsCanonical(net)
    BY <2>3, <2>4 DEF IsCanonical
  <2>7. PathOf(net) = p
    <3>1. PathOf(net) = [i \in 1 .. Len(p) |-> (p \o pad)[i]]
      BY <2>3 DEF PathOf, IpToBits, CanonicalPrefix
    <3> QED BY <1>1, <2>4, <3>1
  <2> QED BY <1>6, <2>3, <2>5, <2>6, <2>7 DEF net
<1> QED BY <1>5, <1>6

---------------------------------------------------------------------------
(* The entries of the votes of a set. *)
EntryOf(vote) == <<IpToBits(vote[1]), vote[2]>>

(* Whatever order the fold over the winning votes takes, it lists their entries, and
   the map is updated with that list. *)
LEMMA ListOfVotes ==
    ASSUME NEW votes, IsFiniteSet(votes), \A v \in votes : EntryOf(v) \in Entry
    PROVE  \E list \in Seq(Entry) :
              /\ Range(list) = {EntryOf(v) : v \in votes}
              /\ MapOfVotes(votes) = UpdateMulti(EmptyMap, list)
<1> DEFINE V == Seq(Entry)
           List(vote, list) == Append(list, <<IpToBits(vote[1]), vote[2]>>)
           step == [v \in votes |-> [list \in V |-> List(v, list)]]
           Is(f) == f = [s \in SUBSET votes |->
                            IF s = {} THEN << >>
                            ELSE LET x == CHOOSE x \in s : TRUE IN List(x, f[s \ {x}])]
           f == CHOOSE f : Is(f)
<1>1. FoldSet(List, << >>, votes) = f[votes]
  BY DEF FoldSet, MapThenFoldSet
<1>2. MapOfVotes(votes) = UpdateMulti(EmptyMap, f[votes])
  BY <1>1 DEF MapOfVotes
<1>3. << >> \in V /\ step \in [votes -> [V -> V]]
  <2>1. \A v \in votes, list \in V : List(v, list) \in V
    BY DEF EntryOf
  <2> HIDE DEF List
  <2> QED BY <2>1
<1>4. PICK g \in [SUBSET votes -> V] : FoldsSets(g, SUBSET votes, << >>, step)
  <2> HIDE DEF V, step
  <2> QED BY <1>3, SetRecursion
<1>5. \A s \in SUBSET votes : s # {} => Some(s) \in s /\ s \ {Some(s)} \in SUBSET votes
  BY DEF Some
<1>6. ASSUME NEW s \in SUBSET votes
      PROVE  g[s] = IF s = {} THEN << >> ELSE List(Some(s), g[s \ {Some(s)}])
  <2>1. s # {} => Some(s) \in votes /\ g[s \ {Some(s)}] \in V
    BY <1>4, <1>5
  <2> HIDE DEF List, V
  <2>2. s # {} => step[Some(s)][g[s \ {Some(s)}]] = List(Some(s), g[s \ {Some(s)}])
    BY <2>1
  <2> HIDE DEF step
  <2> QED BY <1>4, <2>2 DEF FoldsSets
<1> HIDE DEF List, V, step
<1>7. Is(g)
  BY <1>4, <1>6 DEF Some
<1> HIDE DEF f
<1>8. Is(f)
  BY <1>7, Zenon DEF f
<1>9. \A s \in SUBSET votes : f[s] = IF s = {} THEN << >> ELSE List(Some(s), f[s \ {Some(s)}])
  BY <1>8 DEF Some
<1> HIDE DEF Is
<1> DEFINE T == {s \in SUBSET votes : f[s] \in V /\ Range(f[s]) = {EntryOf(v) : v \in s}}
<1>10. {} \in T
  <2>1. f[{}] = << >>
    BY <1>9
  <2> QED BY <1>3, <2>1, RangeOfOne
<1>11. ASSUME NEW s \in SUBSET votes, s # {}, s \ {Some(s)} \in T PROVE s \in T
  <2> DEFINE rest == s \ {Some(s)}
             e == EntryOf(Some(s))
  <2>1. f[s] = Append(f[rest], e)
    BY <1>9, <1>11 DEF List, EntryOf
  <2>2. f[rest] \in V /\ Range(f[rest]) = {EntryOf(v) : v \in rest}
    BY <1>11
  <2>3. e \in Entry /\ s = rest \cup {Some(s)}
    BY <1>5, <1>11
  <2> HIDE DEF rest, e
  <2>4. f[s] \in V /\ Range(f[s]) = Range(f[rest]) \cup {e}
    <3> DEFINE l == f[rest]
    <3> HIDE DEF l
    <3>1. l \in Seq(Entry)
      BY <2>2 DEF l, V
    <3>2. Append(l, e) = l \o <<e>> /\ <<e>> \in Seq(Entry)
      BY <2>3, <3>1
    <3>3. l \o <<e>> \in Seq(Entry) /\ Range(l \o <<e>>) = Range(l) \cup Range(<<e>>)
      <4> DEFINE one == <<e>>
      <4>1. one \in Seq(Entry)
        BY <3>2
      <4> HIDE DEF one
      <4>2. l \o one \in Seq(Entry) /\ Range(l \o one) = Range(l) \cup Range(one)
        BY ONLY <3>1, <4>1, RangeOfBoth
      <4> QED BY <4>2 DEF one
    <3> QED BY <2>1, <3>2, <3>3, RangeOfOne DEF l, V
  <2> QED BY <2>2, <2>3, <2>4 DEF e
<1> HIDE DEF T
<1>12. votes \in T
  BY <1>10, <1>11, SubsetInduction
<1> QED BY <1>2, <1>12 DEF T, V

---------------------------------------------------------------------------
(* The lines that decode writes, read back: the entries themselves. *)
LEMMA LinesReadBack ==
    ASSUME NEW m, NEW fill, NEW overlapping, ToEntries(m, fill, overlapping) \in Seq(Entry)
    PROVE  LET lines == WrittenLines(m, fill, overlapping)
               entries == ToEntries(m, fill, overlapping)
           IN  /\ ParsedLines(lines) = entries /\ DOMAIN lines = DOMAIN entries
               /\ \A i \in DOMAIN lines : IsCanonical(lines[i][1]) /\ lines[i][2] = entries[i][2]
<1> DEFINE entries == ToEntries(m, fill, overlapping)
           lines == WrittenLines(m, fill, overlapping)
<1>1. lines = [i \in DOMAIN entries |-> <<BitsToNetwork(entries[i][1]), entries[i][2]>>]
  BY DEF WrittenLines
<1> HIDE DEF entries, lines
<1>2. entries \in Seq(Entry)
  BY DEF entries
<1>3. \A i \in DOMAIN entries : entries[i] \in Path \X Nat
  BY <1>2 DEF Entry
<1>4. \A i \in DOMAIN entries :
         lines[i][1] = BitsToNetwork(entries[i][1]) /\ lines[i][2] = entries[i][2]
  BY <1>1
<1>5. \A i \in DOMAIN entries :
         PathOf(lines[i][1]) = entries[i][1] /\ IsCanonical(lines[i][1])
  BY <1>3, <1>4, NetworkOfPath
<1>6. DOMAIN lines = DOMAIN entries
  BY <1>1
<1>7. \A i \in DOMAIN entries : <<PathOf(lines[i][1]), lines[i][2]>> = entries[i]
  BY <1>3, <1>4, <1>5
<1>8. ParsedLines(lines) = [i \in DOMAIN entries |-> entries[i]]
  BY <1>6, <1>7 DEF ParsedLines
<1>9. ParsedLines(lines) = entries
  BY <1>2, <1>8
<1> QED BY <1>4, <1>5, <1>6, <1>9 DEF entries, lines

(* The range of the mapped IPv4 addresses is a path. *)
LEMMA MappedPath == MappedRange \in Path /\ Len(MappedRange) = MappedBits
<1> USE WidthAssumption, MappedRangeAssumption
<1>1. MappedRange \in Seq(Bit) /\ Len(MappedRange) = MappedBits
  OBVIOUS
<1>2. Len(MappedRange) <= V6Bits
  BY <1>1 DEF V6Bits
<1> QED BY <1>1, <1>2, PathIntro

(* Gate 6 refuses the entry of a path exactly if the path contains all of IPv4 or the
   ASN is out of range. *)
LEMMA GateOnEntry ==
    ASSUME NEW p \in Path, NEW asn \in Nat, asn # 0
    PROVE  EntryViolation([ip_prefix |-> BitsToNetwork(p), asn |-> asn]) = Ok
              <=> asn \in Asn /\ ~Within(MappedRange, p)
<1> USE WidthAssumption, MappedRangeAssumption
<1> DEFINE net == BitsToNetwork(p)
           c == CanonicalPrefix(net)
<1>1. /\ net \in Network /\ PathOf(net) = p /\ net.fam \in {"v4", "v6"}
      /\ net.fam = "v4" => Within(p, MappedRange) /\ net.len = Len(p) - MappedBits
      /\ net.fam = "v6" => ~Within(p, MappedRange) /\ net.len = Len(p)
  BY NetworkOfPath
<1>2. Len(MappedRange) = MappedBits /\ Len(p) \in Nat /\ MappedBits \in Nat
  BY MappedPath, PathType
<1> HIDE DEF net
<1>3. c.fam = net.fam /\ c.len = net.len
  BY DEF CanonicalPrefix
<1>4. (net.len = 0 \/ TouchesMappedRange(c)) <=> Within(MappedRange, p)
  <2>1. CASE net.fam = "v4"
    <3>1. ~TouchesMappedRange(c)
      BY <1>3, <2>1 DEF TouchesMappedRange
    <3>2. Within(p, MappedRange) /\ net.len = Len(p) - MappedBits
      BY <1>1, <2>1
    <3>3. net.len = 0 <=> Len(p) = MappedBits
      BY <1>2, <3>2
    <3>4. Within(MappedRange, p) <=> Len(p) = MappedBits
      BY <1>2, <3>2 DEF Within
    <3> QED BY <3>1, <3>3, <3>4
  <2>2. CASE net.fam = "v6"
    <3>1. ~Within(p, MappedRange) /\ net.len = Len(p)
      BY <1>1, <2>2
    <3>2. c.bits = p
      BY <1>1, <1>3, <2>2 DEF PathOf, IpToBits
    <3>3. TouchesMappedRange(c) <=> \A i \in 1 .. MappedBits : i <= Len(p) => p[i] = MappedRange[i]
      BY <1>3, <2>2, <3>1, <3>2 DEF TouchesMappedRange
    <3>4. CASE Len(p) <= MappedBits
      <4>1. TouchesMappedRange(c) <=> \A i \in 1 .. Len(p) : MappedRange[i] = p[i]
        BY <1>2, <3>3, <3>4
      <4>2. Within(MappedRange, p) <=> \A i \in 1 .. Len(p) : MappedRange[i] = p[i]
        BY <1>2, <3>4 DEF Within
      <4>3. Len(p) = 0 => Within(MappedRange, p)
        BY <1>2, <4>2
      <4> QED BY <3>1, <4>1, <4>2, <4>3
    <3>5. CASE Len(p) > MappedBits
      <4>1. ~ Within(MappedRange, p)
        BY <1>2, <3>5 DEF Within
      <4>2. ~ TouchesMappedRange(c)
        BY <1>2, <3>1, <3>3, <3>5 DEF Within
      <4> QED BY <1>2, <3>1, <3>5, <4>1, <4>2
    <3> QED BY <1>2, <3>4, <3>5
  <2> QED BY <1>1, <2>1, <2>2
<1>5. EntryViolation([ip_prefix |-> net, asn |-> asn]) = Ok
         <=> asn \in Asn /\ ~ (net.len = 0 \/ TouchesMappedRange(c))
  BY <1>1 DEF EntryViolation, Ok
<1> QED BY <1>4, <1>5 DEF net

(* A leaf of the map contains all of IPv4 exactly if one AS has it. *)
LEMMA LeafOverIpv4 ==
    ASSUME NEW f \in [Address -> Nat]
    PROVE  (\E e \in Range(EntriesFlat(TrieOf(f), FALSE)) : Within(MappedRange, e[1]))
             <=> \E asn \in {f[a] : a \in Address} \ {0} :
                    \A a \in Address : Covers(MappedRange, a) => f[a] = asn
<1> DEFINE entries == Range(EntriesFlat(TrieOf(f), FALSE))
<1>1. /\ FlatFacts(f, FALSE, << >>, entries) /\ FlatLeaves(f, << >>, entries)
      /\ entries \subseteq Entry
  <2>1. EntriesFlat(TrieOf(f), FALSE) = Flat(f, FALSE)[<< >>]
    BY FlatIsFlat
  <2>2. Flat(f, FALSE)[<< >>] \in Seq(Entry)
    BY EmptyPath, FlatEquation
  <2>3. Range(Flat(f, FALSE)[<< >>]) \subseteq Entry
    BY <2>2, RangeOfBoth
  <2> QED BY <2>1, <2>3, EmptyPath, FlatIsRight, FlatAreLeaves
<1>2. \A e \in entries : e[1] \in Path /\ Len(e[1]) \in Nat
  BY <1>1, PathType DEF Entry
<1>3. PICK a0 \in Address : Covers(MappedRange, a0)
  BY MappedPath, CoversSome
<1> HIDE DEF entries
<1>4. ASSUME NEW e \in entries, Within(MappedRange, e[1])
      PROVE  \E asn \in {f[a] : a \in Address} \ {0} :
                \A a \in Address : Covers(MappedRange, a) => f[a] = asn
  <2>1. e[2] # 0 /\ \A a \in Address : Covers(e[1], a) => f[a] = e[2]
    BY <1>1 DEF FlatFacts
  <2>2. \A a \in Address : Covers(MappedRange, a) => f[a] = e[2]
    BY <1>2, <1>4, <2>1, MappedPath, WithinCovers
  <2>3. f[a0] = e[2]
    BY <1>3, <2>2
  <2> QED BY <2>1, <2>2, <2>3
<1>5. ASSUME NEW asn \in {f[a] : a \in Address} \ {0},
             \A a \in Address : Covers(MappedRange, a) => f[a] = asn
      PROVE  \E e \in entries : Within(MappedRange, e[1])
  <2>1. Covers(<< >>, a0) /\ f[a0] # 0
    BY <1>3, <1>5, EmptyPath, CoversIsPointwise
  <2>2. PICK e \in entries : Covers(e[1], a0)
    BY <1>1, <2>1 DEF FlatFacts
  <2>3. /\ \A i \in 1 .. Len(e[1]) : a0[i] = e[1][i]
        /\ \A i \in 1 .. MappedBits : a0[i] = MappedRange[i]
    BY <1>2, <1>3, <2>2, MappedPath, CoversIsPointwise
  <2>4. MappedBits \in Nat /\ Len(e[1]) \in Nat
    BY <1>2, WidthAssumption
  <2>5. CASE Len(e[1]) <= MappedBits
    BY <2>3, <2>4, <2>5, MappedPath DEF Within
  <2>6. CASE Len(e[1]) > MappedBits
    <3>1. MappedBits \in Len(<< >>) .. Len(e[1]) - 1 /\ MappedBits \in 0 .. Len(e[1])
      BY <2>4, <2>6, EmptyPath
    <3>2. ~IsLeaf(Below(f)[Upto(e[1], MappedBits)])
      BY <1>1, <3>1 DEF FlatLeaves
    <3>3. Upto(e[1], MappedBits) \in Path /\ Len(Upto(e[1], MappedBits)) = MappedBits
          /\ \A i \in 1 .. MappedBits : Upto(e[1], MappedBits)[i] = e[1][i]
      BY <1>2, <3>1, UptoGrows
    <3>4. Upto(e[1], MappedBits) = MappedRange
      <4>1. \A i \in 1 .. MappedBits : Upto(e[1], MappedBits)[i] = MappedRange[i]
        BY <2>3, <2>4, <2>6, <3>3
      <4>2. Upto(e[1], MappedBits) \in Seq(Bit) /\ MappedRange \in Seq(Bit)
            /\ Len(MappedRange) = MappedBits
        BY <3>3, MappedPath, PathType
      <4> QED BY ONLY <3>3, <4>1, <4>2, SeqEqual
    <3>5. Below(f)[MappedRange] = Leaf(asn)
      BY <1>5, MappedPath, UniformIsLeaf
    <3>6. IsLeaf(Leaf(asn))
      BY DEF IsLeaf, Leaf
    <3> QED BY <3>2, <3>4, <3>5, <3>6
  <2> QED BY <2>4, <2>5, <2>6
<1> QED BY <1>4, <1>5 DEF entries

(* The inductive invariant, with the type of what is assigned. *)
TInv == IInv /\ assigned \in [Address -> Nat]

(* Always, the map is canonical and every address has a number assigned. *)
THEOREM TypedInvariant == Spec => []TInv
<1>1. Init => TInv
  <2>1. Init => assigned \in [Address -> Nat]
    BY DEF Init
  <2> QED BY <2>1, InitInvariant DEF TInv
<1>2. TInv /\ [Next]_vars => TInv'
  <2> SUFFICES ASSUME TInv, [Next]_vars PROVE assigned' \in [Address -> Nat]
    BY NextInvariant DEF TInv
  <2>1. CASE UNCHANGED vars
    BY <2>1 DEF vars, TInv
  <2>2. CASE Next
    <3>1. PICK entries \in EntryLists : Assign(entries)
      BY <2>2 DEF Next
    <3>2. entries \in Seq(Path \X Nat)
      BY EntryListsAssumption
    <3>3. assigned \in [Address -> Nat]
      BY DEF TInv
    <3> QED BY <3>1, <3>2, <3>3, AssignedIsNat DEF Assign
  <2> QED BY <2>1, <2>2
<1> QED BY <1>1, <1>2, PTL DEF Spec

(* What the entries of a claim are. *)
LEMMA ClaimOfMap ==
    ASSUME NEW f \in [Address -> Nat]
    PROVE  LET entries == EntriesFlat(TrieOf(f), FALSE)
               claim == ClaimEntries(TrieOf(f))
           IN  /\ entries \in Seq(Entry) /\ FlatFacts(f, FALSE, << >>, Range(entries))
               /\ IsEntryList(claim) /\ DOMAIN claim = DOMAIN entries
               /\ \A i \in DOMAIN entries :
                     claim[i] = [ip_prefix |-> BitsToNetwork(entries[i][1]), asn |-> entries[i][2]]
<1> DEFINE entries == EntriesFlat(TrieOf(f), FALSE)
           claim == ClaimEntries(TrieOf(f))
<1>1. entries = Flat(f, FALSE)[<< >>]
  BY FlatIsFlat
<1>2. entries \in Seq(Entry)
  BY <1>1, EmptyPath, FlatEquation
<1>3. FlatFacts(f, FALSE, << >>, Range(entries))
  BY <1>1, EmptyPath, FlatIsRight
<1>4. claim = [i \in DOMAIN entries |->
                  [ip_prefix |-> BitsToNetwork(entries[i][1]), asn |-> entries[i][2]]]
  BY DEF ClaimEntries, ToEntries
<1> HIDE DEF entries, claim
<1>5. DOMAIN entries = 1 .. Len(entries) /\ Len(entries) \in Nat
  BY <1>2
<1>6. IsEntryList(claim)
  <2>1. DOMAIN claim = 1 .. Len(entries)
    BY <1>4, <1>5
  <2>2. Len(claim) = Len(entries)
    BY <1>4, <1>5, <2>1
  <2> QED BY <1>5, <2>1, <2>2 DEF IsEntryList
<1> QED BY <1>2, <1>3, <1>4, <1>6 DEF entries, claim

(* Gate 6 passes the claim of a map unless all of IPv4 has one AS or an ASN is out of
   range. *)
LEMMA ClaimPasses ==
    ASSUME NEW f \in [Address -> Nat]
    PROVE  LET claim == ClaimEntries(TrieOf(f))
               uniformIpv4 == \E asn \in {f[a] : a \in Address} \ {0} :
                                 \A a \in Address : Covers(MappedRange, a) => f[a] = asn
               outOfRange == \E a \in Address : f[a] # 0 /\ f[a] \notin Asn
           IN  EntriesViolation(claim) = Ok <=> ~uniformIpv4 /\ ~outOfRange
<1> DEFINE entries == EntriesFlat(TrieOf(f), FALSE)
           claim == ClaimEntries(TrieOf(f))
           uniformIpv4 == \E asn \in {f[a] : a \in Address} \ {0} :
                             \A a \in Address : Covers(MappedRange, a) => f[a] = asn
           outOfRange == \E a \in Address : f[a] # 0 /\ f[a] \notin Asn
<1>1. /\ entries \in Seq(Entry) /\ FlatFacts(f, FALSE, << >>, Range(entries))
      /\ IsEntryList(claim) /\ DOMAIN claim = DOMAIN entries
      /\ \A i \in DOMAIN entries :
            claim[i] = [ip_prefix |-> BitsToNetwork(entries[i][1]), asn |-> entries[i][2]]
  BY ClaimOfMap
<1>2. uniformIpv4 <=> \E e \in Range(entries) : Within(MappedRange, e[1])
  BY LeafOverIpv4
<1> HIDE DEF entries, claim, uniformIpv4
<1>3. \A i \in DOMAIN entries : /\ entries[i] \in Range(entries) /\ entries[i][1] \in Path
                                /\ entries[i][2] \in Nat /\ entries[i][2] # 0
  <2>1. \A i \in DOMAIN entries : entries[i] \in Range(entries) /\ entries[i] \in Path \X Nat
    BY <1>1 DEF Entry, Range
  <2> QED BY <1>1, <2>1 DEF FlatFacts
<1>4. ASSUME NEW i \in DOMAIN entries PROVE ~ConflictsWithEarlier(claim, i)
  <2> SUFFICES ASSUME NEW j \in 1 .. i - 1,
                      CanonicalPrefix(claim[j].ip_prefix) = CanonicalPrefix(claim[i].ip_prefix),
                      claim[j].asn # claim[i].asn
               PROVE  FALSE
    BY DEF ConflictsWithEarlier
  <2>1. j \in DOMAIN entries
    BY <1>1
  <2>2. PathOf(BitsToNetwork(entries[j][1])) = PathOf(BitsToNetwork(entries[i][1]))
    BY <1>1, <2>1 DEF PathOf
  <2>3. entries[j][1] = entries[i][1]
    BY <1>3, <2>1, <2>2, NetworkOfPath
  <2>4. entries[j] = entries[i] \/ Apart(entries[j][1], entries[i][1])
    BY <1>1, <1>3, <2>1 DEF FlatFacts
  <2>5. ~ Apart(entries[j][1], entries[i][1])
    BY <1>3, <2>3, CoversSome DEF Apart
  <2> QED BY <1>1, <2>1, <2>4, <2>5
<1>5. \A i \in DOMAIN entries :
         ViolationAt(claim, i) = Ok <=> entries[i][2] \in Asn /\ ~Within(MappedRange, entries[i][1])
  BY <1>1, <1>3, <1>4, GateOnEntry DEF ViolationAt
<1>6. EntriesViolation(claim) = Ok <=> \A i \in DOMAIN entries : ViolationAt(claim, i) = Ok
  BY <1>1, VerdictOkMeansEveryEntryOk DEF EntriesViolation
<1>7. outOfRange <=> \E i \in DOMAIN entries : entries[i][2] \notin Asn
  <2>1. ASSUME NEW i \in DOMAIN entries, entries[i][2] \notin Asn PROVE outOfRange
    <3>1. PICK a \in Address : Covers(entries[i][1], a)
      BY <1>3, CoversSome
    <3>2. f[a] = entries[i][2]
      BY <1>1, <1>3, <3>1 DEF FlatFacts
    <3> QED BY <1>3, <2>1, <3>2
  <2>2. ASSUME NEW a \in Address, f[a] # 0, f[a] \notin Asn
        PROVE  \E i \in DOMAIN entries : entries[i][2] \notin Asn
    <3>1. Covers(<< >>, a)
      BY EmptyPath, CoversIsPointwise
    <3>2. PICK e \in Range(entries) : Covers(e[1], a)
      BY <1>1, <2>2, <3>1 DEF FlatFacts
    <3>3. PICK i \in DOMAIN entries : e = entries[i]
      BY DEF Range
    <3>4. f[a] = entries[i][2]
      BY <1>1, <3>2, <3>3 DEF FlatFacts
    <3> QED BY <2>2, <3>4
  <2> QED BY <2>1, <2>2
<1>8. uniformIpv4 <=> \E i \in DOMAIN entries : Within(MappedRange, entries[i][1])
  BY <1>2 DEF Range
<1> HIDE DEF outOfRange
<1>9. EntriesViolation(claim) = Ok <=> ~uniformIpv4 /\ ~outOfRange
  BY <1>5, <1>6, <1>7, <1>8
<1> QED BY <1>9 DEF claim, uniformIpv4, outOfRange

(* Voted through, the claim of a map becomes that map. *)
LEMMA ClaimGivesMap ==
    ASSUME NEW f \in [Address -> Nat]
    PROVE  MapOfVotes(VoteKeys(ClaimEntries(TrieOf(f)))) = TrieOf(f)
<1> DEFINE entries == EntriesFlat(TrieOf(f), FALSE)
           claim == ClaimEntries(TrieOf(f))
           votes == VoteKeys(claim)
           zeros == [a \in Address |-> 0]
<1>1. /\ entries \in Seq(Entry) /\ IsEntryList(claim) /\ DOMAIN claim = DOMAIN entries
      /\ \A i \in DOMAIN entries :
            claim[i] = [ip_prefix |-> BitsToNetwork(entries[i][1]), asn |-> entries[i][2]]
  BY ClaimOfMap
<1>2. \A a \in Address : Tells(entries, a, 0, f[a])
  BY FlatTells
<1> HIDE DEF entries, claim
<1>3. \A i \in DOMAIN entries : EntryOf(Key(claim[i])) = entries[i] /\ entries[i] \in Entry
  <2> TAKE i \in DOMAIN entries
  <2>1. entries[i] \in Path \X Nat
    BY <1>1 DEF Entry
  <2>2. PathOf(BitsToNetwork(entries[i][1])) = entries[i][1]
    BY <2>1, NetworkOfPath
  <2>3. EntryOf(Key(claim[i])) = <<PathOf(BitsToNetwork(entries[i][1])), entries[i][2]>>
    BY <1>1 DEF EntryOf, Key, PathOf
  <2> QED BY <2>1, <2>2, <2>3 DEF Entry
<1>4. IsFiniteSet(votes)
  <2>1. DOMAIN claim = 1 .. Len(entries) /\ Len(entries) \in Nat
    BY <1>1
  <2>2. IsFiniteSet(DOMAIN claim)
    BY <2>1, FS_Interval
  <2> DEFINE key == [i \in DOMAIN claim |-> Key(claim[i])]
  <2>3. key \in Surjection(DOMAIN claim, votes)
    BY DEF VoteKeys, Surjection
  <2> QED BY <2>2, <2>3, FS_Surjection
<1>5. {EntryOf(v) : v \in votes} = Range(entries)
  <2>1. votes = {Key(claim[i]) : i \in DOMAIN entries}
    BY <1>1 DEF VoteKeys
  <2> HIDE DEF votes
  <2> QED BY <1>3, <2>1 DEF Range
<1>6. \A v \in votes : EntryOf(v) \in Entry
  BY <1>1, <1>3 DEF VoteKeys
<1> HIDE DEF votes
<1>7. PICK list \in Seq(Entry) : /\ Range(list) = {EntryOf(v) : v \in votes}
                                /\ MapOfVotes(votes) = UpdateMulti(EmptyMap, list)
  BY <1>4, <1>6, ListOfVotes
<1>8. \A a \in Address : Tells(list, a, 0, f[a])
  <2>1. \A a \in Address : Over(list, a) = Over(entries, a)
    BY <1>5, <1>7 DEF Over
  <2> QED BY <1>2, <2>1 DEF Tells
<1>9. \A a \in Address : Tells(list, a, zeros[a], f[a])
  BY <1>8
<1>10. zeros \in [Address -> Nat]
  OBVIOUS
<1> HIDE DEF zeros
<1>11. UpdateMulti(TrieOf(zeros), list) = TrieOf(f)
  BY <1>9, <1>10, UpdateTells DEF Entry
<1> QED BY <1>7, <1>11, EmptyIsTrie DEF votes, claim, zeros

(***************************************************************************)
(* Theorem. Always, the claim that a node makes of its own map passes Gate *)
(* 6, unless all of IPv4 has one AS or an ASN is out of range, and the     *)
(* consensus it makes alone is the map (asmap_to_claim, Gate 6 and         *)
(* finalize together).                                                     *)
(***************************************************************************)
THEOREM OwnClaimPasses == Spec => []OwnClaimPassesGateSix
<1>1. TInv => OwnClaimPassesGateSix
  <2> SUFFICES ASSUME TInv PROVE OwnClaimPassesGateSix
    OBVIOUS
  <2>1. map = TrieOf(assigned) /\ assigned \in [Address -> Nat]
    BY DEF TInv, IInv, MapIsCanonical
  <2> QED BY <2>1, ClaimPasses, ClaimGivesMap DEF OwnClaimPassesGateSix
<1> QED BY <1>1, TypedInvariant, PTL

---------------------------------------------------------------------------
(* The walk of diff over the canonical tries of g and f. *)
IsMoves(g, f, moves) ==
    moves = [path \in Path |->
               LET a == NodeAt(TrieOf(g), path)
                   b == NodeAt(TrieOf(f), path)
               IN  IF IsLeaf(a) /\ IsLeaf(b)
                   THEN IF a = b THEN << >> ELSE << <<path, a[1], b[1]>> >>
                   ELSE moves[Append(path, 0)] \o moves[Append(path, 1)]]

Moves(g, f) == CHOOSE moves : IsMoves(g, f, moves)

(* diff is the walk. *)
LEMMA DiffIsMoves == \A g, f : Diff(TrieOf(g), TrieOf(f)) = Moves(g, f)[<< >>]
BY DEF Diff, Moves, IsMoves

(* A path, its old ASN and its new one. *)
Move == Path \X Nat \X Nat

(* The line of two leaves at a path, if they differ. *)
MoveAt(g, f, p) ==
    IF Below(g)[p] = Below(f)[p] THEN << >> ELSE << <<p, Below(g)[p][1], Below(f)[p][1]>> >>

(* Both tries end at the path, or above it. *)
BothLeaves(g, f, p) == IsLeaf(Below(g)[p]) /\ IsLeaf(Below(f)[p])

(* The walk has lists of changes: that of two leaves, and those of the halves. *)
LEMMA MovesEquation ==
    ASSUME NEW g \in [Address -> Nat], NEW f \in [Address -> Nat], NEW p \in Path
    PROVE  /\ Moves(g, f)[p] \in Seq(Move)
           /\ BothLeaves(g, f, p) => Moves(g, f)[p] = MoveAt(g, f, p)
           /\ ~BothLeaves(g, f, p) =>
                 /\ Len(p) # V6Bits
                 /\ Moves(g, f)[p] = Moves(g, f)[Append(p, 0)] \o Moves(g, f)[Append(p, 1)]
<1> DEFINE V == Seq(Move)
           stop == {q \in Path : BothLeaves(g, f, q)}
           ends == [q \in Path |-> IF BothLeaves(g, f, q) THEN MoveAt(g, f, q) ELSE << >>]
           step == [q \in Path |-> [pair \in V \X V |-> pair[1] \o pair[2]]]
<1>1. stop \in SUBSET Path /\ \A q \in Path : Len(q) = V6Bits => q \in stop
  BY AddressIsLeaf DEF BothLeaves
<1>2. ASSUME NEW q \in Path, BothLeaves(g, f, q) PROVE MoveAt(g, f, q) \in V
  <2>1. Below(g)[q][1] \in Nat /\ Below(f)[q][1] \in Nat
    BY <1>2, LeafEntriesType DEF BothLeaves
  <2>2. <<q, Below(g)[q][1], Below(f)[q][1]>> \in Move
    BY <2>1 DEF Move
  <2> QED BY <2>2 DEF MoveAt
<1>3. ends \in [Path -> V]
  BY <1>2
<1>4. step \in [Path -> [V \X V -> V]]
  OBVIOUS
<1> HIDE DEF V, stop, ends, step
<1>5. PICK h \in [Path -> V] : RecursOver(h, Path, stop, ends, step)
  BY <1>1, <1>3, <1>4, PathRecursion
<1>6. \A q \in Path : q \notin stop => Append(q, 0) \in Path /\ Append(q, 1) \in Path
  BY <1>1, PathAppend, PathType, WidthIsNat DEF Bit
<1>7. IsMoves(g, f, h)
  <2> DEFINE again == [path \in Path |->
               LET a == NodeAt(TrieOf(g), path)
                   b == NodeAt(TrieOf(f), path)
               IN  IF IsLeaf(a) /\ IsLeaf(b)
                   THEN IF a = b THEN << >> ELSE << <<path, a[1], b[1]>> >>
                   ELSE h[Append(path, 0)] \o h[Append(path, 1)]]
  <2>1. ASSUME NEW q \in Path PROVE h[q] = again[q]
    <3>1. NodeAt(TrieOf(g), q) = Below(g)[q] /\ NodeAt(TrieOf(f), q) = Below(f)[q]
      BY NodeIsBelow
    <3>2. CASE BothLeaves(g, f, q)
      <4>1. q \in stop /\ h[q] = ends[q]
        BY <1>5, <3>2 DEF RecursOver, stop
      <4>2. h[q] = MoveAt(g, f, q)
        BY <3>2, <4>1 DEF ends
      <4> QED BY <3>1, <3>2, <4>2 DEF MoveAt, BothLeaves
    <3>3. CASE ~BothLeaves(g, f, q)
      <4>1. q \notin stop /\ h[q] = step[q][<<h[Append(q, 0)], h[Append(q, 1)]>>]
        BY <1>5, <3>3 DEF RecursOver, stop
      <4>2. <<h[Append(q, 0)], h[Append(q, 1)]>> \in V \X V
        BY <1>5, <1>6, <4>1
      <4>3. h[q] = h[Append(q, 0)] \o h[Append(q, 1)]
        BY <4>1, <4>2 DEF step
      <4> QED BY <3>1, <3>3, <4>3 DEF BothLeaves
    <3> QED BY <3>2, <3>3
  <2>2. h = again
    BY <1>5, <2>1
  <2> QED BY <2>2 DEF IsMoves
<1>8. IsMoves(g, f, Moves(g, f))
  BY <1>7, Zenon DEF Moves
<1> DEFINE M == Moves(g, f)
<1>9. ASSUME NEW q \in Path
      PROVE  /\ BothLeaves(g, f, q) => M[q] = MoveAt(g, f, q)
             /\ ~BothLeaves(g, f, q) => M[q] = M[Append(q, 0)] \o M[Append(q, 1)]
  BY <1>8, NodeIsBelow DEF IsMoves, BothLeaves, MoveAt
<1> HIDE DEF M
<1> DEFINE T == {q \in Path : M[q] \in V}
<1>10. \A q \in Path : Len(q) = V6Bits => q \in T
  BY <1>1, <1>2, <1>9 DEF stop
<1>11. ASSUME NEW q \in Path, Len(q) # V6Bits, Append(q, 0) \in T, Append(q, 1) \in T
       PROVE  q \in T
  <2>1. M[Append(q, 0)] \o M[Append(q, 1)] \in V
    BY <1>11 DEF V
  <2> QED BY <1>2, <1>9, <2>1
<1> HIDE DEF T
<1>12. p \in T
  BY <1>10, <1>11, PathInduction
<1>13. M[p] \in V
  BY <1>12 DEF T
<1>14. ~BothLeaves(g, f, p) => Len(p) # V6Bits
  BY <1>1 DEF stop
<1> QED BY <1>9, <1>13, <1>14 DEF M, V

(* The changes under a path: each is one, uniform on both sides, nothing is left out
   and no two of them speak of one address. *)
MoveFacts(g, f, p, diff) ==
    /\ \A i \in DOMAIN diff :
          /\ diff[i][1] \in Path /\ Within(diff[i][1], p) /\ diff[i][2] # diff[i][3]
          /\ \A a \in Address : Covers(diff[i][1], a) => g[a] = diff[i][2] /\ f[a] = diff[i][3]
    /\ \A a \in Address : Covers(p, a) /\ g[a] # f[a] => \E i \in DOMAIN diff : Covers(diff[i][1], a)
    /\ \A i, j \in DOMAIN diff : i = j \/ Apart(diff[i][1], diff[j][1])

(* Where an element of two lists one after the other comes from. *)
LEMMA IndexOfBoth ==
    ASSUME NEW S, NEW l \in Seq(S), NEW r \in Seq(S)
    PROVE  /\ \A i \in DOMAIN l : i \in DOMAIN (l \o r) /\ (l \o r)[i] = l[i]
           /\ \A i \in DOMAIN r : Len(l) + i \in DOMAIN (l \o r) /\ (l \o r)[Len(l) + i] = r[i]
           /\ \A i \in DOMAIN (l \o r) : i \in DOMAIN l \/ i - Len(l) \in DOMAIN r
           /\ \A i \in DOMAIN r : i \in Int
           /\ \A i \in DOMAIN (l \o r) : i \in Int /\ Len(l) \in Int
           /\ \A i \in DOMAIN (l \o r) : i - Len(l) \in DOMAIN r => (l \o r)[i] = r[i - Len(l)]
<1>1. /\ Len(l) \in Nat /\ DOMAIN l = 1 .. Len(l) /\ Len(r) \in Nat /\ DOMAIN r = 1 .. Len(r)
      /\ DOMAIN (l \o r) = 1 .. Len(l) + Len(r)
  OBVIOUS
<1>2. \A i \in 1 .. Len(l) : (l \o r)[i] = l[i]
  OBVIOUS
<1>3. \A i \in 1 .. Len(r) : (l \o r)[Len(l) + i] = r[i]
  OBVIOUS
<1>4. \A i \in 1 .. Len(l) + Len(r) : i - Len(l) \in 1 .. Len(r) => (l \o r)[i] = r[i - Len(l)]
  BY <1>1
<1> QED BY ONLY <1>1, <1>2, <1>3, <1>4

(* The facts hold of the walk, from the addresses up. *)
LEMMA MovesAreRight ==
    ASSUME NEW g \in [Address -> Nat], NEW f \in [Address -> Nat], NEW p \in Path
    PROVE  MoveFacts(g, f, p, Moves(g, f)[p])
<1> DEFINE M(q) == Moves(g, f)[q]
           S == {q \in Path : MoveFacts(g, f, q, M(q))}
<1>1. ASSUME NEW q \in Path, BothLeaves(g, f, q) PROVE q \in S
  <2>1. /\ \A a \in Address : Covers(q, a) => Below(g)[q] = Leaf(g[a]) /\ Below(g)[q][1] = g[a]
        /\ \A a \in Address : Covers(q, a) => Below(f)[q] = Leaf(f[a]) /\ Below(f)[q][1] = f[a]
    BY <1>1, LeafIsUniform DEF BothLeaves
  <2>2. M(q) = MoveAt(g, f, q)
    BY <1>1, MovesEquation
  <2>3. PICK a0 \in Address : Covers(q, a0)
    BY CoversSome
  <2> HIDE DEF M
  <2>4. CASE Below(g)[q] = Below(f)[q]
    <3>1. M(q) = << >>
      BY <2>2, <2>4 DEF MoveAt
    <3>2. \A a \in Address : Covers(q, a) => g[a] = f[a]
      BY <2>1, <2>4
    <3> QED BY <3>1, <3>2 DEF MoveFacts
  <2>5. CASE Below(g)[q] # Below(f)[q]
    <3> DEFINE one == <<q, Below(g)[q][1], Below(f)[q][1]>>
    <3>1. M(q) = <<one>>
      BY <2>2, <2>5 DEF MoveAt
    <3>2. Within(q, q)
      BY WithinSelf
    <3>3. one[2] # one[3]
      BY <2>1, <2>3, <2>5
    <3>4. one[1] = q /\ \A a \in Address : Covers(q, a) => g[a] = one[2] /\ f[a] = one[3]
      BY <2>1
    <3> HIDE DEF one
    <3>5. DOMAIN M(q) = {1} /\ M(q)[1] = one
      BY <3>1
    <3> QED BY <3>2, <3>3, <3>4, <3>5 DEF MoveFacts
  <2> QED BY <2>4, <2>5
<1>2. \A q \in Path : Len(q) = V6Bits => q \in S
  BY <1>1, AddressIsLeaf DEF BothLeaves
<1>3. ASSUME NEW q \in Path, Len(q) # V6Bits, Append(q, 0) \in S, Append(q, 1) \in S
      PROVE  q \in S
  <2>1. CASE BothLeaves(g, f, q)
    BY <1>1, <2>1
  <2>2. CASE ~BothLeaves(g, f, q)
    <3> DEFINE lp == Append(q, 0)
               rp == Append(q, 1)
               l == M(lp)
               r == M(rp)
               both == l \o r
    <3>1. /\ lp \in Path /\ rp \in Path
          /\ \A a \in Address : Covers(q, a) <=> Covers(lp, a) \/ Covers(rp, a)
          /\ Apart(lp, rp)
      BY <1>3, HalvesOfPath
    <3>2. MoveFacts(g, f, lp, l) /\ MoveFacts(g, f, rp, r)
      BY <1>3
    <3>3. M(q) = both
      BY <2>2, MovesEquation
    <3>4. l \in Seq(Move) /\ r \in Seq(Move)
      BY <3>1, MovesEquation
    <3> HIDE DEF M, l, r
    <3>5. /\ \A i \in DOMAIN l : i \in DOMAIN both /\ both[i] = l[i]
          /\ \A i \in DOMAIN r : Len(l) + i \in DOMAIN both /\ both[Len(l) + i] = r[i]
          /\ \A i \in DOMAIN both : i \in DOMAIN l \/ i - Len(l) \in DOMAIN r
          /\ \A i \in DOMAIN both : i \in Int /\ Len(l) \in Int
          /\ \A i \in DOMAIN both : i - Len(l) \in DOMAIN r => both[i] = r[i - Len(l)]
      BY <3>4, IndexOfBoth
    <3>6. /\ \A i \in DOMAIN l : l[i][1] \in Path /\ Within(l[i][1], lp) /\ Within(l[i][1], q)
          /\ \A i \in DOMAIN r : r[i][1] \in Path /\ Within(r[i][1], rp) /\ Within(r[i][1], q)
      BY <1>3, <3>2, WithinHalf DEF MoveFacts, Bit
    <3> HIDE DEF both, lp, rp
    <3>7. \A i \in DOMAIN l, j \in DOMAIN r : Apart(l[i][1], r[j][1]) /\ Apart(r[j][1], l[i][1])
      <4> TAKE i \in DOMAIN l, j \in DOMAIN r
      <4>1. \A a \in Address : /\ Covers(l[i][1], a) => Covers(lp, a)
                               /\ Covers(r[j][1], a) => Covers(rp, a)
        BY <3>1, <3>6, WithinCovers
      <4> QED BY <3>1, <4>1 DEF Apart
    <3>8. \A i \in DOMAIN both :
             /\ both[i][1] \in Path /\ Within(both[i][1], q) /\ both[i][2] # both[i][3]
             /\ \A a \in Address : Covers(both[i][1], a) => g[a] = both[i][2] /\ f[a] = both[i][3]
      BY <3>2, <3>5, <3>6 DEF MoveFacts
    <3>9. \A a \in Address :
             Covers(q, a) /\ g[a] # f[a] => \E i \in DOMAIN both : Covers(both[i][1], a)
      <4> SUFFICES ASSUME NEW a \in Address, Covers(q, a), g[a] # f[a]
                   PROVE  \E i \in DOMAIN both : Covers(both[i][1], a)
        OBVIOUS
      <4>1. CASE Covers(lp, a)
        BY <3>2, <3>5, <4>1 DEF MoveFacts
      <4>2. CASE Covers(rp, a)
        BY <3>2, <3>5, <4>2 DEF MoveFacts
      <4> QED BY <3>1, <4>1, <4>2
    <3>10. \A i, j \in DOMAIN both : i = j \/ Apart(both[i][1], both[j][1])
      <4> SUFFICES ASSUME NEW i \in DOMAIN both, NEW j \in DOMAIN both, i # j
                   PROVE  Apart(both[i][1], both[j][1])
        OBVIOUS
      <4>1. i \in Int /\ j \in Int /\ Len(l) \in Int
        BY <3>5
      <4>2. i - Len(l) # j - Len(l)
        BY <4>1
      <4>3. CASE i \in DOMAIN l /\ j \in DOMAIN l
        BY <3>2, <3>5, <4>3 DEF MoveFacts
      <4>4. CASE i \in DOMAIN l /\ j - Len(l) \in DOMAIN r
        BY <3>5, <3>7, <4>4
      <4>5. CASE i - Len(l) \in DOMAIN r /\ j \in DOMAIN l
        BY <3>5, <3>7, <4>5
      <4>6. CASE i - Len(l) \in DOMAIN r /\ j - Len(l) \in DOMAIN r
        <5>1. Apart(r[i - Len(l)][1], r[j - Len(l)][1])
          BY <3>2, <4>2, <4>6 DEF MoveFacts
        <5> QED BY <3>5, <4>6, <5>1
      <4> QED BY <3>5, <4>3, <4>4, <4>5, <4>6
    <3>11. MoveFacts(g, f, q, both)
      BY <3>8, <3>9, <3>10 DEF MoveFacts
    <3> QED BY <3>3, <3>11
  <2> QED BY <2>1, <2>2
<1> HIDE DEF S
<1>4. p \in S
  BY <1>2, <1>3, PathInduction
<1> QED BY <1>4 DEF S

---------------------------------------------------------------------------
(* The addresses under a path. *)
Cell(p) == {a \in Address : Covers(p, a)}

(* There are 2^n addresses under a path with n bits to go. *)
LEMMA CellSize ==
    ASSUME NEW p \in Path
    PROVE  /\ IsFiniteSet(Cell(p)) /\ V6Bits - Len(p) \in Nat
           /\ Cardinality(Cell(p)) = Room(V6Bits - Len(p))
<1> DEFINE S == {q \in Path : IsFiniteSet(Cell(q)) /\ Cardinality(Cell(q)) = Room(V6Bits - Len(q))}
<1>1. ASSUME NEW q \in Path, Len(q) = V6Bits PROVE q \in S
  <2>1. Cell(q) = {q}
    BY <1>1, CoversSelf DEF Cell
  <2>2. Room(V6Bits - Len(q)) = 1
    BY <1>1, WidthIsNat, RoomDoubles
  <2> QED BY <2>1, <2>2, FS_Singleton
<1>2. ASSUME NEW q \in Path, Len(q) # V6Bits, Append(q, 0) \in S, Append(q, 1) \in S
      PROVE  q \in S
  <2> DEFINE l == Append(q, 0)
             r == Append(q, 1)
             b == V6Bits - (Len(q) + 1)
  <2>1. /\ l \in Path /\ r \in Path
        /\ \A a \in Address : Covers(q, a) <=> Covers(l, a) \/ Covers(r, a)
        /\ Apart(l, r)
    BY <1>2, HalvesOfPath
  <2>2. Len(l) = Len(q) + 1 /\ Len(r) = Len(q) + 1 /\ b \in Nat /\ V6Bits - Len(q) = b + 1
    BY <1>2, PathAppend, PathType, WidthIsNat DEF Bit
  <2>3. Cell(q) = Cell(l) \cup Cell(r) /\ Cell(l) \cap Cell(r) = {}
    BY <2>1 DEF Cell, Apart
  <2>4. /\ IsFiniteSet(Cell(l)) /\ Cardinality(Cell(l)) = Room(b)
        /\ IsFiniteSet(Cell(r)) /\ Cardinality(Cell(r)) = Room(b)
    BY <1>2, <2>2
  <2> HIDE DEF l, r, b
  <2>5. /\ IsFiniteSet(Cell(q))
        /\ Cardinality(Cell(q)) = Room(b) + Room(b) - Cardinality({})
    BY <2>3, <2>4, FS_Union
  <2>6. Room(b + 1) = 2 * Room(b) /\ Room(b) \in Nat
    BY <2>2, RoomDoubles
  <2>7. Cardinality(Cell(q)) = Room(b + 1)
    BY <2>5, <2>6, FS_EmptySet
  <2> QED BY <2>2, <2>5, <2>7
<1> HIDE DEF S
<1>3. p \in S
  BY <1>1, <1>2, PathInduction
<1> QED BY <1>3, PathType, WidthIsNat DEF S

(* And 2^V6Bits in all. *)
LEMMA AddressCount ==
    /\ IsFiniteSet(Address) /\ Cardinality(Address) = Room(V6Bits)
    /\ Room(V6Bits) \in Nat \ {0} /\ U128Max = Room(V6Bits) - 1
<1>1. \A a \in Address : Covers(<< >>, a)
  BY EmptyPath, CoversIsPointwise
<1>2. Cell(<< >>) = Address
  BY <1>1 DEF Cell
<1>3. V6Bits - Len(<< >>) = V6Bits
  BY EmptyPath, WidthIsNat
<1> QED BY <1>2, <1>3, EmptyPath, CellSize, RoomDoubles, WidthIsNat DEF U128Max

(* What a change adds to the total of a family. *)
Counted(d, ignore, fam) ==
    IF BitsToNetwork(d[1]).fam # fam \/ (ignore /\ d[2] = 0)
    THEN 0 ELSE NetworkAddressCount(BitsToNetwork(d[1]))

(* A line counts the addresses under its path, to one family only, but for one too few
   at the root. *)
LEMMA CountOfPath ==
    ASSUME NEW p \in Path
    PROVE  LET net == BitsToNetwork(p) IN
           /\ net.fam \in {"v4", "v6"} /\ NetworkAddressCount(net) \in Nat
           /\ p # << >> => NetworkAddressCount(net) = Cardinality(Cell(p))
           /\ p = << >> => net.fam = "v6" /\ NetworkAddressCount(net) = U128Max
<1> DEFINE net == BitsToNetwork(p)
<1>1. /\ net.fam \in {"v4", "v6"}
      /\ net.fam = "v4" => Within(p, MappedRange) /\ net.len = Len(p) - MappedBits
      /\ net.fam = "v6" => ~Within(p, MappedRange) /\ net.len = Len(p)
  BY NetworkOfPath
<1> HIDE DEF net
<1>2. /\ Len(p) \in Nat /\ V4Bits \in Nat /\ MappedBits \in Nat \ {0} /\ V6Bits = MappedBits + V4Bits
      /\ V6Bits - Len(p) \in Nat /\ Cardinality(Cell(p)) = Room(V6Bits - Len(p))
      /\ Room(V6Bits - Len(p)) \in Nat
  BY PathType, WidthAssumption, CellSize, RoomDoubles DEF V6Bits
<1>3. p = << >> <=> Len(p) = 0
  BY PathType
<1>4. Room(V6Bits) \in Nat \ {0} /\ U128Max = Room(V6Bits) - 1
  BY AddressCount
<1>5. CASE net.fam = "v4"
  <2>1. MappedBits <= Len(p)
    BY <1>1, <1>5, MappedPath DEF Within
  <2>2. V4Bits - net.len = V6Bits - Len(p)
    BY <1>1, <1>2, <1>5
  <2>3. NetworkAddressCount(net) = Room(V6Bits - Len(p))
    BY <1>5, <2>2 DEF NetworkAddressCount
  <2>4. Len(p) # 0
    BY <1>2, <2>1
  <2> QED BY <1>1, <1>2, <1>3, <2>3, <2>4 DEF net
<1>6. CASE net.fam = "v6"
  <2>1. NetworkAddressCount(net) = IF Len(p) = 0 THEN U128Max ELSE Room(V6Bits - Len(p))
    BY <1>1, <1>6 DEF NetworkAddressCount
  <2> QED BY <1>1, <1>2, <1>3, <1>4, <1>6, <2>1 DEF net
<1> QED BY <1>1, <1>5, <1>6

(* The partial sums of a total. *)
SumsUp(sums, g, f, ignore, fam) ==
    LET diff == Moves(g, f)[<< >>] IN
    /\ sums \in [0 .. Len(diff) -> Nat] /\ sums[0] = 0
    /\ \A k \in 1 .. Len(diff) : sums[k] = sums[k - 1] + Counted(diff[k], ignore, fam)
    /\ ChangedCount(TrieOf(g), TrieOf(f), ignore, fam) = sums[Len(diff)]

(* A total is the sum of what the lines count. *)
LEMMA CountUnfolds ==
    ASSUME NEW g \in [Address -> Nat], NEW f \in [Address -> Nat], NEW ignore \in BOOLEAN, NEW fam
    PROVE  \E sums : SumsUp(sums, g, f, ignore, fam)
<1> DEFINE diff == Moves(g, f)[<< >>]
           n == Len(diff)
           base == 0
           Fold(sum, d) == IF BitsToNetwork(d[1]).fam # fam \/ (ignore /\ d[2] = 0)
                           THEN sum ELSE sum + NetworkAddressCount(BitsToNetwork(d[1]))
           step == [k \in 1 .. n |-> [sum \in Nat |-> Fold(sum, diff[k])]]
           Is(h) == h = [s \in SUBSET (1 .. n) |->
                            IF s = {} THEN base ELSE Fold(h[s \ {Max(s)}], diff[Max(s)])]
           h == CHOOSE h : Is(h)
           count == ChangedCount(TrieOf(g), TrieOf(f), ignore, fam)
<1>1. diff \in Seq(Move) /\ Diff(TrieOf(g), TrieOf(f)) = diff
  BY EmptyPath, MovesEquation, DiffIsMoves
<1> HIDE DEF diff
<1>2. n \in Nat /\ DOMAIN diff = 1 .. n /\ \A k \in 1 .. n : diff[k] \in Move
  BY <1>1
<1>3. \A k \in 1 .. n : NetworkAddressCount(BitsToNetwork(diff[k][1])) \in Nat
  BY <1>2, CountOfPath DEF Move
<1>4. count = h[1 .. n]
  BY <1>1, <1>2 DEF ChangedCount, FoldLeft, MapThenFoldSet
<1> HIDE DEF n, count
<1>5. ASSUME NEW sum \in Nat, NEW k \in 1 .. n
      PROVE  Fold(sum, diff[k]) \in Nat /\ Fold(sum, diff[k]) = sum + Counted(diff[k], ignore, fam)
  BY <1>3 DEF Counted
<1>6. step \in [1 .. n -> [Nat -> Nat]] /\ base \in Nat
  <2> HIDE DEF Fold
  <2> QED BY <1>5
<1> HIDE DEF step, base
<1>7. PICK sums \in [SUBSET (1 .. n) -> Nat] :
        \A s \in SUBSET (1 .. n) :
           sums[s] = IF s = {} THEN base ELSE step[Max(s)][sums[s \ {Max(s)}]]
  <2>1. \E sums \in [SUBSET (1 .. n) -> Nat] : FoldsOver(sums, n, base, step)
    BY <1>2, <1>6, FoldRecursion
  <2> QED BY <2>1 DEF FoldsOver
<1>8. Is(sums)
  <2> DEFINE again == [s \in SUBSET (1 .. n) |->
                          IF s = {} THEN base ELSE Fold(sums[s \ {Max(s)}], diff[Max(s)])]
  <2>1. ASSUME NEW s \in SUBSET (1 .. n) PROVE sums[s] = again[s]
    <3>1. CASE s = {}
      BY <1>7, <3>1
    <3>2. CASE s # {}
      <4>1. Max(s) \in 1 .. n
        BY <1>2, <3>2, MaxOfSome
      <4>2. sums[s \ {Max(s)}] \in Nat
        BY <1>7
      <4>3. step[Max(s)][sums[s \ {Max(s)}]] = Fold(sums[s \ {Max(s)}], diff[Max(s)])
        BY <4>1, <4>2 DEF step
      <4> QED BY <1>7, <3>2, <4>3
    <3> QED BY <3>1, <3>2
  <2>2. sums = again
    BY <1>7, <2>1
  <2> QED BY <2>2
<1>9. Is(h)
  BY <1>8, Zenon DEF h
<1> HIDE DEF h
<1> DEFINE c == [k \in 0 .. n |-> h[1 .. k]]
<1>10. ASSUME NEW k \in 1 .. n PROVE h[1 .. k] = Fold(h[1 .. k - 1], diff[k])
  <2>1. k \in Nat \ {0} /\ 1 .. k \in SUBSET (1 .. n)
    BY <1>2
  <2>2. Max(1 .. k) = k /\ (1 .. k) \ {k} = 1 .. k - 1 /\ 1 .. k # {}
    BY <2>1, LastOfInterval
  <2> HIDE DEF Fold
  <2>3. h[1 .. k] = IF 1 .. k = {} THEN base
                    ELSE Fold(h[(1 .. k) \ {Max(1 .. k)}], diff[Max(1 .. k)])
    BY <1>9, <2>1
  <2> QED BY <2>2, <2>3
<1>11. h[1 .. 0] = 0
  <2>1. 1 .. 0 = {} /\ {} \in SUBSET (1 .. n)
    OBVIOUS
  <2> QED BY <1>9, <2>1 DEF base
<1> DEFINE T == {k \in 0 .. n : h[1 .. k] \in Nat}
<1>12. \A k \in 0 .. n : k \in T
  <2>1. 0 \in T
    BY <1>2, <1>11
  <2>2. ASSUME NEW k \in 1 .. n, k - 1 \in T PROVE k \in T
    BY <1>5, <1>10, <2>2
  <2> HIDE DEF T
  <2> QED BY ONLY <1>2, <2>1, <2>2, IntervalInduction
<1>13. c \in [0 .. n -> Nat] /\ c[0] = 0 /\ count = c[n]
  BY <1>2, <1>4, <1>11, <1>12
<1>14. ASSUME NEW k \in 1 .. n PROVE c[k] = c[k - 1] + Counted(diff[k], ignore, fam)
  <2>1. k - 1 \in 0 .. n /\ k \in 0 .. n
    BY <1>2
  <2>2. h[1 .. k - 1] \in Nat
    BY <1>12, <2>1
  <2> QED BY <1>5, <1>10, <2>1, <2>2
<1> HIDE DEF c
<1>15. SumsUp(c, g, f, ignore, fam)
  BY <1>13, <1>14 DEF SumsUp, diff, n, count
<1> QED BY <1>15

(* The addresses whose ASN differs. *)
Differ(g, f, ignore) == {a \in Address : g[a] # f[a] /\ ~(ignore /\ g[a] = 0)}

(* Below the root the totals of both families add up to the number of addresses whose
   ASN changed. *)
LEMMA TotalOfMoves ==
    ASSUME NEW g \in [Address -> Nat], NEW f \in [Address -> Nat], NEW ignore \in BOOLEAN,
           \A i \in DOMAIN Moves(g, f)[<< >>] : Moves(g, f)[<< >>][i][1] # << >>
    PROVE  /\ ChangedCount(TrieOf(g), TrieOf(f), ignore, "v4") \in Nat
           /\ ChangedCount(TrieOf(g), TrieOf(f), ignore, "v6") \in Nat
           /\ ChangedCount(TrieOf(g), TrieOf(f), ignore, "v4")
                + ChangedCount(TrieOf(g), TrieOf(f), ignore, "v6")
              = Cardinality(Differ(g, f, ignore))
<1> DEFINE diff == Moves(g, f)[<< >>]
           n == Len(diff)
           Skip(k) == ignore /\ diff[k][2] = 0
           Done(k) == {a \in Address : \E i \in 1 .. k : Covers(diff[i][1], a) /\ ~Skip(i)}
<1>0. g \in [Address -> Nat] /\ f \in [Address -> Nat] /\ ignore \in BOOLEAN
  OBVIOUS
<1>1. diff \in Seq(Move) /\ MoveFacts(g, f, << >>, diff)
  BY EmptyPath, MovesEquation, MovesAreRight
<1>2. PICK c4 : SumsUp(c4, g, f, ignore, "v4")
  BY CountUnfolds
<1>3. PICK c6 : SumsUp(c6, g, f, ignore, "v6")
  BY CountUnfolds
<1> DEFINE Expanded(c, fam) ==
              /\ c \in [0 .. n -> Nat] /\ c[0] = 0
              /\ \A k \in 1 .. n : c[k] = c[k - 1] + Counted(diff[k], ignore, fam)
              /\ ChangedCount(TrieOf(g), TrieOf(f), ignore, fam) = c[n]
<1>20. Expanded(c4, "v4") /\ Expanded(c6, "v6")
  BY <1>2, <1>3 DEF SumsUp
<1>4. \A k \in DOMAIN diff : diff[k][1] # << >>
  OBVIOUS
<1> HIDE DEF diff
<1>5. n \in Nat /\ DOMAIN diff = 1 .. n /\ \A k \in 1 .. n : diff[k] \in Move
  BY <1>1
<1> HIDE DEF n
<1>6. ASSUME NEW k \in 1 .. n
      PROVE  /\ diff[k][1] \in Path /\ IsFiniteSet(Cell(diff[k][1]))
             /\ Counted(diff[k], ignore, "v4") \in Nat /\ Counted(diff[k], ignore, "v6") \in Nat
             /\ Counted(diff[k], ignore, "v4") + Counted(diff[k], ignore, "v6")
                  = IF Skip(k) THEN 0 ELSE Cardinality(Cell(diff[k][1]))
  <2>1. diff[k][1] \in Path /\ diff[k][1] # << >>
    BY <1>1, <1>4, <1>5 DEF MoveFacts
  <2> DEFINE net == BitsToNetwork(diff[k][1])
  <2>2. /\ net.fam \in {"v4", "v6"} /\ NetworkAddressCount(net) \in Nat
        /\ NetworkAddressCount(net) = Cardinality(Cell(diff[k][1]))
    BY <2>1, CountOfPath
  <2>3. \A fam : Counted(diff[k], ignore, fam) = IF net.fam # fam \/ Skip(k)
                                                 THEN 0 ELSE NetworkAddressCount(net)
    BY DEF Counted
  <2>4. IsFiniteSet(Cell(diff[k][1]))
    BY <2>1, CellSize
  <2>5. IsFiniteSet(Cell(diff[k][1])) => Cardinality(Cell(diff[k][1])) \in Nat
    BY FS_CardinalityType
  <2> HIDE DEF net, Skip
  <2>6. CASE Skip(k)
    <3>1. Counted(diff[k], ignore, "v4") = 0 /\ Counted(diff[k], ignore, "v6") = 0
      BY <2>3, <2>6
    <3> QED BY <2>1, <2>4, <2>6, <3>1
  <2>7. CASE ~Skip(k) /\ net.fam = "v4"
    <3>1. Counted(diff[k], ignore, "v4") = NetworkAddressCount(net) /\ Counted(diff[k], ignore, "v6") = 0
      BY <2>3, <2>7
    <3> QED BY <2>1, <2>2, <2>4, <2>7, <3>1
  <2>8. CASE ~Skip(k) /\ net.fam = "v6"
    <3>1. Counted(diff[k], ignore, "v4") = 0 /\ Counted(diff[k], ignore, "v6") = NetworkAddressCount(net)
      BY <2>3, <2>8
    <3> QED BY <2>1, <2>2, <2>4, <2>8, <3>1
  <2> QED BY <2>2, <2>6, <2>7, <2>8
<1> DEFINE T == {k \in 0 .. n : IsFiniteSet(Done(k)) /\ Cardinality(Done(k)) = c4[k] + c6[k]}
<1>7. 0 \in T
  <2>1. Done(0) = {}
    OBVIOUS
  <2>2. c4[0] + c6[0] = 0 /\ 0 \in 0 .. n
    BY <1>20, <1>5
  <2> HIDE DEF Done
  <2> QED BY ONLY <2>1, <2>2, FS_EmptySet DEF T
<1>8. ASSUME NEW k \in 1 .. n, k - 1 \in T PROVE k \in T
  <2> DEFINE new == IF Skip(k) THEN {} ELSE Cell(diff[k][1])
  <2>1. k \in Nat /\ k - 1 \in 0 .. n /\ \A i : i \in 1 .. k <=> i \in 1 .. k - 1 \/ i = k
    BY <1>5
  <2>2. Done(k) = Done(k - 1) \cup new
    BY <2>1 DEF Cell
  <2>3. Done(k - 1) \cap new = {}
    <3>1. ASSUME NEW a \in Done(k - 1), a \in Cell(diff[k][1]) PROVE FALSE
      <4>1. PICK i \in 1 .. k - 1 : Covers(diff[i][1], a)
        OBVIOUS
      <4>2. i # k /\ i \in DOMAIN diff /\ k \in DOMAIN diff
        BY <1>5, <2>1
      <4>3. Apart(diff[i][1], diff[k][1])
        BY <1>1, <4>2 DEF MoveFacts
      <4> QED BY <3>1, <4>1, <4>3 DEF Apart, Cell
    <3> QED BY <3>1
  <2>4. IsFiniteSet(new) /\ Cardinality(new) = IF Skip(k) THEN 0 ELSE Cardinality(Cell(diff[k][1]))
    BY <1>6, FS_EmptySet
  <2>5. IsFiniteSet(Done(k - 1)) /\ Cardinality(Done(k - 1)) = c4[k - 1] + c6[k - 1]
    BY <1>8
  <2>6. /\ Counted(diff[k], ignore, "v4") \in Nat /\ Counted(diff[k], ignore, "v6") \in Nat
        /\ Counted(diff[k], ignore, "v4") + Counted(diff[k], ignore, "v6") = Cardinality(new)
    BY <1>6, <2>4
  <2>7. c4[k] = c4[k - 1] + Counted(diff[k], ignore, "v4")
        /\ c6[k] = c6[k - 1] + Counted(diff[k], ignore, "v6")
    BY <1>20
  <2>8. c4[k - 1] \in Nat /\ c6[k - 1] \in Nat
    BY <1>20, <2>1
  <2> HIDE DEF Done, new, Skip
  <2>9. IsFiniteSet(Done(k)) /\ Cardinality(Done(k)) = Cardinality(Done(k - 1)) + Cardinality(new)
    <3>1. /\ IsFiniteSet(Done(k - 1) \cup new)
          /\ Cardinality(Done(k - 1) \cup new)
               = Cardinality(Done(k - 1)) + Cardinality(new) - Cardinality({})
      <4>1. IsFiniteSet(Done(k - 1)) /\ IsFiniteSet(new)
        BY <2>4, <2>5
      <4>2. Done(k - 1) \cap new = {}
        BY <2>3
      <4> HIDE DEF T
      <4> QED BY ONLY <4>1, <4>2, FS_Union
    <3>2. Cardinality(new) \in Nat /\ Cardinality(Done(k - 1)) \in Nat
      BY <2>4, <2>5, FS_CardinalityType
    <3> QED BY <2>2, <3>1, <3>2, FS_EmptySet
  <2> QED BY <2>5, <2>6, <2>7, <2>8, <2>9
<1>9. \A k \in 0 .. n : k \in T
  <2> HIDE DEF T
  <2> QED BY ONLY <1>5, <1>7, <1>8, IntervalInduction
<1>10. Cardinality(Done(n)) = c4[n] + c6[n]
  <2>1. n \in 0 .. n
    BY <1>5
  <2> HIDE DEF Done
  <2> QED BY <1>9, <2>1
<1>11. Done(n) = Differ(g, f, ignore)
  <2>1. \A a \in Address : Covers(<< >>, a)
    BY EmptyPath, CoversIsPointwise
  <2>2. ASSUME NEW a \in Done(n) PROVE a \in Differ(g, f, ignore)
    <3>1. PICK i \in 1 .. n : Covers(diff[i][1], a) /\ ~Skip(i)
      OBVIOUS
    <3>2. g[a] = diff[i][2] /\ f[a] = diff[i][3] /\ diff[i][2] # diff[i][3]
      BY <1>1, <1>5, <3>1 DEF MoveFacts
    <3> QED BY <3>1, <3>2 DEF Differ
  <2>3. ASSUME NEW a \in Differ(g, f, ignore) PROVE a \in Done(n)
    <3>1. PICK i \in DOMAIN diff : Covers(diff[i][1], a)
      BY <1>1, <2>1, <2>3 DEF MoveFacts, Differ
    <3>2. g[a] = diff[i][2]
      BY <1>1, <2>3, <3>1 DEF MoveFacts, Differ
    <3> QED BY <1>5, <2>3, <3>1, <3>2 DEF Differ
  <2> HIDE DEF Done
  <2> QED BY <2>2, <2>3
<1>12. c4[n] \in Nat /\ c6[n] \in Nat
  BY <1>20, <1>5
<1> QED BY <1>20, <1>10, <1>11, <1>12

(* A change of the whole map in one piece. *)
LEMMA TotalAtRoot ==
    ASSUME NEW g \in [Address -> Nat], NEW f \in [Address -> Nat],
           NEW ignore \in BOOLEAN, ~ignore,
           NEW i \in DOMAIN Moves(g, f)[<< >>], Moves(g, f)[<< >>][i][1] = << >>
    PROVE  /\ ChangedCount(TrieOf(g), TrieOf(f), ignore, "v4") = 0
           /\ ChangedCount(TrieOf(g), TrieOf(f), ignore, "v6") = U128Max
<1> DEFINE diff == Moves(g, f)[<< >>]
           n == Len(diff)
<1>0. g \in [Address -> Nat] /\ f \in [Address -> Nat] /\ ignore \in BOOLEAN
  OBVIOUS
<1>1. diff \in Seq(Move) /\ MoveFacts(g, f, << >>, diff)
  BY EmptyPath, MovesEquation, MovesAreRight
<1>2. PICK c4 : SumsUp(c4, g, f, ignore, "v4")
  BY CountUnfolds
<1>3. PICK c6 : SumsUp(c6, g, f, ignore, "v6")
  BY CountUnfolds
<1> DEFINE Expanded(c, fam) ==
              /\ c \in [0 .. n -> Nat] /\ c[0] = 0
              /\ \A k \in 1 .. n : c[k] = c[k - 1] + Counted(diff[k], ignore, fam)
              /\ ChangedCount(TrieOf(g), TrieOf(f), ignore, fam) = c[n]
<1>20. Expanded(c4, "v4") /\ Expanded(c6, "v6")
  BY <1>2, <1>3 DEF SumsUp
<1>4. i \in DOMAIN diff /\ diff[i][1] = << >>
  OBVIOUS
<1> HIDE DEF diff
<1>5. n \in Nat /\ DOMAIN diff = 1 .. n
  BY <1>1
<1>6. \A j \in DOMAIN diff : j = i
  <2> SUFFICES ASSUME NEW j \in DOMAIN diff, j # i PROVE FALSE
    OBVIOUS
  <2>1. diff[j][1] \in Path /\ Apart(diff[j][1], << >>)
    BY <1>1, <1>4 DEF MoveFacts
  <2>2. \A a \in Address : Covers(<< >>, a)
    BY EmptyPath, CoversIsPointwise
  <2> QED BY <2>1, <2>2, CoversSome DEF Apart
<1> HIDE DEF n
<1>7. n = 1 /\ i = 1
  <2>1. 1 \in 1 .. n /\ n \in 1 .. n
    BY <1>4, <1>5
  <2> QED BY <1>5, <1>6, <2>1
<1>8. /\ Counted(diff[1], ignore, "v4") = 0
      /\ Counted(diff[1], ignore, "v6") = U128Max
  <2>1. BitsToNetwork(diff[1][1]).fam = "v6" /\ NetworkAddressCount(BitsToNetwork(diff[1][1])) = U128Max
    BY <1>4, <1>7, EmptyPath, CountOfPath
  <2> QED BY <2>1 DEF Counted
<1>9. U128Max \in Nat
  BY AddressCount
<1>10. c4[1] = c4[0] + 0 /\ c6[1] = c6[0] + U128Max
  <2>1. 1 \in 1 .. n
    BY <1>7
  <2>2. c4[1] = c4[1 - 1] + Counted(diff[1], ignore, "v4")
        /\ c6[1] = c6[1 - 1] + Counted(diff[1], ignore, "v6")
    BY <1>20, <2>1
  <2>3. 1 - 1 = 0
    OBVIOUS
  <2> QED BY <1>8, <2>2, <2>3
<1>11. c4[1] = 0 /\ c6[1] = U128Max
  BY <1>20, <1>9, <1>10
<1> QED BY <1>20, <1>7, <1>11

(* The lines of diff, applied as entries, turn either map into the other. *)
LEMMA DiffIsPatch ==
    ASSUME NEW g \in [Address -> Nat], NEW f \in [Address -> Nat]
    PROVE  LET diff == Diff(TrieOf(g), TrieOf(f))
               patch(column) == [i \in DOMAIN diff |-> <<diff[i][1], diff[i][column]>>]
           IN  /\ UpdateMulti(TrieOf(g), patch(3)) = TrieOf(f)
               /\ UpdateMulti(TrieOf(f), patch(2)) = TrieOf(g)
<1> DEFINE diff == Diff(TrieOf(g), TrieOf(f))
           forth == [i \in DOMAIN diff |-> <<diff[i][1], diff[i][3]>>]
           back == [i \in DOMAIN diff |-> <<diff[i][1], diff[i][2]>>]
<1>1. diff \in Seq(Move) /\ MoveFacts(g, f, << >>, diff)
  <2>1. diff = Moves(g, f)[<< >>]
    BY DiffIsMoves
  <2> HIDE DEF diff
  <2> QED BY <2>1, EmptyPath, MovesEquation, MovesAreRight
<1> HIDE DEF diff
<1>2. /\ DOMAIN diff = 1 .. Len(diff) /\ Len(diff) \in Nat
      /\ \A i \in DOMAIN diff : diff[i][1] \in Path /\ diff[i][2] \in Nat /\ diff[i][3] \in Nat
  <2>1. DOMAIN diff = 1 .. Len(diff) /\ Len(diff) \in Nat
    BY <1>1
  <2>2. \A i \in DOMAIN diff : diff[i] \in Move
    BY <1>1
  <2> QED BY <2>1, <2>2 DEF Move
<1>3. \A i \in 1 .. Len(diff) : forth[i] \in Entry /\ back[i] \in Entry
  BY <1>2 DEF Entry
<1>4. forth \in Seq(Entry) /\ back \in Seq(Entry)
  <2>1. forth \in [1 .. Len(diff) -> Entry] /\ back \in [1 .. Len(diff) -> Entry]
    BY <1>2, <1>3
  <2>2. Len(diff) \in Nat
    BY <1>2
  <2> HIDE DEF forth, back
  <2> DEFINE len == Len(diff)
  <2> HIDE DEF len
  <2>3. len \in Nat /\ forth \in [1 .. len -> Entry] /\ back \in [1 .. len -> Entry]
    BY <2>1, <2>2 DEF len
  <2> QED BY ONLY <2>3
<1>5. \A a \in Address : Covers(<< >>, a)
  BY EmptyPath, CoversIsPointwise
<1>6. /\ Range(forth) = {<<diff[i][1], diff[i][3]>> : i \in DOMAIN diff}
      /\ Range(back) = {<<diff[i][1], diff[i][2]>> : i \in DOMAIN diff}
  BY DEF Range
<1> HIDE DEF forth, back
<1>7. \A a \in Address : Tells(forth, a, g[a], f[a])
  <2> TAKE a \in Address
  <2>1. \A e \in Over(forth, a) : e[2] = f[a]
    BY <1>1, <1>6 DEF Over, MoveFacts
  <2>2. g[a] # f[a] => Over(forth, a) # {}
    <3>1. SUFFICES ASSUME g[a] # f[a] PROVE Over(forth, a) # {}
      OBVIOUS
    <3>2. PICK i \in DOMAIN diff : Covers(diff[i][1], a)
      BY <1>1, <1>5, <3>1 DEF MoveFacts
    <3>3. <<diff[i][1], diff[i][3]>> \in Range(forth)
      BY <1>6
    <3> QED BY <3>2, <3>3 DEF Over
  <2> QED BY <2>1, <2>2 DEF Tells
<1>8. \A a \in Address : Tells(back, a, f[a], g[a])
  <2> TAKE a \in Address
  <2>1. \A e \in Over(back, a) : e[2] = g[a]
    BY <1>1, <1>6 DEF Over, MoveFacts
  <2>2. g[a] # f[a] => Over(back, a) # {}
    <3>1. SUFFICES ASSUME g[a] # f[a] PROVE Over(back, a) # {}
      OBVIOUS
    <3>2. PICK i \in DOMAIN diff : Covers(diff[i][1], a)
      BY <1>1, <1>5, <3>1 DEF MoveFacts
    <3>3. <<diff[i][1], diff[i][2]>> \in Range(back)
      BY <1>6
    <3> QED BY <3>2, <3>3 DEF Over
  <2> QED BY <2>1, <2>2 DEF Tells
<1>9. UpdateMulti(TrieOf(g), forth) = TrieOf(f) /\ UpdateMulti(TrieOf(f), back) = TrieOf(g)
  BY <1>4, <1>7, <1>8, UpdateTells DEF Entry
<1> QED BY <1>9 DEF diff, forth, back

(* diff_addrs sees the addresses that moved. *)
LEMMA GroupsAreExact ==
    ASSUME NEW g \in [Address -> Nat], NEW f \in [Address -> Nat]
    PROVE  LET groups == Reassignments(TrieOf(g), TrieOf(f), Address)
           IN  /\ UNION Range(groups) = {a \in Address : g[a] # f[a]}
               /\ \A p \in DOMAIN groups : \A a \in groups[p] : p = <<g[a], f[a]>>
<1> DEFINE groups == Reassignments(TrieOf(g), TrieOf(f), Address)
           pair == [a \in Address |-> <<g[a], f[a]>>]
           moved == {q \in Range(pair) : q[1] # q[2]}
<1>1. \A a \in Address : LookupOr0(TrieOf(g), a) = g[a] /\ LookupOr0(TrieOf(f), a) = f[a]
  BY LookupOfTrie DEF LookupOr0, NoAsn
<1>2. pair = [a \in Address |-> <<LookupOr0(TrieOf(g), a), LookupOr0(TrieOf(f), a)>>]
  BY <1>1
<1>3. groups = [p \in moved |-> {a \in Address : pair[a] = p}]
  BY <1>2 DEF Reassignments
<1> HIDE DEF groups
<1>4. \A p \in DOMAIN groups : \A a \in groups[p] : p = <<g[a], f[a]>>
  BY <1>3
<1>5. ASSUME NEW a \in Address, g[a] # f[a] PROVE a \in UNION Range(groups)
  <2>1. pair[a] \in moved
    BY <1>5 DEF Range
  <2>2. a \in groups[pair[a]] /\ groups[pair[a]] \in Range(groups)
    BY <1>3, <2>1 DEF Range
  <2> QED BY <2>2
<1>6. ASSUME NEW a \in UNION Range(groups) PROVE a \in Address /\ g[a] # f[a]
  <2>1. PICK p \in moved : a \in groups[p]
    BY <1>3 DEF Range
  <2>2. a \in Address /\ pair[a] = p
    BY <1>3, <2>1
  <2> QED BY <2>1, <2>2
<1>7. UNION Range(groups) = {a \in Address : g[a] # f[a]}
  BY <1>5, <1>6
<1> QED BY <1>4, <1>7 DEF groups

(***************************************************************************)
(* Theorem. Always, the lines of diff are a patch in both directions, its  *)
(* totals count the addresses whose ASN changed, up to one at the root,    *)
(* and diff_addrs groups the same addresses.                               *)
(***************************************************************************)
THEOREM DiffExact == Spec => []DiffIsExact
<1>1. TInv => DiffIsExact
  <2> SUFFICES ASSUME TInv, NEW other \in OtherMaps
               PROVE
        LET diff == Diff(other, map)
            patch(column) == [i \in DOMAIN diff |-> <<diff[i][1], diff[i][column]>>]
            groups == Reassignments(other, map, Address)
            changed == {a \in Address : Lookup(other, a) # assigned[a]}
            Total(ignore) == ChangedCount(other, map, ignore, "v4")
                               + ChangedCount(other, map, ignore, "v6")
            root == \E i \in DOMAIN diff : diff[i][1] = << >>
        IN  /\ UpdateMulti(other, patch(3)) = map /\ UpdateMulti(map, patch(2)) = other
            /\ Total(FALSE) = IF root THEN U128Max ELSE Cardinality(changed)
            /\ ~root => Total(TRUE) = Cardinality({a \in changed : Lookup(other, a) # 0})
            /\ ChangedCount(other, map, FALSE, "v6") > U128Max => changed = Address
            /\ UNION Range(groups) = changed
            /\ \A p \in DOMAIN groups :
                  \A a \in groups[p] : p = <<Lookup(other, a), assigned[a]>>
    BY DEF DiffIsExact
  <2> DEFINE f == assigned
             g == [a \in Address |-> Lookup(other, a)]
             diff == Moves(g, f)[<< >>]
             changed == {a \in Address : Lookup(other, a) # assigned[a]}
             old == {a \in changed : Lookup(other, a) # 0}
             v4 == ChangedCount(other, map, FALSE, "v4")
             v6 == ChangedCount(other, map, FALSE, "v6")
             v4old == ChangedCount(other, map, TRUE, "v4")
             v6old == ChangedCount(other, map, TRUE, "v6")
             root == \E i \in DOMAIN diff : diff[i][1] = << >>
  <2>1. map = TrieOf(f) /\ f \in [Address -> Nat]
    BY DEF TInv, IInv, MapIsCanonical
  <2>2. other = TrieOf(g) /\ g \in [Address -> Nat]
    BY OtherMapsAssumption
  <2>3. Diff(other, map) = diff
    BY <2>1, <2>2, DiffIsMoves
  <2>4. changed = Differ(g, f, FALSE) /\ old = Differ(g, f, TRUE)
        /\ changed = {a \in Address : g[a] # f[a]} /\ \A a \in Address : g[a] = Lookup(other, a)
    BY DEF Differ
  <2> HIDE DEF f, g, diff, changed, old
  <2>5. ~root => /\ v4 + v6 = Cardinality(changed)
                 /\ v4old + v6old = Cardinality(old)
                 /\ v4 \in Nat /\ v6 \in Nat
    <3> HIDE DEF root
    <3> SUFFICES ASSUME ~root
                 PROVE  /\ v4 + v6 = Cardinality(changed) /\ v4old + v6old = Cardinality(old)
                        /\ v4 \in Nat /\ v6 \in Nat
      OBVIOUS
    <3>1. \A i \in DOMAIN Moves(g, f)[<< >>] : Moves(g, f)[<< >>][i][1] # << >>
      BY DEF root, diff
    <3>2. FALSE \in BOOLEAN /\ TRUE \in BOOLEAN
      OBVIOUS
    <3> QED BY ONLY <2>1, <2>2, <2>4, <3>1, <3>2, TotalOfMoves, Zenon
  <2>6. root => v4 = 0 /\ v6 = U128Max
    <3> HIDE DEF root
    <3> SUFFICES ASSUME root PROVE v4 = 0 /\ v6 = U128Max
      OBVIOUS
    <3>1. PICK i \in DOMAIN Moves(g, f)[<< >>] : Moves(g, f)[<< >>][i][1] = << >>
      BY DEF root, diff
    <3>2. FALSE \in BOOLEAN /\ ~FALSE
      OBVIOUS
    <3> QED BY ONLY <2>1, <2>2, <3>1, <3>2, TotalAtRoot, Zenon
  <2>7. /\ IsFiniteSet(Address) /\ Cardinality(Address) = Room(V6Bits)
        /\ Room(V6Bits) \in Nat \ {0} /\ U128Max = Room(V6Bits) - 1
    BY AddressCount
  <2> HIDE DEF v4, v6, v4old, v6old, root
  <2>8. v4 + v6 = IF root THEN U128Max ELSE Cardinality(changed)
    BY <2>5, <2>6, <2>7
  <2>9. v6 > U128Max => changed = Address
    <3> SUFFICES ASSUME v6 > U128Max PROVE changed = Address
      OBVIOUS
    <3>1. ~root
      BY <2>6, <2>7
    <3>2. changed \in SUBSET Address
      BY <2>4
    <3>3. Cardinality(changed) <= Cardinality(Address) /\ IsFiniteSet(changed)
          /\ (Cardinality(Address) = Cardinality(changed) => Address = changed)
      BY <2>7, <3>2, FS_Subset
    <3>4. Cardinality(changed) \in Nat
      BY <3>3, FS_CardinalityType
    <3> QED BY <2>5, <2>7, <3>1, <3>3, <3>4
  <2>10. /\ UpdateMulti(other, [i \in DOMAIN diff |-> <<diff[i][1], diff[i][3]>>]) = map
         /\ UpdateMulti(map, [i \in DOMAIN diff |-> <<diff[i][1], diff[i][2]>>]) = other
    BY <2>1, <2>2, <2>3, DiffIsPatch
  <2> DEFINE groups == Reassignments(other, map, Address)
  <2>11. /\ UNION Range(groups) = changed
         /\ \A p \in DOMAIN groups : \A a \in groups[p] : p = <<g[a], f[a]>>
    BY <2>1, <2>2, <2>4, GroupsAreExact
  <2>12. \A p \in DOMAIN groups : groups[p] \subseteq Address
    BY DEF Reassignments
  <2> HIDE DEF groups
  <2>13. \A p \in DOMAIN groups : \A a \in groups[p] : p = <<Lookup(other, a), f[a]>>
    BY <2>4, <2>11, <2>12
  <2> QED BY <2>3, <2>5, <2>8, <2>9, <2>10, <2>11, <2>13
          DEF f, changed, old, v4, v6, v4old, v6old, root, groups
<1> QED BY <1>1, TypedInvariant, PTL

---------------------------------------------------------------------------
(* Tabulated changes nothing. *)
LEMMA TabulatedIsSame == \A f : Tabulated(f) = f
BY DEF Tabulated

(* Smallest takes one of the candidates, and none is smaller. *)
LEMMA SmallestIsLeast ==
    ASSUME NEW S, NEW candidates \in Seq(S), candidates # << >>,
           NEW sizes \in [DOMAIN candidates -> Nat]
    PROVE  \E i \in DOMAIN candidates :
              /\ Smallest(candidates, sizes) = candidates[i]
              /\ \A j \in DOMAIN candidates : sizes[i] <= sizes[j]
<1> DEFINE n == Len(candidates)
           values == {sizes[i] : i \in DOMAIN candidates}
           least == {i \in DOMAIN candidates : \A j \in DOMAIN candidates : sizes[i] <= sizes[j]}
           Is(i) == /\ \A j \in DOMAIN candidates : sizes[i] <= sizes[j]
                    /\ \A j \in 1 .. i - 1 : sizes[i] < sizes[j]
<1>1. n \in Nat /\ DOMAIN candidates = 1 .. n /\ 1 \in DOMAIN candidates
  OBVIOUS
<1> HIDE DEF n
<1>2. PICK v \in values : \A w \in values : v <= w
  <2>1. values \in SUBSET Nat /\ values # {}
    BY <1>1
  <2> HIDE DEF values
  <2> QED BY <2>1, LeastElement
<1>3. least \in SUBSET Nat /\ least # {}
  BY <1>1, <1>2
<1>4. PICK i \in least : \A j \in least : i <= j
  <2> HIDE DEF least
  <2> QED BY <1>3, LeastElement
<1>5. i \in DOMAIN candidates /\ \A j \in DOMAIN candidates : sizes[i] <= sizes[j]
  OBVIOUS
<1>6. \A j \in 1 .. i - 1 : sizes[i] < sizes[j]
  <2> SUFFICES ASSUME NEW j \in 1 .. i - 1 PROVE sizes[i] < sizes[j]
    OBVIOUS
  <2>1. j \in DOMAIN candidates /\ i \in Nat /\ j < i
    BY <1>1, <1>5
  <2>2. sizes[i] \in Nat /\ sizes[j] \in Nat /\ sizes[i] <= sizes[j]
    BY <1>5, <2>1
  <2>3. sizes[i] # sizes[j]
    <3> SUFFICES ASSUME sizes[i] = sizes[j] PROVE FALSE
      OBVIOUS
    <3>1. j \in least
      BY <1>5, <2>1
    <3> QED BY <1>4, <2>1, <3>1
  <2> QED BY <2>2, <2>3
<1>7. \E k \in DOMAIN candidates : Is(k)
  BY <1>5, <1>6
<1> DEFINE k == CHOOSE k \in DOMAIN candidates : Is(k)
<1>8. k \in DOMAIN candidates /\ Is(k)
  BY <1>7
<1>9. Smallest(candidates, sizes) = candidates[k]
  BY DEF Smallest
<1> QED BY <1>8, <1>9

(* A set of numbers in ascending order is a list of its members. *)
LEMMA AscendingLists ==
    ASSUME NEW numbers \in SUBSET Nat, IsFiniteSet(numbers)
    PROVE  Ascending(numbers) \in Seq(numbers) /\ Range(Ascending(numbers)) = numbers
<1> DEFINE n == Cardinality(numbers)
           listed == SetToSeq(numbers)
           order == SortByKey(listed)
<1>1. n \in Nat /\ ExistsBijection(1 .. n, numbers)
  BY FS_CardinalityType
<1>2. \E f \in [1 .. n -> numbers] : IsInjective(f)
  BY <1>1 DEF ExistsBijection, Bijection, Injection
<1>3. listed \in [1 .. n -> numbers] /\ IsInjective(listed)
  BY <1>2 DEF SetToSeq
<1>4. IsFiniteSet(1 .. n) /\ Cardinality(1 .. n) = n
  BY <1>1, FS_Interval
<1> HIDE DEF listed
<1>5. listed \in Injection(1 .. n, numbers)
  BY <1>3 DEF Injection
<1>6. listed \in Surjection(1 .. n, numbers)
  BY <1>4, <1>5, FS_Injection
<1>7. listed \in Seq(Nat) /\ Len(listed) = n /\ DOMAIN listed = 1 .. n
  <2>1. listed \in [1 .. n -> Nat]
    BY <1>3
  <2> QED BY <1>1, <2>1
<1> HIDE DEF n
<1>8. /\ order \in [1 .. n -> 1 .. n]
      /\ \A i \in 1 .. n : \E k \in 1 .. n : order[k] = i
  BY <1>7, SortIsStable
<1> HIDE DEF order
<1>9. Ascending(numbers) = [k \in 1 .. n |-> listed[order[k]]]
  BY <1>7 DEF Ascending, listed, order
<1>10. Ascending(numbers) \in [1 .. n -> numbers]
  BY <1>3, <1>8, <1>9
<1>11. \A x \in numbers : x \in Range(Ascending(numbers))
  <2> SUFFICES ASSUME NEW x \in numbers PROVE x \in Range(Ascending(numbers))
    OBVIOUS
  <2>1. PICK i \in 1 .. n : listed[i] = x
    BY <1>6 DEF Surjection
  <2>2. PICK k \in 1 .. n : order[k] = i
    BY <1>8
  <2> QED BY <1>9, <2>1, <2>2 DEF Range
<1>12. Range(Ascending(numbers)) \subseteq numbers
  BY <1>10 DEF Range
<1> QED BY <1>1, <1>10, <1>11, <1>12 DEF n

(* Best takes one of the candidates, and none is shorter. *)
LEMMA BestIsLeast ==
    ASSUME NEW S, NEW candidates \in Seq(Seq(S)), candidates # << >>
    PROVE  /\ Best(candidates, Len) \in Range(candidates)
           /\ \A x \in Range(candidates) : Len(Best(candidates, Len)) <= Len(x)
<1> DEFINE sizes == [i \in DOMAIN candidates |-> Len(candidates[i])]
<1>1. Best(candidates, Len) = Smallest(candidates, sizes)
  BY TabulatedIsSame DEF Best
<1>2. \A i \in DOMAIN candidates : candidates[i] \in Seq(S)
  OBVIOUS
<1>3. sizes \in [DOMAIN candidates -> Nat]
  BY <1>2
<1>4. \A i \in DOMAIN candidates : sizes[i] = Len(candidates[i])
  OBVIOUS
<1> HIDE DEF sizes
<1>5. PICK i \in DOMAIN candidates :
         /\ Smallest(candidates, sizes) = candidates[i]
         /\ \A j \in DOMAIN candidates : sizes[i] <= sizes[j]
  BY <1>3, SmallestIsLeast
<1> QED BY <1>1, <1>4, <1>5 DEF Range

(* The ASN that what encloses a subtree gives it, or none. *)
Context == Nat \cup {NoAsn}

(* What the search keeps of a subtree: encodings by their contexts. *)
Contexts(S) == {x \in [enc : UNION {[D -> Seq(S)] : D \in SUBSET Context}, hole : BOOLEAN] :
                   IsFiniteSet(DOMAIN x.enc)}

(* The parts of what the search keeps. *)
LEMMA ContextsType ==
    ASSUME NEW S, NEW x \in Contexts(S)
    PROVE  /\ x.hole \in BOOLEAN /\ IsFiniteSet(DOMAIN x.enc) /\ DOMAIN x.enc \subseteq Context
           /\ x.enc \in [DOMAIN x.enc -> Seq(S)]
BY DEF Contexts

(* What the search keeps has such parts. *)
LEMMA ContextsIntro ==
    ASSUME NEW S, NEW D \in SUBSET Context, IsFiniteSet(D), NEW enc \in [D -> Seq(S)],
           NEW hole \in BOOLEAN
    PROVE  [enc |-> enc, hole |-> hole] \in Contexts(S)
BY DEF Contexts

(* The pairs of contexts in which the halves may stand for the whole to stand in c. *)
Mates(left, right, c) ==
    {q \in {<<c, c>>, <<NoAsn, c>>, <<c, NoAsn>>} : q[1] \in DOMAIN left /\ q[2] \in DOMAIN right}

(* The pairs that the search tries are those. *)
LEMMA PairsAreMates ==
    ASSUME NEW S, NEW left, left \in [DOMAIN left -> Seq(S)],
           NEW right, right \in [DOMAIN right -> Seq(S)], NEW c
    PROVE  LET pairs == PairsIn(left, right, c, LAMBDA l, r : l \o r)
           IN  /\ pairs \in Seq(Seq(S))
               /\ Range(pairs) = {left[q[1]] \o right[q[2]] : q \in Mates(left, right, c)}
               /\ pairs = << >> <=> Mates(left, right, c) = {}
<1> DEFINE W == Seq(S)
           Pair(a, b) == IF a \in DOMAIN left /\ b \in DOMAIN right
                         THEN <<left[a] \o right[b]>> ELSE << >>
           Some1(a, b) == IF a \in DOMAIN left /\ b \in DOMAIN right
                          THEN {left[a] \o right[b]} ELSE {}
           pairs == PairsIn(left, right, c, LAMBDA l, r : l \o r)
<1>1. pairs = Pair(c, c) \o Pair(NoAsn, c) \o Pair(c, NoAsn)
  BY DEF PairsIn
<1>2. ASSUME NEW a, NEW b
      PROVE  Pair(a, b) \in Seq(W) /\ Range(Pair(a, b)) = Some1(a, b)
  <2>1. CASE a \in DOMAIN left /\ b \in DOMAIN right
    <3> DEFINE x == left[a] \o right[b]
    <3>1. x \in W
      BY <2>1
    <3>2. Pair(a, b) = <<x>> /\ Some1(a, b) = {x}
      BY <2>1
    <3> HIDE DEF W, Pair, Some1, x, pairs
    <3>3. <<x>> \in Seq(W)
      BY <3>1
    <3> QED BY <3>2, <3>3, RangeOfOne
  <2>2. CASE ~(a \in DOMAIN left /\ b \in DOMAIN right)
    <3>1. Pair(a, b) = << >> /\ Some1(a, b) = {}
      BY <2>2
    <3> HIDE DEF W, Pair, Some1, pairs
    <3>2. << >> \in Seq(W)
      OBVIOUS
    <3> QED BY <3>1, <3>2, RangeOfOne
  <2> QED BY <2>1, <2>2
<1> HIDE DEF pairs, Pair, W
<1>3. /\ Pair(c, c) \o Pair(NoAsn, c) \in Seq(W)
      /\ Range(Pair(c, c) \o Pair(NoAsn, c)) = Some1(c, c) \cup Some1(NoAsn, c)
  <2> HIDE DEF Some1
  <2>1. /\ Pair(c, c) \in Seq(W) /\ Range(Pair(c, c)) = Some1(c, c)
        /\ Pair(NoAsn, c) \in Seq(W) /\ Range(Pair(NoAsn, c)) = Some1(NoAsn, c)
    BY <1>2
  <2> QED BY ONLY <2>1, RangeOfBoth
<1>4. /\ pairs \in Seq(W)
      /\ Range(pairs) = Some1(c, c) \cup Some1(NoAsn, c) \cup Some1(c, NoAsn)
  <2> DEFINE two == Pair(c, c) \o Pair(NoAsn, c)
  <2>1. two \in Seq(W) /\ pairs = two \o Pair(c, NoAsn)
    BY <1>1, <1>3
  <2>2. Range(two) = Some1(c, c) \cup Some1(NoAsn, c)
    BY <1>3
  <2> HIDE DEF two
  <2>3. pairs \in Seq(W) /\ Range(pairs) = Range(two) \cup Range(Pair(c, NoAsn))
    BY <1>2, <2>1, RangeOfBoth
  <2> QED BY <1>2, <2>2, <2>3
<1>5. Range(pairs) = {left[q[1]] \o right[q[2]] : q \in Mates(left, right, c)}
  <2> DEFINE Sum(q) == left[q[1]] \o right[q[2]]
             Fits(q) == q[1] \in DOMAIN left /\ q[2] \in DOMAIN right
  <2>1. \A a, b : Some1(a, b) = IF Fits(<<a, b>>) THEN {Sum(<<a, b>>)} ELSE {}
    OBVIOUS
  <2>2. Mates(left, right, c) = {q \in {<<c, c>>, <<NoAsn, c>>, <<c, NoAsn>>} : Fits(q)}
    BY DEF Mates
  <2> HIDE DEF Some1, Sum, Fits
  <2>3. Range(pairs) = {Sum(q) : q \in Mates(left, right, c)}
    BY <1>4, <2>1, <2>2
  <2> QED BY <2>3 DEF Sum
<1>6. pairs = << >> <=> Range(pairs) = {}
  <2>1. pairs \in Seq(W)
    BY <1>4
  <2>2. DOMAIN pairs = 1 .. Len(pairs) /\ Len(pairs) \in Nat /\ (pairs = << >> <=> Len(pairs) = 0)
    BY ONLY <2>1
  <2>3. Range(pairs) = {} <=> DOMAIN pairs = {}
    BY DEF Range
  <2> QED BY ONLY <2>2, <2>3
<1>7. Range(pairs) = {} <=> Mates(left, right, c) = {}
  BY <1>5
<1> QED BY <1>4, <1>5, <1>6, <1>7 DEF pairs, W

(* What the search makes of two halves, for entries. *)
Merge(left, right, p, fill) ==
    BranchContexts(left, right, fill, LAMBDA l, r : l \o r,
                   LAMBDA asn, fixups : << <<p, asn>> >> \o fixups, Len)

(* The best that the halves make, for entries. *)
JoinedOf(left, right) == Joined(left, right, LAMBDA l, r : l \o r, Len)

(* What stands alone, for entries. *)
DefaultsOf(p, joined, hole) ==
    WithDefaults(joined, hole, LAMBDA asn, fixups : << <<p, asn>> >> \o fixups, Len)

(* In each context the shortest of what the halves can make. *)
Chosen(left, right, joined) ==
    /\ DOMAIN joined = {c \in DOMAIN left \cup DOMAIN right : Mates(left, right, c) # {}}
    /\ \A c \in DOMAIN joined :
          /\ \E q \in Mates(left, right, c) : joined[c] = left[q[1]] \o right[q[2]]
          /\ \A q \in Mates(left, right, c) : Len(joined[c]) <= Len(left[q[1]] \o right[q[2]])

(* One default over the whole, and what corrects it. *)
Covered(p, c, fixups) == << <<p, c>> >> \o fixups

(* The shortest that stands alone: as it is or, where nothing is a hole, with a
   default. *)
Alone(p, hole, joined, entries) ==
    /\ \/ NoAsn \in DOMAIN joined /\ entries = joined[NoAsn]
       \/ ~hole /\ \E c \in DOMAIN joined \ {NoAsn} : entries = Covered(p, c, joined[c])
    /\ NoAsn \in DOMAIN joined => Len(entries) <= Len(joined[NoAsn])
    /\ ~hole => \A c \in DOMAIN joined \ {NoAsn} : Len(entries) <= Len(Covered(p, c, joined[c]))

(* What is kept of that. *)
Selected(p, hole, joined, enc) ==
    /\ NoAsn \in DOMAIN enc <=> NoAsn \in DOMAIN joined \/ (~hole /\ DOMAIN joined \ {NoAsn} # {})
    /\ NoAsn \in DOMAIN enc => Alone(p, hole, joined, enc[NoAsn])
    /\ \A c \in Nat : c \in DOMAIN enc <=>
          /\ c \in DOMAIN joined /\ (hole => c = 0)
          /\ NoAsn \in DOMAIN enc => Len(joined[c]) < Len(enc[NoAsn])
    /\ \A c \in DOMAIN enc \cap Nat : enc[c] = joined[c]

(* The search makes of two halves the shortest in each context. *)
LEMMA JoinedIsChosen ==
    ASSUME NEW S, NEW left, left \in [DOMAIN left -> Seq(S)],
           NEW right, right \in [DOMAIN right -> Seq(S)]
    PROVE  /\ Chosen(left, right, JoinedOf(left, right))
           /\ JoinedOf(left, right) \in [DOMAIN JoinedOf(left, right) -> Seq(S)]
<1> DEFINE Pairs(c) == PairsIn(left, right, c, LAMBDA l, r : l \o r)
           pairs == Tabulated([c \in DOMAIN left \cup DOMAIN right |->
                                  PairsIn(left, right, c, LAMBDA l, r : l \o r)])
           joined == JoinedOf(left, right)
<1>1. pairs = [c \in DOMAIN left \cup DOMAIN right |-> Pairs(c)]
  BY TabulatedIsSame
<1>2. joined = [c \in {c \in DOMAIN pairs : pairs[c] # << >>} |-> Best(pairs[c], Len)]
  <2>1. joined = Tabulated([c \in {c \in DOMAIN pairs : pairs[c] # << >>} |-> Best(pairs[c], Len)])
    BY DEF JoinedOf, Joined
  <2> HIDE DEF pairs, joined
  <2> QED BY <2>1, TabulatedIsSame
<1>3. ASSUME NEW c
      PROVE  /\ Pairs(c) \in Seq(Seq(S))
             /\ Range(Pairs(c)) = {left[q[1]] \o right[q[2]] : q \in Mates(left, right, c)}
             /\ Pairs(c) = << >> <=> Mates(left, right, c) = {}
  BY PairsAreMates
<1>4. \A c : \A x \in Range(Pairs(c)) : x \in Seq(S)
  <2> TAKE c
  <2> TAKE x \in Range(Pairs(c))
  <2>1. PICK i \in DOMAIN Pairs(c) : x = Pairs(c)[i]
    BY DEF Range
  <2> DEFINE W == Seq(S)
  <2>2. Pairs(c) \in Seq(W)
    BY <1>3
  <2> HIDE DEF Pairs, W
  <2>3. Pairs(c)[i] \in W
    BY ONLY <2>1, <2>2
  <2> QED BY <2>1, <2>3 DEF W
<1> HIDE DEF Pairs, pairs, joined
<1>5. DOMAIN joined = {c \in DOMAIN left \cup DOMAIN right : Mates(left, right, c) # {}}
  BY <1>1, <1>2, <1>3
<1>6. ASSUME NEW c \in DOMAIN joined
      PROVE  /\ joined[c] \in Range(Pairs(c))
             /\ \A x \in Range(Pairs(c)) : Len(joined[c]) <= Len(x)
  <2>1. joined[c] = Best(Pairs(c), Len) /\ Pairs(c) # << >>
    BY <1>1, <1>2, <1>6
  <2> QED BY <1>3, <2>1, BestIsLeast
<1>7. ASSUME NEW c \in DOMAIN joined
      PROVE  /\ \E q \in Mates(left, right, c) : joined[c] = left[q[1]] \o right[q[2]]
             /\ \A q \in Mates(left, right, c) : Len(joined[c]) <= Len(left[q[1]] \o right[q[2]])
             /\ joined[c] \in Seq(S)
  <2> DEFINE Sum(q) == left[q[1]] \o right[q[2]]
  <2>1. Range(Pairs(c)) = {Sum(q) : q \in Mates(left, right, c)}
    BY <1>3
  <2> HIDE DEF Sum
  <2>2. \E q \in Mates(left, right, c) : joined[c] = Sum(q)
    BY <1>6, <2>1
  <2>3. \A q \in Mates(left, right, c) : Len(joined[c]) <= Len(Sum(q))
    BY <1>6, <2>1
  <2> QED BY <1>4, <1>6, <2>2, <2>3 DEF Sum
<1>8. joined = [c \in DOMAIN joined |-> joined[c]]
  BY <1>2
<1> QED BY <1>5, <1>7, <1>8 DEF Chosen, joined

(* And what stands alone is the shortest of what can. *)
LEMMA AloneIsShortest ==
    ASSUME NEW p \in Path, NEW hole \in BOOLEAN, NEW joined,
           joined \in [DOMAIN joined -> Seq(Entry)], DOMAIN joined \subseteq Context,
           IsFiniteSet(DOMAIN joined)
    PROVE  LET enc == DefaultsOf(p, joined, hole)
           IN  /\ NoAsn \in DOMAIN enc <=>
                     NoAsn \in DOMAIN joined \/ (~hole /\ DOMAIN joined \ {NoAsn} # {})
               /\ NoAsn \in DOMAIN enc => Alone(p, hole, joined, enc[NoAsn])
               /\ \A c \in Nat : c \in DOMAIN enc <=> c \in DOMAIN joined
               /\ \A c \in DOMAIN joined \cap Nat : enc[c] = joined[c]
               /\ enc \in [DOMAIN enc -> Seq(Entry)] /\ DOMAIN enc \subseteq {NoAsn} \cup DOMAIN joined
<1> DEFINE numbers == DOMAIN joined \ {NoAsn}
           asns == Ascending(DOMAIN joined \ {NoAsn})
           W == Seq(Entry)
           covers == IF hole THEN << >>
                     ELSE [i \in DOMAIN asns |-> << <<p, asns[i]>> >> \o joined[asns[i]]]
           first == IF NoAsn \in DOMAIN joined THEN <<joined[NoAsn]>> ELSE << >>
           alone == first \o covers
           enc == DefaultsOf(p, joined, hole)
<1>20. enc = IF alone = << >> THEN joined
             ELSE [c \in {NoAsn} \cup DOMAIN joined |->
                      IF c = NoAsn THEN Best(alone, Len) ELSE joined[c]]
  <2>1. enc = IF alone = << >> THEN joined
              ELSE Tabulated([c \in {NoAsn} \cup DOMAIN joined |->
                                 IF c = NoAsn THEN Best(alone, Len) ELSE joined[c]])
    BY DEF DefaultsOf, WithDefaults
  <2> HIDE DEF enc, alone
  <2> QED BY <2>1, TabulatedIsSame
<1> HIDE DEF enc
<1>1. numbers \in SUBSET Nat /\ IsFiniteSet(numbers)
  <2>1. numbers \in SUBSET Nat
    BY DEF Context
  <2>2. numbers \in SUBSET DOMAIN joined
    OBVIOUS
  <2> QED BY <2>1, <2>2, FS_Subset
<1>2. asns \in Seq(numbers) /\ Range(asns) = numbers
  BY <1>1, AscendingLists
<1> HIDE DEF asns
<1>3. \A c \in numbers : Covered(p, c, joined[c]) \in W
  <2> SUFFICES ASSUME NEW c \in numbers PROVE Covered(p, c, joined[c]) \in W
    OBVIOUS
  <2>1. <<p, c>> \in Entry
    BY <1>1 DEF Entry
  <2>2. joined[c] \in Seq(Entry)
    OBVIOUS
  <2>3. << <<p, c>> >> \in Seq(Entry)
    BY <2>1
  <2> QED BY ONLY <2>2, <2>3 DEF Covered, W
<1> HIDE DEF W
<1>4. /\ covers \in Seq(W)
      /\ Range(covers) = IF hole THEN {} ELSE {Covered(p, c, joined[c]) : c \in numbers}
  <2>1. CASE hole
    BY <2>1, RangeOfOne
  <2>2. CASE ~hole
    <3> DEFINE n == Len(asns)
    <3>1. n \in Nat /\ DOMAIN asns = 1 .. n /\ \A i \in 1 .. n : asns[i] \in numbers
      BY <1>2
    <3>2. covers = [i \in 1 .. n |-> Covered(p, asns[i], joined[asns[i]])]
      BY <2>2, <3>1 DEF Covered
    <3> HIDE DEF covers, n, numbers
    <3>3. covers \in [1 .. n -> W]
      BY <1>3, <3>1, <3>2
    <3>4. covers \in Seq(W)
      BY <3>1, <3>3
    <3>5. Range(covers) = {Covered(p, asns[i], joined[asns[i]]) : i \in 1 .. n}
      BY <3>2 DEF Range
    <3>6. numbers = {asns[i] : i \in 1 .. n}
      BY <1>2, <3>1 DEF Range
    <3>7. Range(covers) = {Covered(p, c, joined[c]) : c \in numbers}
      BY <3>5, <3>6
    <3> QED BY <2>2, <3>4, <3>7
  <2> QED BY <2>1, <2>2
<1>5. /\ first \in Seq(W)
      /\ Range(first) = IF NoAsn \in DOMAIN joined THEN {joined[NoAsn]} ELSE {}
  <2>1. CASE NoAsn \in DOMAIN joined
    <3> DEFINE x == joined[NoAsn]
    <3>1. x \in W /\ first = <<x>>
      BY <2>1 DEF W
    <3> HIDE DEF x, first
    <3>2. first \in Seq(W) /\ Range(first) = {x}
      BY <3>1, RangeOfOne
    <3> QED BY <2>1, <3>2 DEF x
  <2>2. CASE NoAsn \notin DOMAIN joined
    BY <2>2, RangeOfOne
  <2> QED BY <2>1, <2>2
<1> HIDE DEF covers, first, numbers
<1>6. alone \in Seq(W) /\ Range(alone) = Range(first) \cup Range(covers)
  BY ONLY <1>4, <1>5, RangeOfBoth
<1> HIDE DEF alone
<1>7. alone = << >> <=> Range(alone) = {}
  <2>1. DOMAIN alone = 1 .. Len(alone) /\ Len(alone) \in Nat /\ (alone = << >> <=> Len(alone) = 0)
    BY ONLY <1>6
  <2>2. Range(alone) = {} <=> DOMAIN alone = {}
    BY DEF Range
  <2> QED BY ONLY <2>1, <2>2
<1>8. alone = << >> <=> ~ (NoAsn \in DOMAIN joined \/ (~hole /\ numbers # {}))
  <2>1. Range(first) = {} <=> NoAsn \notin DOMAIN joined
    BY ONLY <1>5
  <2>2. Range(covers) = {} <=> hole \/ numbers = {}
    BY ONLY <1>4
  <2>3. Range(alone) = {} <=> Range(first) = {} /\ Range(covers) = {}
    BY ONLY <1>6
  <2> QED BY ONLY <1>7, <2>1, <2>2, <2>3
<1>9. ASSUME alone # << >>
      PROVE  Alone(p, hole, joined, Best(alone, Len)) /\ Best(alone, Len) \in W
  <2> DEFINE best == Best(alone, Len)
  <2>1. best \in Range(alone) /\ \A x \in Range(alone) : Len(best) <= Len(x)
    BY <1>6, <1>9, BestIsLeast DEF W
  <2> HIDE DEF best
  <2>2. best \in W
    <3>1. PICK i \in DOMAIN alone : best = alone[i]
      BY <2>1 DEF Range
    <3> QED BY <1>6, <3>1
  <2>3. Alone(p, hole, joined, best)
    BY <1>4, <1>5, <1>6, <2>1 DEF Alone, numbers
  <2> QED BY <2>2, <2>3 DEF best
<1>10. \A c \in Nat : c # NoAsn
  BY DEF NoAsn
<1>11. /\ NoAsn \in DOMAIN enc <=> NoAsn \in DOMAIN joined \/ alone # << >>
       /\ alone # << >> => enc[NoAsn] = Best(alone, Len)
       /\ \A c \in Nat : c \in DOMAIN enc <=> c \in DOMAIN joined
       /\ \A c \in DOMAIN joined \cap Nat : enc[c] = joined[c]
       /\ enc \in [DOMAIN enc -> Seq(Entry)] /\ DOMAIN enc \subseteq {NoAsn} \cup DOMAIN joined
  <2>1. CASE alone = << >>
    BY <1>10, <1>20, <2>1
  <2>2. CASE alone # << >>
    <3> DEFINE b == Best(alone, Len)
    <3>1. b \in Seq(Entry)
      BY <1>9, <2>2 DEF W
    <3>2. enc = [c \in {NoAsn} \cup DOMAIN joined |-> IF c = NoAsn THEN b ELSE joined[c]]
      BY <1>20, <2>2
    <3> HIDE DEF b
    <3>3. enc \in [DOMAIN enc -> Seq(Entry)] /\ DOMAIN enc = {NoAsn} \cup DOMAIN joined
      BY <3>1, <3>2
    <3>4. enc[NoAsn] = b
      BY <3>2
    <3> QED BY <1>10, <2>2, <3>2, <3>3, <3>4 DEF b
  <2> QED BY <2>1, <2>2
<1> QED BY <1>8, <1>9, <1>11 DEF enc, numbers

(* Together: what the search makes of two halves, in terms of the encodings it chose
   from and of those it selects. *)
LEMMA MergeShape ==
    ASSUME NEW left \in Contexts(Entry), NEW right \in Contexts(Entry), NEW p \in Path,
           NEW fill \in BOOLEAN
    PROVE  LET x == Merge(left, right, p, fill)
           IN  /\ x \in Contexts(Entry) /\ x.hole = (~fill /\ (left.hole \/ right.hole))
               /\ \E joined : /\ joined \in [DOMAIN joined -> Seq(Entry)]
                              /\ DOMAIN joined \subseteq Context
                              /\ Chosen(left.enc, right.enc, joined)
                              /\ Selected(p, x.hole, joined, x.enc)
<1> DEFINE l == left.enc
           r == right.enc
           hole == ~fill /\ (left.hole \/ right.hole)
           joined == JoinedOf(left.enc, right.enc)
           enc == DefaultsOf(p, joined, hole)
           sizes == Tabulated([c \in DOMAIN enc |-> Len(enc[c])])
           kept == Keep(enc, sizes, hole)
<1>1. Merge(left, right, p, fill) = [enc |-> kept, hole |-> hole]
  BY DEF Merge, BranchContexts, JoinedOf, DefaultsOf
<1>2. /\ left.hole \in BOOLEAN /\ IsFiniteSet(DOMAIN l) /\ DOMAIN l \subseteq Context
      /\ right.hole \in BOOLEAN /\ IsFiniteSet(DOMAIN r) /\ DOMAIN r \subseteq Context
      /\ l \in [DOMAIN l -> Seq(Entry)] /\ r \in [DOMAIN r -> Seq(Entry)]
  BY ContextsType
<1>3. Chosen(l, r, joined) /\ joined \in [DOMAIN joined -> Seq(Entry)]
  BY <1>2, JoinedIsChosen
<1> HIDE DEF l, r, joined
<1>4. DOMAIN joined \subseteq Context /\ IsFiniteSet(DOMAIN joined) /\ hole \in BOOLEAN
  <2>1. DOMAIN joined \in SUBSET (DOMAIN l \cup DOMAIN r)
    BY <1>3 DEF Chosen
  <2>2. IsFiniteSet(DOMAIN l \cup DOMAIN r)
    BY <1>2, FS_Union
  <2>3. IsFiniteSet(DOMAIN joined)
    BY ONLY <2>1, <2>2, FS_Subset
  <2> QED BY <1>2, <2>1, <2>3
<1> HIDE DEF hole
<1>9. /\ NoAsn \in DOMAIN enc <=>
            NoAsn \in DOMAIN joined \/ (~hole /\ DOMAIN joined \ {NoAsn} # {})
      /\ NoAsn \in DOMAIN enc => Alone(p, hole, joined, enc[NoAsn])
      /\ \A c \in Nat : c \in DOMAIN enc <=> c \in DOMAIN joined
      /\ \A c \in DOMAIN joined \cap Nat : enc[c] = joined[c]
      /\ enc \in [DOMAIN enc -> Seq(Entry)] /\ DOMAIN enc \subseteq {NoAsn} \cup DOMAIN joined
  BY <1>3, <1>4, AloneIsShortest
<1> HIDE DEF enc
<1>7. sizes = [c \in DOMAIN enc |-> Len(enc[c])]
  BY TabulatedIsSame
<1> DEFINE D == {c \in DOMAIN enc : \/ c = NoAsn
                                    \/ /\ hole => c = 0
                                       /\ NoAsn \in DOMAIN enc => sizes[c] < sizes[NoAsn]}
<1>8. kept = [c \in D |-> enc[c]]
  <2> HIDE DEF sizes
  <2>1. kept = Tabulated([c \in D |-> enc[c]])
    BY DEF Keep
  <2> HIDE DEF kept, D
  <2> QED BY <2>1, TabulatedIsSame
<1> HIDE DEF sizes, kept
<1>10. IsFiniteSet(D) /\ D \in SUBSET Context
  <2>1. IsFiniteSet({NoAsn} \cup DOMAIN joined)
    BY <1>4, FS_AddElement, FS_Union, FS_Singleton
  <2>2. D \in SUBSET ({NoAsn} \cup DOMAIN joined)
    BY <1>9
  <2>3. IsFiniteSet(D)
    BY ONLY <2>1, <2>2, FS_Subset
  <2> QED BY <1>4, <2>2, <2>3 DEF Context
<1>11. kept \in [D -> Seq(Entry)] /\ DOMAIN kept = D
  BY <1>8, <1>9
<1>12. [enc |-> kept, hole |-> hole] \in Contexts(Entry)
  BY <1>4, <1>10, <1>11, ContextsIntro
<1>13. /\ NoAsn \in D <=> NoAsn \in DOMAIN enc
       /\ NoAsn \in D => kept[NoAsn] = enc[NoAsn]
  BY <1>8, <1>9
<1>14. \A c \in Nat : c \in D <=> /\ c \in DOMAIN joined /\ (hole => c = 0)
                                  /\ NoAsn \in D => Len(joined[c]) < Len(kept[NoAsn])
  <2> SUFFICES ASSUME NEW c \in Nat
               PROVE  c \in D <=> /\ c \in DOMAIN joined /\ (hole => c = 0)
                                  /\ NoAsn \in D => Len(joined[c]) < Len(kept[NoAsn])
    OBVIOUS
  <2>1. c # NoAsn
    BY DEF NoAsn
  <2>2. c \in DOMAIN enc => sizes[c] = Len(joined[c])
    BY <1>7, <1>9
  <2>3. NoAsn \in DOMAIN enc => sizes[NoAsn] = Len(kept[NoAsn])
    BY <1>7, <1>8, <1>13
  <2> QED BY <1>9, <1>13, <2>1, <2>2, <2>3
<1>15. \A c \in D \cap Nat : kept[c] = joined[c]
  BY <1>8, <1>9
<1> HIDE DEF D
<1>16. Selected(p, hole, joined, kept)
  BY <1>9, <1>11, <1>13, <1>14, <1>15 DEF Selected
<1>17. Merge(left, right, p, fill).hole = hole /\ Merge(left, right, p, fill).enc = kept
  BY <1>1
<1> QED BY <1>1, <1>3, <1>4, <1>12, <1>16, <1>17 DEF hole, l, r

(* The search of to_entries_minimal over the canonical trie of f. *)
LeafOf(node, path, fill) == LeafContexts(node[1], fill, << >>, << <<path, node[1]>> >>)

IsSearch(f, fill, contexts) ==
    contexts = [path \in Path |->
                  LET at == NodeAt(TrieOf(f), path)
                  IN  IF IsLeaf(at) THEN LeafOf(at, path, fill)
                      ELSE Merge(contexts[Append(path, 0)], contexts[Append(path, 1)], path, fill)]

Search(f, fill) == CHOOSE contexts : IsSearch(f, fill, contexts)

(* to_entries_minimal is the search. *)
LEMMA EntriesAreSearch ==
    \A f, fill : EntryContexts(TrieOf(f), fill) = Search(f, fill)[<< >>]
BY DEF EntryContexts, Search, IsSearch, LeafOf, Merge

(* What the search has for a leaf. *)
LEMMA LeafOfType ==
    ASSUME NEW asn \in Nat, NEW path \in Path, NEW fill \in BOOLEAN
    PROVE  LET x == LeafOf(Leaf(asn), path, fill)
           IN  /\ x \in Contexts(Entry)
               /\ asn = 0 => /\ x.hole /\ DOMAIN x.enc = {IF fill THEN NoAsn ELSE 0}
                             /\ \A c \in DOMAIN x.enc : x.enc[c] = << >>
               /\ asn # 0 => /\ ~x.hole /\ DOMAIN x.enc = {asn, NoAsn}
                             /\ x.enc[asn] = << >> /\ x.enc[NoAsn] = << <<path, asn>> >>
<1> DEFINE x == LeafOf(Leaf(asn), path, fill)
           one == << <<path, asn>> >>
           none == << >>
           bg == IF fill THEN NoAsn ELSE 0
<1>1. x = LeafContexts(asn, fill, none, one)
  BY DEF LeafOf, Leaf
<1>2. one \in Seq(Entry) /\ none \in Seq(Entry)
  <2>1. <<path, asn>> \in Entry
    BY DEF Entry
  <2> QED BY <2>1
<1>3. asn \in Context /\ NoAsn \in Context /\ 0 \in Context /\ asn # NoAsn /\ bg \in Context
  BY DEF Context, NoAsn
<1>4. CASE asn = 0
  <2> DEFINE enc == [c \in {bg} |-> none]
  <2>1. x = [enc |-> enc, hole |-> TRUE]
    BY <1>1, <1>4 DEF LeafContexts
  <2>2. enc \in [{bg} -> Seq(Entry)] /\ DOMAIN enc = {bg} /\ \A c \in {bg} : enc[c] = none
    BY <1>2
  <2>3. IsFiniteSet({bg}) /\ {bg} \in SUBSET Context
    BY <1>3, FS_Singleton
  <2> HIDE DEF enc, x, bg, one, none
  <2>4. x \in Contexts(Entry)
    BY <2>1, <2>2, <2>3, ContextsIntro
  <2> QED BY <1>4, <2>1, <2>2, <2>4 DEF x, bg, none
<1>5. CASE asn # 0
  <2> DEFINE enc == [c \in {asn, NoAsn} |-> IF c = asn THEN none ELSE one]
  <2>1. x = [enc |-> enc, hole |-> FALSE]
    BY <1>1, <1>5 DEF LeafContexts
  <2>2. /\ enc \in [{asn, NoAsn} -> Seq(Entry)] /\ DOMAIN enc = {asn, NoAsn}
        /\ enc[asn] = none /\ enc[NoAsn] = one
    BY <1>2, <1>3
  <2>3. IsFiniteSet({asn, NoAsn}) /\ {asn, NoAsn} \in SUBSET Context
    <3>1. {asn, NoAsn} = {asn} \cup {NoAsn}
      OBVIOUS
    <3>2. IsFiniteSet({asn}) /\ IsFiniteSet({NoAsn})
      BY FS_Singleton
    <3> QED BY <1>3, <3>1, <3>2, FS_Union
  <2> HIDE DEF enc, x, one, none
  <2>4. x \in Contexts(Entry)
    BY <2>1, <2>2, <2>3, ContextsIntro
  <2> QED BY <1>5, <2>1, <2>2, <2>4 DEF x, one, none
<1> QED BY <1>4, <1>5

(* What it has for a path: that of a leaf, or what it makes of the halves. *)
LEMMA SearchEquation ==
    ASSUME NEW f \in [Address -> Nat], NEW fill \in BOOLEAN, NEW p \in Path
    PROVE  /\ Search(f, fill)[p] \in Contexts(Entry)
           /\ IsLeaf(Below(f)[p]) => /\ Below(f)[p] = Leaf(Below(f)[p][1])
                                     /\ Below(f)[p][1] \in Nat
                                     /\ Search(f, fill)[p] = LeafOf(Below(f)[p], p, fill)
           /\ ~IsLeaf(Below(f)[p]) =>
                 /\ Len(p) # V6Bits
                 /\ Search(f, fill)[p] = Merge(Search(f, fill)[Append(p, 0)],
                                               Search(f, fill)[Append(p, 1)], p, fill)
<1> DEFINE V == Contexts(Entry)
           stop == {q \in Path : IsLeaf(Below(f)[q])}
           ends == [q \in Path |-> IF IsLeaf(Below(f)[q]) THEN LeafOf(Below(f)[q], q, fill)
                                   ELSE LeafOf(Leaf(0), q, fill)]
           step == [q \in Path |-> [pair \in V \X V |-> Merge(pair[1], pair[2], q, fill)]]
<1>1. stop \in SUBSET Path /\ \A q \in Path : Len(q) = V6Bits => q \in stop
  BY AddressIsLeaf
<1>2. ASSUME NEW q \in Path, IsLeaf(Below(f)[q])
      PROVE  /\ Below(f)[q] = Leaf(Below(f)[q][1]) /\ Below(f)[q][1] \in Nat
             /\ LeafOf(Below(f)[q], q, fill) \in V
  <2>1. PICK a \in Address : Covers(q, a)
    BY CoversSome
  <2>2. Below(f)[q] = Leaf(f[a]) /\ Below(f)[q][1] = f[a] /\ f[a] \in Nat
    BY <1>2, <2>1, LeafIsUniform
  <2>3. LeafOf(Leaf(f[a]), q, fill) \in V
    BY <2>2, LeafOfType
  <2> QED BY <2>2, <2>3
<1>3. ends \in [Path -> V]
  <2>1. \A q \in Path : LeafOf(Leaf(0), q, fill) \in V
    BY LeafOfType
  <2> HIDE DEF V
  <2> QED BY <1>2, <2>1
<1>4. step \in [Path -> [V \X V -> V]]
  <2>1. ASSUME NEW q \in Path, NEW pair \in V \X V PROVE Merge(pair[1], pair[2], q, fill) \in V
    BY MergeShape
  <2> HIDE DEF V
  <2> QED BY <2>1
<1> HIDE DEF V, stop, ends, step
<1>5. PICK h \in [Path -> V] : RecursOver(h, Path, stop, ends, step)
  BY <1>1, <1>3, <1>4, PathRecursion
<1>6. \A q \in Path : q \notin stop => Append(q, 0) \in Path /\ Append(q, 1) \in Path
  BY <1>1, PathAppend, PathType, WidthIsNat DEF Bit
<1>7. IsSearch(f, fill, h)
  <2> DEFINE again == [path \in Path |->
                  LET at == NodeAt(TrieOf(f), path)
                  IN  IF IsLeaf(at) THEN LeafOf(at, path, fill)
                      ELSE Merge(h[Append(path, 0)], h[Append(path, 1)], path, fill)]
  <2>1. ASSUME NEW q \in Path PROVE h[q] = again[q]
    <3>1. NodeAt(TrieOf(f), q) = Below(f)[q]
      BY NodeIsBelow
    <3>2. CASE IsLeaf(Below(f)[q])
      <4>1. q \in stop /\ h[q] = ends[q]
        BY <1>5, <3>2 DEF RecursOver, stop
      <4> QED BY <3>1, <3>2, <4>1 DEF ends
    <3>3. CASE ~IsLeaf(Below(f)[q])
      <4>1. q \notin stop /\ h[q] = step[q][<<h[Append(q, 0)], h[Append(q, 1)]>>]
        BY <1>5, <3>3 DEF RecursOver, stop
      <4>2. <<h[Append(q, 0)], h[Append(q, 1)]>> \in V \X V
        BY <1>5, <1>6, <4>1
      <4>3. h[q] = Merge(h[Append(q, 0)], h[Append(q, 1)], q, fill)
        BY <4>1, <4>2 DEF step
      <4> QED BY <3>1, <3>3, <4>3
    <3> QED BY <3>2, <3>3
  <2>2. h = again
    BY <1>5, <2>1
  <2> QED BY <2>2 DEF IsSearch
<1>8. IsSearch(f, fill, Search(f, fill))
  BY <1>7, Zenon DEF Search
<1> DEFINE M == Search(f, fill)
<1>9. ASSUME NEW q \in Path
      PROVE  /\ IsLeaf(Below(f)[q]) => M[q] = LeafOf(Below(f)[q], q, fill)
             /\ ~IsLeaf(Below(f)[q]) => M[q] = Merge(M[Append(q, 0)], M[Append(q, 1)], q, fill)
  BY <1>8, NodeIsBelow DEF IsSearch
<1> HIDE DEF M
<1> DEFINE T == {q \in Path : M[q] \in V}
<1>10. \A q \in Path : Len(q) = V6Bits => q \in T
  BY <1>1, <1>2, <1>9 DEF stop
<1>11. ASSUME NEW q \in Path, Len(q) # V6Bits, Append(q, 0) \in T, Append(q, 1) \in T
       PROVE  q \in T
  <2>1. Merge(M[Append(q, 0)], M[Append(q, 1)], q, fill) \in V
    BY <1>11, MergeShape DEF V
  <2> QED BY <1>2, <1>9, <2>1
<1> HIDE DEF T
<1>12. p \in T
  BY <1>10, <1>11, PathInduction
<1>13. M[p] \in V
  BY <1>12 DEF T
<1>14. ~IsLeaf(Below(f)[p]) => Len(p) # V6Bits
  BY <1>1 DEF stop
<1> QED BY <1>2, <1>9, <1>13, <1>14 DEF M, V

---------------------------------------------------------------------------
(* The entries are about the part of f under a path, never say AS0, and together with
   the context tell every address there its ASN. *)
Says(f, fill, p, c, entries) ==
    /\ \A e \in Range(entries) : Within(e[1], p) /\ e[2] # 0
    /\ \A a \in Address : Covers(p, a) /\ (fill => f[a] # 0) =>
          \A bg \in Nat : c \in {NoAsn, bg} => Tells(entries, a, bg, f[a])

(* What stands alone stands in any context. *)
LEMMA SaysAlone ==
    ASSUME NEW f, NEW fill, NEW p, NEW c, NEW b \in {c, NoAsn}, NEW entries,
           Says(f, fill, p, b, entries)
    PROVE  Says(f, fill, p, c, entries)
<1>1. \A bg \in Nat : c \in {NoAsn, bg} => b \in {NoAsn, bg}
  OBVIOUS
<1> QED BY <1>1 DEF Says

(* Nothing outside a path speaks of the addresses under it. *)
LEMMA OverIsWithin ==
    ASSUME NEW p \in Path, NEW entries \in Seq(Entry), \A e \in Range(entries) : Within(e[1], p),
           NEW a \in Address, ~Covers(p, a)
    PROVE  Over(entries, a) = {}
<1>1. Range(entries) \subseteq Entry
  BY RangeOfBoth
<1>2. \A e \in Range(entries) : ~Covers(e[1], a)
  BY <1>1, WithinCovers DEF Entry
<1> QED BY <1>2 DEF Over

(* Both halves of a path say what the path says. *)
LEMMA SaysBoth ==
    ASSUME NEW f, NEW fill, NEW p \in Path, Len(p) # V6Bits, NEW c,
           NEW l \in Seq(Entry), Says(f, fill, Append(p, 0), c, l),
           NEW r \in Seq(Entry), Says(f, fill, Append(p, 1), c, r)
    PROVE  /\ Says(f, fill, p, c, l \o r)
           /\ \A e \in Range(l \o r) : Len(e[1]) > Len(p)
<1> DEFINE pl == Append(p, 0)
           pr == Append(p, 1)
           both == l \o r
<1>1. /\ pl \in Path /\ pr \in Path
      /\ \A a \in Address : Covers(p, a) <=> Covers(pl, a) \/ Covers(pr, a)
      /\ Apart(pl, pr)
  BY HalvesOfPath
<1>2. /\ Range(both) = Range(l) \cup Range(r)
      /\ Range(l) \subseteq Entry /\ Range(r) \subseteq Entry
  BY RangeOfBoth
<1>3. \A e \in Range(l) : Within(e[1], p) /\ Len(e[1]) > Len(p) /\ e[2] # 0
  <2> TAKE e \in Range(l)
  <2>1. e[1] \in Path /\ Within(e[1], Append(p, 0)) /\ e[2] # 0
    BY <1>2 DEF Says, Entry
  <2> QED BY <2>1, WithinHalf DEF Bit
<1>4. \A e \in Range(r) : Within(e[1], p) /\ Len(e[1]) > Len(p) /\ e[2] # 0
  <2> TAKE e \in Range(r)
  <2>1. e[1] \in Path /\ Within(e[1], Append(p, 1)) /\ e[2] # 0
    BY <1>2 DEF Says, Entry
  <2> QED BY <2>1, WithinHalf DEF Bit
<1> HIDE DEF pl, pr, both
<1>5. ASSUME NEW a \in Address, Covers(p, a), fill => f[a] # 0, NEW bg \in Nat, c \in {NoAsn, bg}
      PROVE  Tells(both, a, bg, f[a])
  <2>1. Over(both, a) = Over(l, a) \cup Over(r, a)
    BY <1>2 DEF Over
  <2>2. CASE Covers(pl, a)
    <3>1. ~Covers(pr, a)
      BY <1>1, <2>2 DEF Apart
    <3>2. Over(r, a) = {}
      BY <1>1, <3>1, OverIsWithin DEF Says, pr
    <3>3. Tells(l, a, bg, f[a])
      BY <1>5, <2>2 DEF Says, pl
    <3> QED BY <2>1, <3>2, <3>3 DEF Tells
  <2>3. CASE Covers(pr, a)
    <3>1. ~Covers(pl, a)
      BY <1>1, <2>3 DEF Apart
    <3>2. Over(l, a) = {}
      BY <1>1, <3>1, OverIsWithin DEF Says, pl
    <3>3. Tells(r, a, bg, f[a])
      BY <1>5, <2>3 DEF Says, pr
    <3> QED BY <2>1, <3>2, <3>3 DEF Tells
  <2> QED BY <1>1, <1>5, <2>2, <2>3
<1>6. Says(f, fill, p, c, both)
  BY <1>2, <1>3, <1>4, <1>5 DEF Says
<1>7. \A e \in Range(both) : Len(e[1]) > Len(p)
  BY <1>2, <1>3, <1>4
<1> QED BY <1>6, <1>7 DEF both

(* A default over the whole subtree, and what corrects it. *)
LEMMA SaysCovered ==
    ASSUME NEW f, NEW fill, NEW p \in Path, NEW c \in Nat, c # 0,
           NEW fixups \in Seq(Entry), Says(f, fill, p, c, fixups),
           \A e \in Range(fixups) : Len(e[1]) > Len(p)
    PROVE  Says(f, fill, p, NoAsn, Covered(p, c, fixups))
<1> DEFINE top == <<p, c>>
           entries == Covered(p, c, fixups)
<1>1. Range(entries) = {top} \cup Range(fixups)
  <2> DEFINE one == <<top>>
  <2>1. one \in Seq(Entry) /\ Range(one) = {top}
    <3>1. top \in Entry
      BY DEF Entry
    <3> QED BY <3>1, RangeOfOne
  <2>2. entries = one \o fixups
    BY DEF Covered
  <2> HIDE DEF one, entries, top
  <2> QED BY <2>1, <2>2, RangeOfBoth
<1>2. top[1] = p /\ top[2] = c
  OBVIOUS
<1>3. Within(p, p) /\ Len(p) \in Nat
  BY WithinSelf, PathType
<1>4. Range(fixups) \subseteq Entry
  BY RangeOfBoth
<1>8. \A e \in Range(fixups) : Len(e[1]) \in Nat
  BY <1>4, PathType DEF Entry
<1> HIDE DEF top, entries
<1>5. \A e \in Range(entries) : Within(e[1], p) /\ e[2] # 0
  BY <1>1, <1>2, <1>3 DEF Says
<1>6. ASSUME NEW a \in Address, Covers(p, a), fill => f[a] # 0, NEW bg \in Nat
      PROVE  Tells(entries, a, bg, f[a])
  <2>1. Over(entries, a) = {top} \cup Over(fixups, a)
    BY <1>1, <1>2, <1>6 DEF Over
  <2>2. Tells(fixups, a, c, f[a])
    BY <1>6 DEF Says
  <2>3. ASSUME NEW e \in Over(entries, a), \A d \in Over(entries, a) : Len(d[1]) <= Len(e[1])
        PROVE  e[2] = f[a]
    <3>1. CASE Over(fixups, a) = {}
      BY <1>2, <2>1, <2>2, <2>3, <3>1 DEF Tells
    <3>2. CASE Over(fixups, a) # {}
      <4>1. PICK d \in Over(fixups, a) : TRUE
        BY <3>2
      <4>2. d \in Range(fixups)
        BY <4>1 DEF Over
      <4>3. Len(d[1]) > Len(p) /\ Len(d[1]) \in Nat /\ Len(d[1]) <= Len(e[1])
        BY <1>8, <2>1, <2>3, <4>1, <4>2
      <4>4. e # top
        BY <1>2, <1>3, <4>3
      <4>5. e \in Over(fixups, a)
        BY <2>1, <2>3, <4>4
      <4> QED BY <2>1, <2>2, <2>3, <3>2, <4>5 DEF Tells
    <3> QED BY <3>1, <3>2
  <2> QED BY <2>1, <2>3 DEF Tells
<1>7. Says(f, fill, p, NoAsn, entries)
  BY <1>5, <1>6 DEF Says
<1> QED BY <1>7 DEF entries

(* What the search has for a subtree is right in its context, and says which contexts
   there are: only that of unassigned space above a hole, never that one elsewhere. *)
SearchFacts(f, fill, p, x) ==
    /\ IF ~fill /\ x.hole THEN 0 \in DOMAIN x.enc /\ NoAsn \notin DOMAIN x.enc
       ELSE NoAsn \in DOMAIN x.enc /\ 0 \notin DOMAIN x.enc
    /\ \A c \in DOMAIN x.enc : Says(f, fill, p, c, x.enc[c])

(* The facts hold of leaves. *)
LEMMA LeafFacts ==
    ASSUME NEW f \in [Address -> Nat], NEW fill \in BOOLEAN, NEW p \in Path, IsLeaf(Below(f)[p])
    PROVE  SearchFacts(f, fill, p, Search(f, fill)[p])
<1> DEFINE asn == Below(f)[p][1]
           x == Search(f, fill)[p]
           none == << >>
           one == << <<p, asn>> >>
<1>1. asn \in Nat /\ x = LeafOf(Leaf(asn), p, fill)
  BY SearchEquation
<1>2. \A a \in Address : Covers(p, a) => f[a] = asn
  BY LeafIsUniform
<1>3. /\ asn = 0 => /\ x.hole /\ DOMAIN x.enc = {IF fill THEN NoAsn ELSE 0}
                    /\ \A c \in DOMAIN x.enc : x.enc[c] = none
      /\ asn # 0 => /\ ~x.hole /\ DOMAIN x.enc = {asn, NoAsn}
                    /\ x.enc[asn] = none /\ x.enc[NoAsn] = one
  BY <1>1, LeafOfType
<1>4. Range(none) = {} /\ Range(one) = {<<p, asn>>}
  BY RangeOfOne
<1>5. NoAsn # 0 /\ Within(p, p) /\ asn # NoAsn
  BY <1>1, WithinSelf DEF NoAsn
<1> HIDE DEF asn, x, none, one
<1>6. \A a : Over(none, a) = {}
  BY <1>4 DEF Over
<1>7. CASE asn = 0
  <2>1. ASSUME NEW c \in DOMAIN x.enc PROVE Says(f, fill, p, c, x.enc[c])
    <3>1. x.enc[c] = none /\ c = IF fill THEN NoAsn ELSE 0
      BY <1>3, <1>7, <2>1
    <3>2. ASSUME NEW a \in Address, Covers(p, a), fill => f[a] # 0, NEW bg \in Nat, c \in {NoAsn, bg}
          PROVE  Tells(none, a, bg, f[a])
      <4>1. f[a] = 0 /\ ~fill
        BY <1>2, <1>7, <3>2
      <4>2. f[a] = bg
        BY <1>5, <3>1, <3>2, <4>1
      <4> QED BY <1>6, <4>2 DEF Tells
    <3>3. Says(f, fill, p, c, none)
      BY <1>4, <3>2 DEF Says
    <3> QED BY <3>1, <3>3
  <2> QED BY <1>3, <1>5, <1>7, <2>1 DEF SearchFacts, x
<1>8. CASE asn # 0
  <2>1. Says(f, fill, p, asn, none)
    BY <1>1, <1>2, <1>4, <1>5, <1>6, <1>8 DEF Says, Tells
  <2>2. Says(f, fill, p, NoAsn, one)
    <3>1. \A a \in Address : Covers(p, a) => Over(one, a) = {<<p, asn>>}
      BY <1>4 DEF Over
    <3>2. \A a \in Address, bg \in Nat : Covers(p, a) => Tells(one, a, bg, f[a])
      <4> TAKE a \in Address, bg \in Nat
      <4> HAVE Covers(p, a)
      <4>0. Over(one, a) = {<<p, asn>>} /\ <<p, asn>>[2] = asn
        BY <3>1
      <4> DEFINE top == <<p, asn>>
      <4> HIDE DEF top
      <4>1. Over(one, a) # {} /\ \A e \in Over(one, a) : e[2] = asn
        BY ONLY <4>0 DEF top
      <4>2. f[a] = asn
        BY <1>2
      <4> QED BY <4>1, <4>2 DEF Tells
    <3>3. \A e \in Range(one) : Within(e[1], p) /\ e[2] # 0
      BY <1>4, <1>5, <1>8
    <3> QED BY <3>2, <3>3 DEF Says
  <2> QED BY <1>3, <1>5, <1>8, <2>1, <2>2 DEF SearchFacts, x
<1> QED BY <1>7, <1>8

(* In which contexts there is a pair to try. *)
LEMMA SomeMates ==
    ASSUME NEW left, NEW right, NEW c
    PROVE  Mates(left, right, c) # {} <=> \/ c \in DOMAIN left /\ c \in DOMAIN right
                                          \/ NoAsn \in DOMAIN left /\ c \in DOMAIN right
                                          \/ c \in DOMAIN left /\ NoAsn \in DOMAIN right
<1> DEFINE all == {<<c, c>>, <<NoAsn, c>>, <<c, NoAsn>>}
<1>1. \A q \in all : \/ q[1] = c /\ q[2] = c
                     \/ q[1] = NoAsn /\ q[2] = c
                     \/ q[1] = c /\ q[2] = NoAsn
  OBVIOUS
<1>2. /\ c \in DOMAIN left /\ c \in DOMAIN right => <<c, c>> \in Mates(left, right, c)
      /\ NoAsn \in DOMAIN left /\ c \in DOMAIN right => <<NoAsn, c>> \in Mates(left, right, c)
      /\ c \in DOMAIN left /\ NoAsn \in DOMAIN right => <<c, NoAsn>> \in Mates(left, right, c)
  BY DEF Mates
<1>3. \A q \in Mates(left, right, c) : q \in all /\ q[1] \in DOMAIN left /\ q[2] \in DOMAIN right
  BY DEF Mates
<1> HIDE DEF all
<1> QED BY <1>1, <1>2, <1>3

(* They hold of what the search makes of two halves if they hold of the halves. *)
LEMMA MergeFacts ==
    ASSUME NEW f, NEW fill \in BOOLEAN, NEW p \in Path, Len(p) # V6Bits,
           NEW left \in Contexts(Entry), SearchFacts(f, fill, Append(p, 0), left),
           NEW right \in Contexts(Entry), SearchFacts(f, fill, Append(p, 1), right)
    PROVE  SearchFacts(f, fill, p, Merge(left, right, p, fill))
<1> DEFINE x == Merge(left, right, p, fill)
           l == left.enc
           r == right.enc
<1>1. PICK joined : /\ joined \in [DOMAIN joined -> Seq(Entry)]
                    /\ DOMAIN joined \subseteq Context
                    /\ Chosen(l, r, joined) /\ Selected(p, x.hole, joined, x.enc)
  BY MergeShape
<1>2. /\ x \in Contexts(Entry) /\ x.hole = (~fill /\ (left.hole \/ right.hole))
      /\ DOMAIN x.enc \subseteq Context
  BY MergeShape, ContextsType
<1>3. /\ left.hole \in BOOLEAN /\ right.hole \in BOOLEAN
      /\ l \in [DOMAIN l -> Seq(Entry)] /\ r \in [DOMAIN r -> Seq(Entry)]
  BY ContextsType
<1> HIDE DEF x
<1>4. NoAsn # 0 /\ \A c \in Nat : c # NoAsn
  BY DEF NoAsn
<1>5. IF ~fill /\ x.hole THEN 0 \in DOMAIN joined /\ NoAsn \notin DOMAIN joined
      ELSE NoAsn \in DOMAIN joined /\ 0 \notin DOMAIN joined
  <2>1. \A c : c \in DOMAIN joined <=> \/ c \in DOMAIN l /\ c \in DOMAIN r
                                       \/ NoAsn \in DOMAIN l /\ c \in DOMAIN r
                                       \/ c \in DOMAIN l /\ NoAsn \in DOMAIN r
    <3> TAKE c
    <3>1. Mates(l, r, c) # {} <=> \/ c \in DOMAIN l /\ c \in DOMAIN r
                                  \/ NoAsn \in DOMAIN l /\ c \in DOMAIN r
                                  \/ c \in DOMAIN l /\ NoAsn \in DOMAIN r
      BY SomeMates
    <3> QED BY <1>1, <3>1 DEF Chosen
  <2>2. /\ IF ~fill /\ left.hole THEN 0 \in DOMAIN l /\ NoAsn \notin DOMAIN l
           ELSE NoAsn \in DOMAIN l /\ 0 \notin DOMAIN l
        /\ IF ~fill /\ right.hole THEN 0 \in DOMAIN r /\ NoAsn \notin DOMAIN r
           ELSE NoAsn \in DOMAIN r /\ 0 \notin DOMAIN r
    BY DEF SearchFacts
  <2>3. CASE ~fill /\ x.hole
    BY <1>2, <2>1, <2>2, <2>3
  <2>4. CASE ~(~fill /\ x.hole)
    BY <1>2, <2>1, <2>2, <2>4
  <2> QED BY <2>3, <2>4
<1>6. ASSUME NEW c \in DOMAIN joined
      PROVE  /\ Says(f, fill, p, c, joined[c])
             /\ \A e \in Range(joined[c]) : Len(e[1]) > Len(p)
  <2>1. PICK q \in Mates(l, r, c) : joined[c] = l[q[1]] \o r[q[2]]
    BY <1>1, <1>6 DEF Chosen
  <2>2. /\ q[1] \in {c, NoAsn} /\ q[1] \in DOMAIN l
        /\ q[2] \in {c, NoAsn} /\ q[2] \in DOMAIN r
    BY <2>1 DEF Mates
  <2>3. l[q[1]] \in Seq(Entry) /\ r[q[2]] \in Seq(Entry)
    BY <1>3, <2>2
  <2>4. Says(f, fill, Append(p, 0), q[1], l[q[1]]) /\ Says(f, fill, Append(p, 1), q[2], r[q[2]])
    BY <2>2 DEF SearchFacts
  <2>5. Says(f, fill, Append(p, 0), c, l[q[1]]) /\ Says(f, fill, Append(p, 1), c, r[q[2]])
    BY <2>2, <2>4, SaysAlone
  <2> QED BY <2>1, <2>3, <2>5, SaysBoth
<1>7. IF ~fill /\ x.hole THEN 0 \in DOMAIN x.enc /\ NoAsn \notin DOMAIN x.enc
      ELSE NoAsn \in DOMAIN x.enc /\ 0 \notin DOMAIN x.enc
  BY <1>1, <1>2, <1>5 DEF Selected
<1>8. NoAsn \in DOMAIN x.enc => Says(f, fill, p, NoAsn, x.enc[NoAsn])
  <2> SUFFICES ASSUME NoAsn \in DOMAIN x.enc PROVE Says(f, fill, p, NoAsn, x.enc[NoAsn])
    OBVIOUS
  <2>1. Alone(p, x.hole, joined, x.enc[NoAsn])
    BY <1>1 DEF Selected
  <2>2. CASE NoAsn \in DOMAIN joined /\ x.enc[NoAsn] = joined[NoAsn]
    BY <1>6, <2>2
  <2>3. ASSUME NEW c \in DOMAIN joined \ {NoAsn}, x.enc[NoAsn] = Covered(p, c, joined[c])
        PROVE  Says(f, fill, p, NoAsn, x.enc[NoAsn])
    <3>1. c \in Nat /\ c # 0
      BY <1>1, <1>5, <1>7, <2>3 DEF Context
    <3>2. joined[c] \in Seq(Entry)
      BY <1>1, <2>3
    <3> QED BY <1>6, <2>3, <3>1, <3>2, SaysCovered
  <2> QED BY <2>1, <2>2, <2>3 DEF Alone
<1>9. \A c \in DOMAIN x.enc : Says(f, fill, p, c, x.enc[c])
  <2> TAKE c \in DOMAIN x.enc
  <2>1. CASE c = NoAsn
    BY <1>8, <2>1
  <2>2. CASE c # NoAsn
    <3>1. c \in Nat
      BY <1>2, <2>2 DEF Context
    <3>2. c \in DOMAIN joined /\ x.enc[c] = joined[c]
      BY <1>1, <3>1 DEF Selected
    <3> QED BY <1>6, <3>2
  <2> QED BY <2>1, <2>2
<1> QED BY <1>7, <1>9 DEF SearchFacts, x

(* So they hold of the search, from the addresses up. *)
LEMMA SearchIsRight ==
    ASSUME NEW f \in [Address -> Nat], NEW fill \in BOOLEAN, NEW p \in Path
    PROVE  SearchFacts(f, fill, p, Search(f, fill)[p])
<1> DEFINE M == Search(f, fill)
           T == {q \in Path : SearchFacts(f, fill, q, M[q])}
<1>1. \A q \in Path : Len(q) = V6Bits => q \in T
  BY AddressIsLeaf, LeafFacts
<1>2. ASSUME NEW q \in Path, Len(q) # V6Bits, Append(q, 0) \in T, Append(q, 1) \in T
      PROVE  q \in T
  <2>1. CASE IsLeaf(Below(f)[q])
    BY <2>1, LeafFacts
  <2>2. CASE ~IsLeaf(Below(f)[q])
    <3>1. M[q] = Merge(M[Append(q, 0)], M[Append(q, 1)], q, fill)
      BY <2>2, SearchEquation
    <3>2. Append(q, 0) \in Path /\ Append(q, 1) \in Path
      BY <1>2
    <3>3. M[Append(q, 0)] \in Contexts(Entry) /\ M[Append(q, 1)] \in Contexts(Entry)
      BY <3>2, SearchEquation
    <3>4. SearchFacts(f, fill, Append(q, 0), M[Append(q, 0)]) /\ SearchFacts(f, fill, Append(q, 1), M[Append(q, 1)])
      BY <1>2
    <3> HIDE DEF M
    <3>5. SearchFacts(f, fill, q, M[q])
      BY <1>2, <3>1, <3>3, <3>4, MergeFacts
    <3> QED BY <3>5
  <2> QED BY <2>1, <2>2
<1> HIDE DEF T
<1>3. p \in T
  BY <1>1, <1>2, PathInduction
<1> QED BY <1>3 DEF T, M

(* The entries of the overlapping form, and what they tell of an address. *)
LEMMA MinimalTells ==
    ASSUME NEW f \in [Address -> Nat], NEW fill \in BOOLEAN
    PROVE  LET entries == EntriesMinimal(TrieOf(f), fill)
           IN  /\ entries \in Seq(Entry) /\ \A e \in Range(entries) : e[2] # 0
               /\ \A a \in Address : (fill => f[a] # 0) => Tells(entries, a, 0, f[a])
<1> DEFINE x == Search(f, fill)[<< >>]
           entries == EntriesMinimal(TrieOf(f), fill)
<1>1. << >> \in Path /\ \A a \in Address : Covers(<< >>, a)
  BY EmptyPath, CoversIsPointwise
<1>2. SearchFacts(f, fill, << >>, x)
  BY <1>1, SearchIsRight
<1>3. x \in Contexts(Entry) /\ x.enc \in [DOMAIN x.enc -> Seq(Entry)]
  <2>1. x \in Contexts(Entry)
    BY <1>1, SearchEquation
  <2> HIDE DEF x
  <2> QED BY <2>1, ContextsType
<1>4. entries = AtRoot(x, << >>)
  BY EntriesAreSearch DEF EntriesMinimal
<1> HIDE DEF x, entries
<1>5. PICK c \in DOMAIN x.enc : c \in {0, NoAsn} /\ entries = x.enc[c]
  <2>1. CASE 0 \in DOMAIN x.enc
    BY <1>4, <2>1 DEF AtRoot
  <2>2. CASE 0 \notin DOMAIN x.enc
    <3>1. NoAsn \in DOMAIN x.enc
      BY <1>2, <2>2 DEF SearchFacts
    <3> QED BY <1>4, <2>2, <3>1 DEF AtRoot
  <2> QED BY <2>1, <2>2
<1>6. Says(f, fill, << >>, c, entries)
  BY <1>2, <1>5 DEF SearchFacts
<1>7. \A a \in Address : (fill => f[a] # 0) => Tells(entries, a, 0, f[a])
  BY <1>1, <1>5, <1>6 DEF Says
<1>8. entries \in Seq(Entry) /\ \A e \in Range(entries) : e[2] # 0
  BY <1>3, <1>5, <1>6 DEF Says
<1> QED BY <1>7, <1>8 DEF entries

(* Theorem.  Always, both text files of the map read back as the map: what decode
   writes, and with fill a map that extends it. *)
THEOREM TextFilesReadBack == Spec => []TextRoundTrip
<1>1. TInv => TextRoundTrip
  <2> SUFFICES ASSUME TInv, NEW fill \in BOOLEAN, NEW overlapping \in BOOLEAN
               PROVE  \A lines \in {WrittenLines(map, fill, overlapping)} :
                      \A back \in {UpdateMulti(EmptyMap, ParsedLines(lines))} :
                          /\ \A i \in DOMAIN lines : lines[i][2] # 0 /\ IsCanonical(lines[i][1])
                          /\ IF fill
                             THEN \A a \in Address : assigned[a] # 0 => Lookup(back, a) = assigned[a]
                             ELSE back = map
    BY DEF TextRoundTrip
  <2> DEFINE lines == WrittenLines(map, fill, overlapping)
             entries == ToEntries(map, fill, overlapping)
             zeros == [a \in Address |-> 0]
  <2>1. map = TrieOf(assigned) /\ assigned \in [Address -> Nat]
    BY DEF TInv, IInv, MapIsCanonical
  <2>2. /\ entries \in Seq(Entry) /\ \A e \in Range(entries) : e[2] # 0
        /\ \A a \in Address : (fill => assigned[a] # 0) => Tells(entries, a, 0, assigned[a])
    <3>1. CASE overlapping
      BY <2>1, <3>1, MinimalTells DEF ToEntries
    <3>2. CASE ~overlapping
      <4>1. entries = EntriesFlat(map, fill) /\ entries = Flat(assigned, fill)[<< >>]
        BY <2>1, <3>2, FlatIsFlat DEF ToEntries
      <4> DEFINE flat == Flat(assigned, fill)[<< >>]
      <4>4. flat \in Seq(Entry) /\ FlatFacts(assigned, fill, << >>, Range(flat))
        BY <2>1, EmptyPath, FlatEquation, FlatIsRight
      <4> HIDE DEF entries, flat
      <4>2. entries \in Seq(Entry) /\ \A e \in Range(entries) : e[2] # 0
        BY <4>1, <4>4 DEF FlatFacts, flat
      <4>3. \A a \in Address : (fill => assigned[a] # 0) => Tells(entries, a, 0, assigned[a])
        BY <2>1, <4>1, FlatTells
      <4> QED BY <4>2, <4>3
    <3> QED BY <3>1, <3>2
  <2>3. /\ ParsedLines(lines) = entries /\ DOMAIN lines = DOMAIN entries
        /\ \A i \in DOMAIN lines : IsCanonical(lines[i][1]) /\ lines[i][2] = entries[i][2]
    BY <2>2, LinesReadBack
  <2> HIDE DEF lines, entries
  <2>4. \A i \in DOMAIN lines : lines[i][2] # 0 /\ IsCanonical(lines[i][1])
    BY <2>2, <2>3 DEF Range
  <2>5. zeros \in [Address -> Nat] /\ EmptyMap = TrieOf(zeros) /\ \A a \in Address : zeros[a] = 0
    BY EmptyIsTrie
  <2> HIDE DEF zeros
  <2>6. ASSUME fill, NEW a \in Address, assigned[a] # 0
        PROVE  Lookup(UpdateMulti(EmptyMap, entries), a) = assigned[a]
    BY <2>2, <2>5, <2>6, LookupAfterUpdate DEF Entry
  <2>7. ASSUME ~fill
        PROVE  UpdateMulti(EmptyMap, entries) = map
    BY <2>1, <2>2, <2>5, <2>7, UpdateTells DEF Entry
  <2> QED BY <2>3, <2>4, <2>6, <2>7 DEF lines
<1> QED BY <1>1, TypedInvariant, PTL

---------------------------------------------------------------------------
(* The table of fewest lines over the canonical trie of f. *)
IsFewest(f, asns, fill, fewest) ==
    fewest = [path \in Path |->
                LET at == NodeAt(TrieOf(f), path)
                IN  IF IsLeaf(at) THEN FewestAtLeaf(at[1], asns, fill)
                    ELSE Tabulated(FewestAtBranch(fewest[Append(path, 0)],
                                                  fewest[Append(path, 1)], asns))]

Fewest(f, asns, fill) == CHOOSE fewest : IsFewest(f, asns, fill, fewest)

(* The number of fewest lines is that of the table. *)
LEMMA LinesAreFewest ==
    \A f, asns, fill : FewestLines(TrieOf(f), asns, fill) = Fewest(f, asns, fill)[<< >>][0]
BY DEF FewestLines, Fewest, IsFewest

(* Half the space of a path is the space of its halves, and none has more than all. *)
LEMMA RoomOfPath ==
    ASSUME NEW p \in Path
    PROVE  /\ Room(V6Bits - Len(p)) \in Nat \ {0} /\ Room(V6Bits) \in Nat \ {0}
           /\ Room(V6Bits - Len(p)) <= Room(V6Bits)
           /\ Len(p) # V6Bits =>
                 /\ Append(p, 0) \in Path /\ Append(p, 1) \in Path
                 /\ Room(V6Bits - Len(p)) = Room(V6Bits - Len(Append(p, 0)))
                                              + Room(V6Bits - Len(Append(p, 1)))
<1>1. V6Bits - Len(p) \in 0 .. V6Bits /\ V6Bits \in Nat /\ Len(p) \in Nat
  BY PathType, WidthIsNat
<1>2. \A b \in Nat : Room(b) \in Nat \ {0} /\ Room(b + 1) = 2 * Room(b)
  BY RoomDoubles
<1>3. Room(V6Bits - Len(p)) <= Room(V6Bits)
  <2> DEFINE S == {i \in 0 .. V6Bits : Room(V6Bits - i) <= Room(V6Bits)}
  <2>1. 0 \in S
    <3>1. V6Bits - 0 = V6Bits /\ 0 \in 0 .. V6Bits
      BY <1>1
    <3> QED BY <1>1, <1>2, <3>1
  <2>2. ASSUME NEW i \in 1 .. V6Bits, i - 1 \in S PROVE i \in S
    <3>1. V6Bits - i \in Nat /\ (V6Bits - i) + 1 = V6Bits - (i - 1) /\ i \in 0 .. V6Bits
      BY <1>1
    <3>2. Room(V6Bits - (i - 1)) = 2 * Room(V6Bits - i) /\ Room(V6Bits - i) \in Nat
      BY <1>2, <3>1
    <3>3. Room(V6Bits - (i - 1)) <= Room(V6Bits)
      BY <2>2
    <3>4. Room(V6Bits) \in Nat
      BY <1>1, <1>2
    <3> QED BY <3>1, <3>2, <3>3, <3>4
  <2> HIDE DEF S
  <2>3. \A i \in 0 .. V6Bits : i \in S
    BY ONLY <1>1, <2>1, <2>2, IntervalInduction
  <2>4. Len(p) \in 0 .. V6Bits
    BY <1>1
  <2> QED BY <2>3, <2>4 DEF S
<1>4. ASSUME Len(p) # V6Bits
      PROVE  /\ Append(p, 0) \in Path /\ Append(p, 1) \in Path
             /\ Room(V6Bits - Len(p)) = Room(V6Bits - Len(Append(p, 0)))
                                          + Room(V6Bits - Len(Append(p, 1)))
  <2> DEFINE n == V6Bits - (Len(p) + 1)
  <2>1. /\ Append(p, 0) \in Path /\ Append(p, 1) \in Path
        /\ Len(Append(p, 0)) = Len(p) + 1 /\ Len(Append(p, 1)) = Len(p) + 1
        /\ n \in Nat /\ n + 1 = V6Bits - Len(p)
    BY <1>1, <1>4, PathAppend DEF Bit
  <2>2. Room(n + 1) = 2 * Room(n) /\ Room(n) \in Nat
    BY <1>2, <2>1
  <2> HIDE DEF n
  <2>3. Room(n + 1) = Room(n) + Room(n)
    BY <2>2
  <2> QED BY <2>1, <2>3 DEF n
<1> QED BY <1>1, <1>2, <1>3, <1>4

(* What two halves come to in each context. *)
Sums(gl, gr, asns) == [c \in asns |-> gl[c] + gr[c]]

(* The least of that and of one line over what it is in another context. *)
IsLeastOf(g, sums, asns) ==
    \A ctx \in asns :
       /\ g[ctx] <= sums[ctx]
       /\ \A c \in asns \ {0, ctx} : g[ctx] <= 1 + sums[c]
       /\ \/ g[ctx] = sums[ctx]
          \/ \E c \in asns \ {0, ctx} : g[ctx] = 1 + sums[c]

(* The table above two halves has the least of the ways to describe them. *)
LEMMA BranchOfFewest ==
    ASSUME NEW asns, NEW left \in [asns -> Nat], NEW right \in [asns -> Nat]
    PROVE  /\ FewestAtBranch(left, right, asns) \in [asns -> Nat]
           /\ Sums(left, right, asns) \in [asns -> Nat]
           /\ IsLeastOf(FewestAtBranch(left, right, asns), Sums(left, right, asns), asns)
<1> DEFINE b == FewestAtBranch(left, right, asns)
           sums == Sums(left, right, asns)
           ways(ctx) == {left[ctx] + right[ctx]} \cup {1 + left[c] + right[c] : c \in asns \ {0, ctx}}
<1>1. b = [ctx \in asns |-> Min(ways(ctx))]
  BY DEF FewestAtBranch
<1>2. ASSUME NEW ctx \in asns
      PROVE  /\ b[ctx] \in Nat /\ b[ctx] \in ways(ctx) /\ \A w \in ways(ctx) : b[ctx] <= w
  <2>1. ways(ctx) \in SUBSET Nat /\ ways(ctx) # {}
    OBVIOUS
  <2>2. b[ctx] = Min(ways(ctx))
    BY <1>1
  <2> HIDE DEF ways, b
  <2> QED BY <2>1, <2>2, MinOfSome
<1>3. b \in [asns -> Nat]
  <2> HIDE DEF ways
  <2> QED BY <1>1, <1>2
<1>4. /\ sums \in [asns -> Nat]
      /\ \A c \in asns : sums[c] = left[c] + right[c] /\ 1 + sums[c] = 1 + left[c] + right[c]
  BY DEF Sums
<1> HIDE DEF b, sums
<1>5. \A ctx \in asns :
         /\ b[ctx] <= sums[ctx]
         /\ \A c \in asns \ {0, ctx} : b[ctx] <= 1 + sums[c]
         /\ \/ b[ctx] = sums[ctx]
            \/ \E c \in asns \ {0, ctx} : b[ctx] = 1 + sums[c]
  BY <1>2, <1>4
<1>6. IsLeastOf(b, sums, asns)
  BY <1>5 DEF IsLeastOf
<1> QED BY <1>3, <1>4, <1>6 DEF b, sums

(* The table at a leaf. *)
LEMMA LeafOfFewest ==
    ASSUME NEW asns, NEW asn \in Nat, NEW fill \in BOOLEAN
    PROVE  /\ FewestAtLeaf(asn, asns, fill) \in [asns -> Nat]
           /\ \A ctx \in asns :
                 FewestAtLeaf(asn, asns, fill)[ctx]
                    = IF asn = ctx \/ (fill /\ asn = 0) THEN 0
                      ELSE IF asn = 0 THEN Room(V6Bits) ELSE 1
<1>1. Room(V6Bits) \in Nat
  BY WidthIsNat, RoomDoubles
<1> QED BY <1>1 DEF FewestAtLeaf

(* The table has what its definition says. *)
LEMMA FewestEquation ==
    ASSUME NEW f \in [Address -> Nat], NEW asns, NEW fill \in BOOLEAN, NEW p \in Path
    PROVE  LET g == Fewest(f, asns, fill)
           IN  /\ g[p] \in [asns -> Nat]
               /\ IsLeaf(Below(f)[p]) => g[p] = FewestAtLeaf(Below(f)[p][1], asns, fill)
               /\ ~IsLeaf(Below(f)[p]) =>
                     g[p] = FewestAtBranch(g[Append(p, 0)], g[Append(p, 1)], asns)
<1> DEFINE V == [asns -> Nat]
           stop == {q \in Path : IsLeaf(Below(f)[q])}
           ends == [q \in Path |-> IF IsLeaf(Below(f)[q]) THEN FewestAtLeaf(Below(f)[q][1], asns, fill)
                                   ELSE FewestAtLeaf(0, asns, fill)]
           step == [q \in Path |-> [pair \in V \X V |-> FewestAtBranch(pair[1], pair[2], asns)]]
<1>1. stop \in SUBSET Path /\ \A q \in Path : Len(q) = V6Bits => q \in stop
  BY AddressIsLeaf
<1>2. ASSUME NEW q \in Path, IsLeaf(Below(f)[q])
      PROVE  FewestAtLeaf(Below(f)[q][1], asns, fill) \in V
  <2>1. Below(f)[q][1] \in Nat
    BY <1>2, SearchEquation
  <2> QED BY <2>1, LeafOfFewest
<1>3. ends \in [Path -> V]
  <2>1. FewestAtLeaf(0, asns, fill) \in V
    BY LeafOfFewest
  <2> HIDE DEF V
  <2> QED BY <1>2, <2>1
<1>4. step \in [Path -> [V \X V -> V]]
  <2>1. ASSUME NEW pair \in V \X V PROVE FewestAtBranch(pair[1], pair[2], asns) \in V
    BY BranchOfFewest
  <2> HIDE DEF V
  <2> QED BY <2>1
<1> HIDE DEF V, stop, ends, step
<1>5. PICK h \in [Path -> V] : RecursOver(h, Path, stop, ends, step)
  BY <1>1, <1>3, <1>4, PathRecursion
<1>6. \A q \in Path : q \notin stop => Append(q, 0) \in Path /\ Append(q, 1) \in Path
  BY <1>1, PathAppend, PathType, WidthIsNat DEF Bit
<1>7. IsFewest(f, asns, fill, h)
  <2> DEFINE again == [path \in Path |->
                LET at == NodeAt(TrieOf(f), path)
                IN  IF IsLeaf(at) THEN FewestAtLeaf(at[1], asns, fill)
                    ELSE Tabulated(FewestAtBranch(h[Append(path, 0)], h[Append(path, 1)], asns))]
  <2>1. ASSUME NEW q \in Path PROVE h[q] = again[q]
    <3>1. NodeAt(TrieOf(f), q) = Below(f)[q]
      BY NodeIsBelow
    <3>2. CASE IsLeaf(Below(f)[q])
      <4>1. q \in stop /\ h[q] = ends[q]
        BY <1>5, <3>2 DEF RecursOver, stop
      <4> QED BY <3>1, <3>2, <4>1 DEF ends
    <3>3. CASE ~IsLeaf(Below(f)[q])
      <4>1. q \notin stop /\ h[q] = step[q][<<h[Append(q, 0)], h[Append(q, 1)]>>]
        BY <1>5, <3>3 DEF RecursOver, stop
      <4>2. <<h[Append(q, 0)], h[Append(q, 1)]>> \in V \X V
        BY <1>5, <1>6, <4>1
      <4>3. h[q] = FewestAtBranch(h[Append(q, 0)], h[Append(q, 1)], asns)
        BY <4>1, <4>2 DEF step
      <4> DEFINE b == FewestAtBranch(h[Append(q, 0)], h[Append(q, 1)], asns)
      <4>4. again[q] = Tabulated(b)
        BY <3>1, <3>3
      <4>5. Tabulated(b) = b
        BY TabulatedIsSame
      <4> QED BY <4>3, <4>4, <4>5
    <3> QED BY <3>2, <3>3
  <2>2. h = again
    BY <1>5, <2>1
  <2> QED BY <2>2 DEF IsFewest
<1>8. IsFewest(f, asns, fill, Fewest(f, asns, fill))
  BY <1>7, Zenon DEF Fewest
<1> DEFINE M == Fewest(f, asns, fill)
<1>9. ASSUME NEW q \in Path
      PROVE  /\ IsLeaf(Below(f)[q]) => M[q] = FewestAtLeaf(Below(f)[q][1], asns, fill)
             /\ ~IsLeaf(Below(f)[q]) =>
                   M[q] = FewestAtBranch(M[Append(q, 0)], M[Append(q, 1)], asns)
  <2> DEFINE b == FewestAtBranch(M[Append(q, 0)], M[Append(q, 1)], asns)
  <2>1. Tabulated(b) = b
    BY TabulatedIsSame
  <2> QED BY <1>8, <2>1, NodeIsBelow DEF IsFewest
<1> HIDE DEF M
<1> DEFINE T == {q \in Path : M[q] \in V}
<1>10. \A q \in Path : Len(q) = V6Bits => q \in T
  BY <1>1, <1>2, <1>9 DEF stop
<1>11. ASSUME NEW q \in Path, Len(q) # V6Bits, Append(q, 0) \in T, Append(q, 1) \in T
       PROVE  q \in T
  <2>1. FewestAtBranch(M[Append(q, 0)], M[Append(q, 1)], asns) \in V
    BY <1>11, BranchOfFewest DEF V
  <2> QED BY <1>2, <1>9, <2>1
<1> HIDE DEF T
<1>12. p \in T
  BY <1>10, <1>11, PathInduction
<1>13. M[p] \in V
  BY <1>12 DEF T
<1> QED BY <1>9, <1>13 DEF M, V

(* The table has the lengths of the encodings by context: in one that is not kept, that of *)
(* the one that stands alone, which is longer than any in a context that is. *)
AsShort(g, enc, asns) ==
    \A c \in asns : IF c \in DOMAIN enc THEN g[c] = Len(enc[c]) /\ g[c] < Len(enc[NoAsn])
                    ELSE g[c] = Len(enc[NoAsn])

(***************************************************************************)
(* What the search has found is as short as the table says: in a context   *)
(* that is kept, its encoding; in any other, the one that stands alone, and*)
(* above a hole nothing else is within reach.                              *)
(***************************************************************************)
FewestFacts(x, asns, fill, p, g) ==
    /\ DOMAIN x.enc \subseteq asns \cup {NoAsn}
    /\ g[0] <= Room(V6Bits - Len(p))
    /\ IF ~fill /\ x.hole
       THEN g[0] = Len(x.enc[0]) /\ \A c \in asns \ {0} : g[c] >= Room(V6Bits)
       ELSE AsShort(g, x.enc, asns)

(* The search is as short as the table at the leaves. *)
LEMMA LeafIsFewest ==
    ASSUME NEW f \in [Address -> Nat], NEW asns \in SUBSET Nat, Range(f) \cup {0} \subseteq asns,
           NEW fill \in BOOLEAN, NEW p \in Path, IsLeaf(Below(f)[p])
    PROVE  FewestFacts(Search(f, fill)[p], asns, fill, p, Fewest(f, asns, fill)[p])
<1> DEFINE asn == Below(f)[p][1]
           x == Search(f, fill)[p]
           g == Fewest(f, asns, fill)[p]
           none == << >>
           one == << <<p, asn>> >>
<1>1. asn \in Nat /\ x = LeafOf(Leaf(asn), p, fill) /\ g = FewestAtLeaf(asn, asns, fill)
  BY SearchEquation, FewestEquation
<1>2. asn \in asns
  <2>1. PICK a \in Address : Covers(p, a)
    BY CoversSome
  <2>2. f[a] = asn
    BY <2>1, LeafIsUniform
  <2> QED BY <2>2 DEF Range
<1>3. /\ asn = 0 => /\ x.hole /\ DOMAIN x.enc = {IF fill THEN NoAsn ELSE 0}
                    /\ \A c \in DOMAIN x.enc : x.enc[c] = none
      /\ asn # 0 => /\ ~x.hole /\ DOMAIN x.enc = {asn, NoAsn}
                    /\ x.enc[asn] = none /\ x.enc[NoAsn] = one
  BY <1>1, LeafOfType
<1>4. Len(none) = 0 /\ Len(one) = 1
  OBVIOUS
<1>5. \A c \in asns : g[c] = IF asn = c \/ (fill /\ asn = 0) THEN 0
                             ELSE IF asn = 0 THEN Room(V6Bits) ELSE 1
  <2> DEFINE table == FewestAtLeaf(asn, asns, fill)
  <2>1. g = table
    BY <1>1
  <2>2. \A c \in asns : table[c] = IF asn = c \/ (fill /\ asn = 0) THEN 0
                                  ELSE IF asn = 0 THEN Room(V6Bits) ELSE 1
    <3> HIDE DEF asn
    <3> QED BY DEF FewestAtLeaf
  <2> QED BY ONLY <2>1, <2>2
<1>6. Room(V6Bits - Len(p)) \in Nat \ {0} /\ Room(V6Bits) \in Nat \ {0}
  BY RoomOfPath
<1>7. 0 \in asns /\ NoAsn \notin asns
  BY DEF NoAsn
<1> HIDE DEF asn, x, g, none, one
<1>8. g[0] <= Room(V6Bits - Len(p))
  BY <1>5, <1>6, <1>7
<1>9. DOMAIN x.enc \subseteq asns \cup {NoAsn}
  BY <1>2, <1>3, <1>7
<1>10. CASE asn = 0 /\ ~fill
  <2>1. g[0] = Len(x.enc[0])
    BY <1>3, <1>4, <1>5, <1>7, <1>10
  <2>2. \A c \in asns \ {0} : g[c] >= Room(V6Bits)
    BY <1>5, <1>6, <1>10
  <2> QED BY <1>3, <1>8, <1>9, <1>10, <2>1, <2>2 DEF FewestFacts, x, g
<1>11. CASE asn = 0 /\ fill
  <2>1. \A c \in asns : c \notin DOMAIN x.enc /\ g[c] = Len(x.enc[NoAsn])
    BY <1>3, <1>4, <1>5, <1>7, <1>11
  <2> QED BY <1>8, <1>9, <1>11, <2>1 DEF FewestFacts, AsShort, x, g
<1>12. CASE asn # 0
  <2>1. \A c \in asns : IF c \in DOMAIN x.enc
                        THEN g[c] = Len(x.enc[c]) /\ g[c] < Len(x.enc[NoAsn])
                        ELSE g[c] = Len(x.enc[NoAsn])
    <3> TAKE c \in asns
    <3>1. Len(x.enc[asn]) = 0 /\ Len(x.enc[NoAsn]) = 1
      BY <1>3, <1>4, <1>12
    <3>2. c \in DOMAIN x.enc <=> c = asn
      BY <1>3, <1>7, <1>12
    <3>3. g[c] = IF asn = c THEN 0 ELSE 1
      BY <1>5, <1>12
    <3> QED BY <3>1, <3>2, <3>3
  <2> QED BY <1>3, <1>8, <1>9, <1>12, <2>1 DEF FewestFacts, AsShort, x, g
<1> QED BY <1>10, <1>11, <1>12

(* Of which contexts the halves make encodings. *)
LEMMA ChosenDomain ==
    ASSUME NEW left, NEW right, NEW joined, Chosen(left, right, joined), NEW c
    PROVE  c \in DOMAIN joined <=> \/ c \in DOMAIN left /\ c \in DOMAIN right
                                   \/ NoAsn \in DOMAIN left /\ c \in DOMAIN right
                                   \/ c \in DOMAIN left /\ NoAsn \in DOMAIN right
<1>1. c \in DOMAIN joined <=> c \in DOMAIN left \cup DOMAIN right /\ Mates(left, right, c) # {}
  BY DEF Chosen
<1> QED BY <1>1, SomeMates

(* Where both halves can stand alone: an encoding of the whole is as long as the table
   says for the halves. *)
LEMMA JoinedLengths ==
    ASSUME NEW asns \in SUBSET Nat,
           NEW left, left \in [DOMAIN left -> Seq(Entry)], NoAsn \in DOMAIN left,
           NEW right, right \in [DOMAIN right -> Seq(Entry)], NoAsn \in DOMAIN right,
           NEW gl \in [asns -> Nat], AsShort(gl, left, asns),
           NEW gr \in [asns -> Nat], AsShort(gr, right, asns),
           NEW joined, joined \in [DOMAIN joined -> Seq(Entry)], Chosen(left, right, joined)
    PROVE  NoAsn \in DOMAIN joined /\ AsShort(Sums(gl, gr, asns), joined, asns)
<1> DEFINE ll(a) == Len(left[a])
           rr(b) == Len(right[b])
           lj(c) == Len(joined[c])
<1>1. /\ \A a \in DOMAIN left : ll(a) \in Nat
      /\ \A b \in DOMAIN right : rr(b) \in Nat
      /\ \A a \in DOMAIN left, b \in DOMAIN right : Len(left[a] \o right[b]) = ll(a) + rr(b)
  <2>1. ASSUME NEW a \in DOMAIN left, NEW b \in DOMAIN right
        PROVE  Len(left[a] \o right[b]) = ll(a) + rr(b) /\ ll(a) \in Nat /\ rr(b) \in Nat
    <3>1. left[a] \in Seq(Entry) /\ right[b] \in Seq(Entry)
      OBVIOUS
    <3> QED BY <3>1
  <2> QED BY <2>1
<1>2. /\ \A c \in asns : IF c \in DOMAIN left THEN gl[c] = ll(c) /\ gl[c] < ll(NoAsn)
                          ELSE gl[c] = ll(NoAsn)
      /\ \A c \in asns : IF c \in DOMAIN right THEN gr[c] = rr(c) /\ gr[c] < rr(NoAsn)
                          ELSE gr[c] = rr(NoAsn)
  BY DEF AsShort
<1> HIDE DEF ll, rr
<1>3. \A c : /\ \A q \in Mates(left, right, c) : \/ q[1] = c /\ q[2] = c
                                                 \/ q[1] = NoAsn /\ q[2] = c
                                                 \/ q[1] = c /\ q[2] = NoAsn
             /\ \A q \in Mates(left, right, c) : q[1] \in DOMAIN left /\ q[2] \in DOMAIN right
             /\ c \in DOMAIN left /\ c \in DOMAIN right => <<c, c>> \in Mates(left, right, c)
  BY DEF Mates
<1>4. \A c : c \in DOMAIN joined <=> c \in DOMAIN left \/ c \in DOMAIN right
  BY ChosenDomain
<1>5. ASSUME NEW c \in DOMAIN joined
      PROVE  /\ \/ c \in DOMAIN left /\ c \in DOMAIN right /\ lj(c) = ll(c) + rr(c)
                \/ c \in DOMAIN right /\ lj(c) = ll(NoAsn) + rr(c)
                \/ c \in DOMAIN left /\ lj(c) = ll(c) + rr(NoAsn)
             /\ c \in DOMAIN left /\ c \in DOMAIN right => lj(c) <= ll(c) + rr(c)
  <2>1. /\ \E q \in Mates(left, right, c) : joined[c] = left[q[1]] \o right[q[2]]
        /\ \A q \in Mates(left, right, c) : lj(c) <= Len(left[q[1]] \o right[q[2]])
    BY DEF Chosen
  <2>2. PICK q \in Mates(left, right, c) : joined[c] = left[q[1]] \o right[q[2]]
    BY <2>1
  <2>3. q[1] \in DOMAIN left /\ q[2] \in DOMAIN right
    BY <1>3
  <2>4. lj(c) = ll(q[1]) + rr(q[2])
    BY <1>1, <2>2, <2>3
  <2>5. c \in DOMAIN left /\ c \in DOMAIN right => lj(c) <= ll(c) + rr(c)
    <3> SUFFICES ASSUME c \in DOMAIN left, c \in DOMAIN right PROVE lj(c) <= ll(c) + rr(c)
      OBVIOUS
    <3>1. <<c, c>> \in Mates(left, right, c)
      BY <1>3
    <3>2. lj(c) <= Len(left[c] \o right[c])
      BY <2>1, <3>1
    <3> QED BY <1>1, <3>2
  <2> HIDE DEF lj
  <2>6. \/ q[1] = c /\ q[2] = c
        \/ q[1] = NoAsn /\ q[2] = c
        \/ q[1] = c /\ q[2] = NoAsn
    BY <1>3
  <2> QED BY ONLY <2>3, <2>4, <2>5, <2>6
<1> HIDE DEF lj
<1>6. NoAsn \in DOMAIN joined /\ lj(NoAsn) = ll(NoAsn) + rr(NoAsn)
  BY <1>4, <1>5
<1>7. NoAsn \in DOMAIN left /\ NoAsn \in DOMAIN right /\ ll(NoAsn) \in Nat /\ rr(NoAsn) \in Nat
  BY <1>1
<1>8. ASSUME NEW c \in asns, c \notin DOMAIN joined
      PROVE  gl[c] + gr[c] = lj(NoAsn)
  BY <1>2, <1>4, <1>6, <1>8
<1>9. ASSUME NEW c \in asns, c \in DOMAIN joined
      PROVE  gl[c] + gr[c] = lj(c) /\ lj(c) < lj(NoAsn)
  <2>1. CASE c \in DOMAIN left /\ c \in DOMAIN right
    <3>1. ll(c) \in Nat /\ rr(c) \in Nat
      BY <1>1, <2>1
    <3>2. gl[c] = ll(c) /\ gl[c] < ll(NoAsn) /\ gr[c] = rr(c) /\ gr[c] < rr(NoAsn)
      BY <1>2, <2>1
    <3>3. /\ lj(c) <= ll(c) + rr(c)
          /\ \/ lj(c) = ll(c) + rr(c)
             \/ lj(c) = ll(NoAsn) + rr(c)
             \/ lj(c) = ll(c) + rr(NoAsn)
      BY <1>5, <1>9, <2>1
    <3>4. lj(c) = ll(c) + rr(c)
      <4> DEFINE a == ll(c)
                 b == rr(c)
                 k == ll(NoAsn)
                 n == rr(NoAsn)
      <4>1. a \in Nat /\ b \in Nat /\ k \in Nat /\ n \in Nat /\ a < k /\ b < n
        BY ONLY <1>7, <3>1, <3>2
      <4>2. lj(c) <= a + b /\ (lj(c) = a + b \/ lj(c) = k + b \/ lj(c) = a + n)
        BY ONLY <3>3
      <4> HIDE DEF a, b, k, n
      <4>3. ~(k + b <= a + b) /\ ~(a + n <= a + b)
        BY ONLY <4>1
      <4>4. lj(c) = a + b
        BY ONLY <4>2, <4>3
      <4> QED BY ONLY <4>4 DEF a, b
    <3> QED BY ONLY <1>6, <1>7, <3>1, <3>2, <3>4
  <2>2. CASE c \in DOMAIN left /\ c \notin DOMAIN right
    <3>1. ll(c) \in Nat /\ lj(c) = ll(c) + rr(NoAsn)
      BY <1>1, <1>5, <1>9, <2>2
    <3>2. gl[c] = ll(c) /\ gl[c] < ll(NoAsn) /\ gr[c] = rr(NoAsn)
      BY <1>2, <2>2
    <3> QED BY ONLY <1>6, <1>7, <3>1, <3>2
  <2>3. CASE c \notin DOMAIN left /\ c \in DOMAIN right
    <3>1. rr(c) \in Nat /\ lj(c) = ll(NoAsn) + rr(c)
      BY <1>1, <1>5, <1>9, <2>3
    <3>2. gr[c] = rr(c) /\ gr[c] < rr(NoAsn) /\ gl[c] = ll(NoAsn)
      BY <1>2, <2>3
    <3> QED BY ONLY <1>6, <1>7, <3>1, <3>2
  <2> QED BY <1>4, <1>9, <2>1, <2>2, <2>3
<1>10. \A c \in asns : Sums(gl, gr, asns)[c] = gl[c] + gr[c]
  BY DEF Sums
<1> QED BY <1>6, <1>8, <1>9, <1>10 DEF lj, AsShort

(* Where the whole can stand alone, what is kept is as short as the table says for the
   whole. *)
LEMMA SelectedLengths ==
    ASSUME NEW asns \in SUBSET Nat, NEW p \in Path, NEW sums \in [asns -> Nat], NEW g \in [asns -> Nat],
           NEW joined, joined \in [DOMAIN joined -> Seq(Entry)],
           DOMAIN joined \subseteq asns \cup {NoAsn}, NoAsn \in DOMAIN joined, 0 \notin DOMAIN joined,
           AsShort(sums, joined, asns), IsLeastOf(g, sums, asns),
           NEW enc, enc \in [DOMAIN enc -> Seq(Entry)], Selected(p, FALSE, joined, enc)
    PROVE  AsShort(g, enc, asns)
<1> DEFINE m == Len(enc[NoAsn])
           j == Len(joined[NoAsn])
<1>1. NoAsn \in DOMAIN enc /\ Alone(p, FALSE, joined, enc[NoAsn])
  BY DEF Selected
<1>2. \A c \in DOMAIN joined : Len(joined[c]) \in Nat
  OBVIOUS
<1>3. \A c \in DOMAIN joined \ {NoAsn} : Len(Covered(p, c, joined[c])) = 1 + Len(joined[c])
  <2> TAKE c \in DOMAIN joined \ {NoAsn}
  <2> DEFINE one == << <<p, c>> >>
             r == joined[c]
  <2>1. r \in Seq(Entry) /\ one \in Seq(Path \X Nat) /\ Len(one) = 1 /\ Covered(p, c, joined[c]) = one \o r
    <3>1. c \in Nat
      OBVIOUS
    <3>2. <<p, c>> \in Path \X Nat
      BY <3>1
    <3>3. joined[c] \in Seq(Entry)
      OBVIOUS
    <3> QED BY ONLY <3>2, <3>3 DEF Covered
  <2> HIDE DEF one, r
  <2>2. one \in Seq(Entry)
    BY <2>1 DEF Entry
  <2>5. r \in Seq(Entry) /\ one \in Seq(Entry)
    BY <2>1, <2>2
  <2>3. Len(one \o r) = Len(one) + Len(r)
    BY ONLY <2>5, RangeOfBoth
  <2> QED BY <2>1, <2>3 DEF r
<1>4. /\ m \in Nat /\ j \in Nat /\ m <= j
      /\ \A c \in DOMAIN joined \ {NoAsn} : m <= 1 + Len(joined[c])
      /\ m = j \/ \E c \in DOMAIN joined \ {NoAsn} : m = 1 + Len(joined[c])
  <2>1. m \in Nat /\ j \in Nat
    BY <1>1, <1>2
  <2>2. m <= j /\ \A c \in DOMAIN joined \ {NoAsn} : m <= 1 + Len(joined[c])
    BY <1>1, <1>3 DEF Alone
  <2>3. m = j \/ \E c \in DOMAIN joined \ {NoAsn} : m = 1 + Len(joined[c])
    <3>1. \/ enc[NoAsn] = joined[NoAsn]
          \/ \E c \in DOMAIN joined \ {NoAsn} : enc[NoAsn] = Covered(p, c, joined[c])
      BY <1>1 DEF Alone
    <3> QED BY <1>3, <3>1
  <2> QED BY <2>1, <2>2, <2>3
<1>5. \A c \in asns : /\ c \in DOMAIN enc <=> c \in DOMAIN joined /\ Len(joined[c]) < m
                      /\ c \in DOMAIN enc => enc[c] = joined[c]
  BY <1>1 DEF Selected
<1>6. \A c \in asns : c # NoAsn
  BY DEF NoAsn
<1> HIDE DEF m, j
<1>7. \A c \in asns : /\ sums[c] \in Nat /\ g[c] \in Nat
                      /\ c \in DOMAIN joined => sums[c] = Len(joined[c]) /\ sums[c] < j
                      /\ c \notin DOMAIN joined => sums[c] = j
  BY DEF j, AsShort
<1>8. \A c \in asns : m <= 1 + sums[c]
  <2> TAKE c \in asns
  <2>1. CASE c \in DOMAIN joined
    BY <1>4, <1>6, <1>7, <2>1
  <2>2. CASE c \notin DOMAIN joined
    BY <1>4, <1>7, <2>2
  <2> QED BY <2>1, <2>2
<1>11. \A ctx \in asns :
          /\ g[ctx] <= sums[ctx]
          /\ \A c \in asns \ {0, ctx} : g[ctx] <= 1 + sums[c]
          /\ \/ g[ctx] = sums[ctx]
             \/ \E c \in asns \ {0, ctx} : g[ctx] = 1 + sums[c]
  BY DEF IsLeastOf
<1>9. ASSUME NEW ctx \in asns, ctx \in DOMAIN enc
      PROVE  g[ctx] = Len(enc[ctx]) /\ g[ctx] < m
  <2>1. ctx \in DOMAIN joined /\ sums[ctx] < m /\ enc[ctx] = joined[ctx] /\ sums[ctx] = Len(joined[ctx])
    BY <1>5, <1>7, <1>9
  <2>2. g[ctx] <= sums[ctx]
    BY <1>11
  <2>3. ASSUME NEW c \in asns \ {0, ctx}, g[ctx] = 1 + sums[c] PROVE FALSE
    <3>1. m <= 1 + sums[c] /\ sums[c] \in Nat /\ sums[ctx] \in Nat /\ m \in Nat
      BY <1>4, <1>7, <1>8
    <3> QED BY <2>1, <2>2, <2>3, <3>1
  <2>4. g[ctx] = sums[ctx]
    BY <1>11, <2>3
  <2> QED BY <2>1, <2>4
<1>10. ASSUME NEW ctx \in asns, ctx \notin DOMAIN enc
       PROVE  g[ctx] = m
  <2>1. sums[ctx] >= m
    BY <1>4, <1>5, <1>7, <1>10
  <2>2. g[ctx] >= m
    <3>1. \/ g[ctx] = sums[ctx]
          \/ \E c \in asns \ {0, ctx} : g[ctx] = 1 + sums[c]
      BY <1>11
    <3>2. g[ctx] = sums[ctx] => g[ctx] >= m
      BY <2>1
    <3>3. ASSUME NEW c \in asns \ {0, ctx}, g[ctx] = 1 + sums[c] PROVE g[ctx] >= m
      <4>1. m <= 1 + sums[c] /\ sums[c] \in Nat /\ m \in Nat
        BY <1>4, <1>7, <1>8
      <4> QED BY <3>3, <4>1
    <3> QED BY <3>1, <3>2, <3>3
  <2>3. g[ctx] <= m
    <3>1. CASE m = j
      <4>1. ctx \notin DOMAIN joined
        BY <1>5, <1>7, <1>10, <3>1
      <4>2. sums[ctx] = j /\ g[ctx] <= sums[ctx]
        BY <1>7, <1>11, <4>1
      <4> QED BY <3>1, <4>2
    <3>2. ASSUME NEW c \in DOMAIN joined \ {NoAsn}, m = 1 + Len(joined[c]) PROVE g[ctx] <= m
      <4>1. c \in asns /\ c # 0
        OBVIOUS
      <4>2. sums[c] = Len(joined[c]) /\ sums[c] \in Nat /\ m = 1 + sums[c]
        BY <1>7, <3>2, <4>1
      <4>3. c \in DOMAIN enc
        BY <1>5, <4>1, <4>2
      <4>4. c # ctx
        BY <1>10, <4>3
      <4>5. g[ctx] <= 1 + sums[c]
        BY <1>11, <4>1, <4>4
      <4> QED BY <4>2, <4>5
    <3> QED BY <1>4, <3>1, <3>2
  <2>4. g[ctx] \in Nat
    OBVIOUS
  <2> QED BY <1>4, <2>2, <2>3, <2>4
<1> QED BY <1>9, <1>10 DEF m, AsShort

(* It is as short above two halves if it is as short for both. *)
LEMMA BranchIsFewest ==
    ASSUME NEW f, NEW asns \in SUBSET Nat, 0 \in asns, NEW fill \in BOOLEAN,
           NEW p \in Path, Len(p) # V6Bits,
           NEW left \in Contexts(Entry), SearchFacts(f, fill, Append(p, 0), left),
           NEW right \in Contexts(Entry), SearchFacts(f, fill, Append(p, 1), right),
           NEW gl \in [asns -> Nat], FewestFacts(left, asns, fill, Append(p, 0), gl),
           NEW gr \in [asns -> Nat], FewestFacts(right, asns, fill, Append(p, 1), gr)
    PROVE  FewestFacts(Merge(left, right, p, fill), asns, fill, p, FewestAtBranch(gl, gr, asns))
<1> DEFINE x == Merge(left, right, p, fill)
           l == left.enc
           r == right.enc
           g == FewestAtBranch(gl, gr, asns)
           sums == Sums(gl, gr, asns)
<1>1. PICK joined : /\ joined \in [DOMAIN joined -> Seq(Entry)]
                    /\ DOMAIN joined \subseteq Context
                    /\ Chosen(l, r, joined) /\ Selected(p, x.hole, joined, x.enc)
  BY MergeShape
<1>2. /\ x \in Contexts(Entry) /\ x.hole = (~fill /\ (left.hole \/ right.hole))
      /\ DOMAIN x.enc \subseteq Context /\ x.enc \in [DOMAIN x.enc -> Seq(Entry)]
  BY MergeShape, ContextsType
<1>3. /\ left.hole \in BOOLEAN /\ right.hole \in BOOLEAN
      /\ l \in [DOMAIN l -> Seq(Entry)] /\ r \in [DOMAIN r -> Seq(Entry)]
  BY ContextsType
<1>15. g \in [asns -> Nat] /\ sums \in [asns -> Nat] /\ IsLeastOf(g, sums, asns)
  BY BranchOfFewest
<1>16. \A c \in asns : sums[c] = gl[c] + gr[c] /\ 1 + sums[c] = 1 + gl[c] + gr[c]
  BY DEF Sums
<1>4. /\ g \in [asns -> Nat]
      /\ \A ctx \in asns :
            /\ g[ctx] <= gl[ctx] + gr[ctx]
            /\ \A c \in asns \ {0, ctx} : g[ctx] <= 1 + gl[c] + gr[c]
            /\ \/ g[ctx] = gl[ctx] + gr[ctx]
               \/ \E c \in asns \ {0, ctx} : g[ctx] = 1 + gl[c] + gr[c]
  <2> HIDE DEF g, sums
  <2> QED BY <1>15, <1>16 DEF IsLeastOf
<1>5. /\ IF ~fill /\ left.hole THEN 0 \in DOMAIN l /\ NoAsn \notin DOMAIN l
         ELSE NoAsn \in DOMAIN l /\ 0 \notin DOMAIN l
      /\ IF ~fill /\ right.hole THEN 0 \in DOMAIN r /\ NoAsn \notin DOMAIN r
         ELSE NoAsn \in DOMAIN r /\ 0 \notin DOMAIN r
  BY DEF SearchFacts
<1>6. /\ DOMAIN l \subseteq asns \cup {NoAsn} /\ gl[0] <= Room(V6Bits - Len(Append(p, 0)))
      /\ DOMAIN r \subseteq asns \cup {NoAsn} /\ gr[0] <= Room(V6Bits - Len(Append(p, 1)))
  BY DEF FewestFacts
<1>7. /\ IF ~fill /\ left.hole
         THEN gl[0] = Len(l[0]) /\ \A c \in asns \ {0} : gl[c] >= Room(V6Bits)
         ELSE AsShort(gl, l, asns)
      /\ IF ~fill /\ right.hole
         THEN gr[0] = Len(r[0]) /\ \A c \in asns \ {0} : gr[c] >= Room(V6Bits)
         ELSE AsShort(gr, r, asns)
  BY DEF FewestFacts
<1>8. SearchFacts(f, fill, p, x)
  BY MergeFacts
<1>9. /\ Room(V6Bits) \in Nat /\ Room(V6Bits - Len(p)) \in Nat
      /\ Room(V6Bits - Len(p)) <= Room(V6Bits)
      /\ Room(V6Bits - Len(p)) = Room(V6Bits - Len(Append(p, 0))) + Room(V6Bits - Len(Append(p, 1)))
      /\ Room(V6Bits - Len(Append(p, 0))) \in Nat /\ Room(V6Bits - Len(Append(p, 1))) \in Nat
  BY RoomOfPath
<1> DEFINE all == Room(V6Bits)
           here == Room(V6Bits - Len(p))
           rl == Room(V6Bits - Len(Append(p, 0)))
           rr == Room(V6Bits - Len(Append(p, 1)))
<1>10. /\ all \in Nat /\ here \in Nat /\ rl \in Nat /\ rr \in Nat /\ here <= all /\ here = rl + rr
       /\ gl[0] <= rl /\ gr[0] <= rr
  BY <1>6, <1>9
<1>11. \A c \in asns : gl[c] \in Nat /\ gr[c] \in Nat /\ g[c] \in Nat
  BY <1>4
<1> HIDE DEF x, l, r, g, all, here, rl, rr, sums
<1>12. g[0] <= here /\ gl[0] + gr[0] <= here
  BY <1>4, <1>10, <1>11
<1>13. CASE ~fill /\ x.hole
  <2>1. DOMAIN x.enc \subseteq {0} /\ 0 \in DOMAIN x.enc
    <3>1. 0 \in DOMAIN x.enc /\ NoAsn \notin DOMAIN x.enc
      BY <1>8, <1>13 DEF SearchFacts
    <3>2. \A c \in DOMAIN x.enc : c = 0
      BY <1>1, <1>2, <1>13, <3>1 DEF Selected, Context
    <3> QED BY <3>1, <3>2
  <2>2. 0 \in DOMAIN joined /\ x.enc[0] = joined[0]
    BY <1>1, <2>1 DEF Selected
  <2>3. PICK q \in Mates(l, r, 0) : joined[0] = l[q[1]] \o r[q[2]]
    BY <1>1, <2>2 DEF Chosen
  <2>4. q[1] \in {0, NoAsn} \cap DOMAIN l /\ q[2] \in {0, NoAsn} \cap DOMAIN r
    BY DEF Mates
  <2>5. Len(l[q[1]]) = gl[0]
    <3>1. CASE ~fill /\ left.hole
      BY <1>5, <1>7, <2>4, <3>1
    <3>2. CASE ~(~fill /\ left.hole)
      BY <1>5, <1>7, <2>4, <3>2 DEF AsShort
    <3> QED BY <3>1, <3>2
  <2>6. Len(r[q[2]]) = gr[0]
    <3>1. CASE ~fill /\ right.hole
      BY <1>5, <1>7, <2>4, <3>1
    <3>2. CASE ~(~fill /\ right.hole)
      BY <1>5, <1>7, <2>4, <3>2 DEF AsShort
    <3> QED BY <3>1, <3>2
  <2>7. Len(joined[0]) = gl[0] + gr[0]
    <3>1. l[q[1]] \in Seq(Entry) /\ r[q[2]] \in Seq(Entry)
      BY <1>3, <2>4
    <3> DEFINE a == l[q[1]]
               b == r[q[2]]
    <3>2. a \in Seq(Entry) /\ b \in Seq(Entry) /\ joined[0] = a \o b
      BY <2>3, <3>1
    <3>3. Len(a) = gl[0] /\ Len(b) = gr[0]
      BY <2>5, <2>6
    <3> HIDE DEF a, b
    <3>4. Len(a \o b) = Len(a) + Len(b)
      BY ONLY <3>2, RangeOfBoth
    <3> QED BY ONLY <3>2, <3>3, <3>4
  <2>8. \A c \in asns \ {0} : gl[c] + gr[c] >= all
    <3>1. CASE left.hole
      BY <1>7, <1>10, <1>11, <1>13, <3>1 DEF all
    <3>2. CASE right.hole
      BY <1>7, <1>10, <1>11, <1>13, <3>2 DEF all
    <3> QED BY <1>2, <1>13, <3>1, <3>2
  <2>9. g[0] = gl[0] + gr[0]
    <3>1. g[0] <= gl[0] + gr[0] /\ gl[0] + gr[0] <= all
      BY <1>4, <1>10, <1>11, <1>12
    <3>2. ASSUME NEW c \in asns \ {0}, g[0] = 1 + gl[c] + gr[c] PROVE FALSE
      <4>1. gl[c] + gr[c] >= all /\ gl[c] \in Nat /\ gr[c] \in Nat /\ gl[0] \in Nat /\ gr[0] \in Nat
        BY <1>11, <2>8
      <4> QED BY <1>10, <3>1, <3>2, <4>1
    <3> QED BY <1>4, <3>2
  <2>10. ASSUME NEW ctx \in asns \ {0} PROVE g[ctx] >= all
    <3>1. CASE g[ctx] = gl[ctx] + gr[ctx]
      BY <2>8, <3>1
    <3>2. ASSUME NEW c \in asns \ {0, ctx}, g[ctx] = 1 + gl[c] + gr[c] PROVE g[ctx] >= all
      <4>1. gl[c] + gr[c] >= all /\ gl[c] \in Nat /\ gr[c] \in Nat
        BY <1>11, <2>8
      <4> QED BY <1>10, <3>2, <4>1
    <3> QED BY <1>4, <3>1, <3>2
  <2> QED BY <1>12, <1>13, <2>1, <2>2, <2>7, <2>9, <2>10 DEF FewestFacts, x, g, all, here
<1>14. CASE ~(~fill /\ x.hole)
  <2>1. ~(~fill /\ left.hole) /\ ~(~fill /\ right.hole) /\ x.hole = FALSE
    BY <1>2, <1>14
  <2>2. NoAsn \in DOMAIN l /\ 0 \notin DOMAIN l /\ NoAsn \in DOMAIN r /\ 0 \notin DOMAIN r
    BY <1>5, <2>1
  <2>3. AsShort(gl, l, asns) /\ AsShort(gr, r, asns)
    BY <1>7, <2>1
  <2>4. NoAsn \in DOMAIN joined /\ AsShort(sums, joined, asns)
    <3>1. Chosen(l, r, joined) /\ joined \in [DOMAIN joined -> Seq(Entry)]
      BY <1>1
    <3>2. asns \in SUBSET Nat /\ gl \in [asns -> Nat] /\ gr \in [asns -> Nat]
      OBVIOUS
    <3> QED BY ONLY <1>3, <2>2, <2>3, <3>1, <3>2, JoinedLengths DEF sums
  <2>5. DOMAIN joined \subseteq asns \cup {NoAsn} /\ 0 \notin DOMAIN joined
    <3>1. \A c \in DOMAIN joined : c \in DOMAIN l \cup DOMAIN r
      BY <1>1 DEF Chosen
    <3> QED BY <1>6, <2>2, <3>1
  <2>7. Selected(p, FALSE, joined, x.enc)
    <3>1. Selected(p, x.hole, joined, x.enc)
      BY <1>1
    <3> QED BY ONLY <2>1, <3>1
  <2>10. AsShort(g, x.enc, asns)
    <3> DEFINE enc == x.enc
    <3>1. enc \in [DOMAIN enc -> Seq(Entry)] /\ Selected(p, FALSE, joined, enc)
      BY <1>2, <2>7
    <3>2. g \in [asns -> Nat] /\ joined \in [DOMAIN joined -> Seq(Entry)]
      BY <1>1, <1>4
    <3>3. asns \in SUBSET Nat /\ p \in Path
      OBVIOUS
    <3> HIDE DEF enc
    <3>4. AsShort(g, enc, asns)
      BY ONLY <1>15, <2>4, <2>5, <3>1, <3>2, <3>3, SelectedLengths
    <3> QED BY <3>4 DEF enc
  <2>11. DOMAIN x.enc \subseteq asns \cup {NoAsn}
    <3>1. \A c \in DOMAIN x.enc : c \in Nat => c \in DOMAIN joined
      BY <1>1 DEF Selected
    <3> QED BY <1>2, <2>5, <3>1 DEF Context
  <2> QED BY <1>12, <1>14, <2>10, <2>11 DEF FewestFacts, x, g, here
<1> QED BY <1>13, <1>14

(* So it is as short everywhere, from the addresses up. *)
LEMMA SearchIsFewest ==
    ASSUME NEW f \in [Address -> Nat], NEW asns \in SUBSET Nat, Range(f) \cup {0} \subseteq asns,
           NEW fill \in BOOLEAN, NEW p \in Path
    PROVE  FewestFacts(Search(f, fill)[p], asns, fill, p, Fewest(f, asns, fill)[p])
<1> DEFINE M == Search(f, fill)
           G == Fewest(f, asns, fill)
           T == {q \in Path : FewestFacts(M[q], asns, fill, q, G[q])}
<1>1. \A q \in Path : Len(q) = V6Bits => q \in T
  BY AddressIsLeaf, LeafIsFewest
<1>2. ASSUME NEW q \in Path, Len(q) # V6Bits, Append(q, 0) \in T, Append(q, 1) \in T
      PROVE  q \in T
  <2>1. CASE IsLeaf(Below(f)[q])
    BY <2>1, LeafIsFewest
  <2>2. CASE ~IsLeaf(Below(f)[q])
    <3> DEFINE pl == Append(q, 0)
               pr == Append(q, 1)
    <3>1. M[q] = Merge(M[pl], M[pr], q, fill) /\ G[q] = FewestAtBranch(G[pl], G[pr], asns)
      BY <2>2, SearchEquation, FewestEquation
    <3>2. pl \in Path /\ pr \in Path
      BY <1>2
    <3>3. /\ M[pl] \in Contexts(Entry) /\ M[pr] \in Contexts(Entry)
          /\ SearchFacts(f, fill, pl, M[pl]) /\ SearchFacts(f, fill, pr, M[pr])
      BY <3>2, SearchEquation, SearchIsRight
    <3>4. G[pl] \in [asns -> Nat] /\ G[pr] \in [asns -> Nat]
      BY <3>2, FewestEquation
    <3>5. FewestFacts(M[pl], asns, fill, pl, G[pl]) /\ FewestFacts(M[pr], asns, fill, pr, G[pr])
      BY <1>2
    <3>6. 0 \in asns
      OBVIOUS
    <3> DEFINE ml == M[pl]
               mr == M[pr]
               gl == G[pl]
               gr == G[pr]
    <3> HIDE DEF M, G, ml, mr, gl, gr
    <3>7. FewestFacts(Merge(ml, mr, q, fill), asns, fill, q, FewestAtBranch(gl, gr, asns))
      BY <1>2, <3>3, <3>4, <3>5, <3>6, BranchIsFewest DEF ml, mr, gl, gr
    <3> QED BY <3>1, <3>7 DEF ml, mr, gl, gr
  <2> QED BY <2>1, <2>2
<1> HIDE DEF T
<1>3. p \in T
  BY <1>1, <1>2, PathInduction
<1> QED BY <1>3 DEF T, M, G

(* Theorem.  Always, the overlapping text file of the map has as few lines as any text
   of nested lines for it, with and without fill. *)
THEOREM MinimalIsFewest == Spec => []MinimalEntriesAreFewest
<1>1. TInv => MinimalEntriesAreFewest
  <2> SUFFICES ASSUME TInv, NEW fill \in BOOLEAN
               PROVE  Len(EntriesMinimal(map, fill))
                         = FewestLines(map, Range(assigned) \cup {0}, fill)
    BY DEF MinimalEntriesAreFewest
  <2> DEFINE asns == Range(assigned) \cup {0}
             x == Search(assigned, fill)[<< >>]
             g == Fewest(assigned, asns, fill)[<< >>]
  <2>1. map = TrieOf(assigned) /\ assigned \in [Address -> Nat]
    BY DEF TInv, IInv, MapIsCanonical
  <2>2. << >> \in Path
    BY EmptyPath
  <2>3. asns \in SUBSET Nat /\ Range(assigned) \cup {0} \subseteq asns /\ 0 \in asns
    BY <2>1 DEF Range
  <2>4. FewestLines(map, asns, fill) = g[0]
    BY <2>1, LinesAreFewest
  <2>5. EntriesMinimal(map, fill) = AtRoot(x, << >>)
    BY <2>1, EntriesAreSearch DEF EntriesMinimal
  <2> HIDE DEF asns
  <2>6. SearchFacts(assigned, fill, << >>, x) /\ FewestFacts(x, asns, fill, << >>, g)
    BY <2>1, <2>2, <2>3, SearchIsRight, SearchIsFewest
  <2> HIDE DEF x, g
  <2>7. Len(AtRoot(x, << >>)) = g[0]
    <3>1. CASE ~fill /\ x.hole
      <4>1. 0 \in DOMAIN x.enc
        BY <2>6, <3>1 DEF SearchFacts
      <4>2. AtRoot(x, << >>) = x.enc[0]
        BY <4>1 DEF AtRoot
      <4> QED BY <2>6, <3>1, <4>2 DEF FewestFacts
    <3>2. CASE ~(~fill /\ x.hole)
      <4>1. 0 \notin DOMAIN x.enc /\ NoAsn \in DOMAIN x.enc
        BY <2>6, <3>2 DEF SearchFacts
      <4>2. AtRoot(x, << >>) = x.enc[NoAsn]
        BY <4>1 DEF AtRoot
      <4>3. \A c \in asns : c \notin DOMAIN x.enc => g[c] = Len(x.enc[NoAsn])
        BY <2>6, <3>2 DEF FewestFacts, AsShort
      <4> QED BY <2>3, <4>1, <4>2, <4>3
    <3> QED BY <3>1, <3>2
  <2> QED BY <2>4, <2>5, <2>7 DEF asns
<1> QED BY <1>1, TypedInvariant, PTL

---------------------------------------------------------------------------
(* Binary files: what the coder writes and reads. *)

(* A size is a number, no less than the bits of some class. *)
LEMMA SizeBound ==
    ASSUME NEW c \in Coders, NEW val \in Nat
    PROVE  /\ EncodeSize(c, val) \in Nat
           /\ \E k \in 1 .. Classes(c) :
                 EncodeSize(c, val) >= c.clsbits[k] + (IF Classes(c) = 1 THEN 0 ELSE 1)
<1> DEFINE n == Classes(c)
           ones == Skipped(c, val)
           last == IF ones < n THEN ones + 1 ELSE ones
<1>1. n \in Nat \ {0} /\ c.clsbits \in [1 .. n -> Nat]
  BY CoderShape
<1>2. ones \in 0 .. n
  <2> DEFINE s == {k \in 1 .. n : val - c.minval >= c.starts[k + 1]}
  <2>1. s \subseteq 1 .. n
    OBVIOUS
  <2>2. IsFiniteSet(1 .. n) /\ Cardinality(1 .. n) = n
    BY <1>1, FS_Interval
  <2>3. Cardinality(s) \in Nat /\ Cardinality(s) <= n
    <3> HIDE DEF s, n
    <3>1. IsFiniteSet(s) /\ Cardinality(s) <= n
      BY <2>1, <2>2, FS_Subset
    <3> QED BY <3>1, FS_CardinalityType
  <2> QED BY <1>1, <2>3 DEF Skipped
<1>3. EncodeSize(c, val) = ones + StopBits(c, ones) + c.clsbits[last]
  BY DEF EncodeSize
<1>4. StopBits(c, ones) = IF ones + 1 < n THEN 1 ELSE 0
  BY DEF StopBits
<1> HIDE DEF n, ones
<1>5. last \in 1 .. n
  BY <1>1, <1>2
<1>6. c.clsbits[last] \in Nat
  BY <1>1, <1>5
<1> HIDE DEF last
<1>7. ones + StopBits(c, ones) >= IF n = 1 THEN 0 ELSE 1
  BY <1>1, <1>2, <1>4
<1>8. StopBits(c, ones) \in {0, 1}
  BY <1>4
<1>9. /\ ones + StopBits(c, ones) + c.clsbits[last] \in Nat
      /\ ones + StopBits(c, ones) + c.clsbits[last] >= c.clsbits[last] + (IF n = 1 THEN 0 ELSE 1)
  BY <1>1, <1>2, <1>6, <1>7, <1>8
<1> QED BY <1>3, <1>5, <1>9 DEF n

(* What is decoded ends behind its beginning, within the stream. *)
LEMMA DecodeMoves ==
    ASSUME NEW c \in Coders, NEW stream \in Seq({0, 1}), NEW pos \in Nat,
           Decode(c, stream, pos) # Nothing
    PROVE  LET end == Decode(c, stream, pos).pos
           IN  end \in Nat /\ pos <= end /\ end <= Len(stream) /\ (Classes(c) # 1 => pos < end)
<1> DEFINE n == Classes(c)
           ends == {k \in 0 .. n - 1 :
                       \/ k = n - 1 \/ pos + (k + 1) > Len(stream)
                       \/ stream[pos + (k + 1)] # 1}
<1>1. n \in Nat \ {0} /\ c.clsbits \in [1 .. n -> Nat]
  BY CoderShape
<1>2. n - 1 \in ends /\ ends \subseteq Nat
  <2> HIDE DEF n
  <2> QED BY <1>1
<1>3. PICK m \in ends : \A k \in ends : m <= k
  <2> HIDE DEF ends
  <2> QED BY <1>2, LeastElement
<1>4. m \in 0 .. n - 1 /\ m \in Nat
  BY <1>1, <1>3
<1>5. \A j \in 1 .. m : pos + j <= Len(stream) /\ stream[pos + j] = 1
  <2> SUFFICES ASSUME NEW j \in 1 .. m
               PROVE  pos + j <= Len(stream) /\ stream[pos + j] = 1
    OBVIOUS
  <2>1. j - 1 \in 0 .. n - 1 /\ j - 1 < m /\ j - 1 # n - 1 /\ (j - 1) + 1 = j
    <3> HIDE DEF n, ends
    <3> QED BY <1>1, <1>4
  <2>2. j - 1 \notin ends
    <3> HIDE DEF n, ends
    <3> QED BY <1>3, <1>4, <2>1
  <2>3. ~(pos + j > Len(stream)) /\ ~(stream[pos + j] # 1)
    <3> HIDE DEF n
    <3> QED BY <2>1, <2>2
  <2> QED BY <2>3
<1>6. \/ m = n - 1 \/ pos + (m + 1) > Len(stream) \/ stream[pos + (m + 1)] = 0
  <2>1. m = n - 1 \/ pos + (m + 1) > Len(stream) \/ stream[pos + (m + 1)] # 1
    <3> HIDE DEF n
    <3> QED BY <1>3
  <2>2. ~(pos + (m + 1) > Len(stream)) => stream[pos + (m + 1)] \in {0, 1}
    <3> HIDE DEF n, ends
    <3>1. ~(pos + (m + 1) > Len(stream)) => pos + (m + 1) \in 1 .. Len(stream)
      BY <1>4
    <3> QED BY <3>1
  <2> QED BY <2>1, <2>2
<1> DEFINE end == pos + m + StopBits(c, m) + c.clsbits[m + 1]
<1>7. Decode(c, stream, pos) = IF end > Len(stream) THEN Nothing
                               ELSE [val |-> c.minval + c.starts[m + 1]
                                   + ValueOf(SubSeq(stream, pos + m + StopBits(c, m) + 1, end)),
                                     pos |-> end]
  <2> HIDE DEF ends
  <2> QED BY <1>4, <1>5, <1>6, DecodeReads
<1>8. ~(end > Len(stream)) /\ Decode(c, stream, pos).pos = end
  <2> HIDE DEF end, ends
  <2> QED BY <1>7
<1>9. c.clsbits[m + 1] \in Nat /\ StopBits(c, m) \in {0, 1}
      /\ (n # 1 => m + StopBits(c, m) >= 1)
  <2>1. m + 1 \in 1 .. n
    <3> HIDE DEF n, ends
    <3> QED BY <1>1, <1>4
  <2>2. StopBits(c, m) = IF m + 1 < n THEN 1 ELSE 0
    BY DEF StopBits
  <2> HIDE DEF n, ends
  <2> QED BY <1>1, <1>4, <2>1, <2>2
<1>10. end \in Nat /\ pos <= end /\ (n # 1 => pos < end)
  <2> HIDE DEF n, ends
  <2> QED BY SMTT(30), <1>4, <1>9
<1> HIDE DEF end, n, ends
<1>11. Len(stream) \in Nat
  OBVIOUS
<1> QED BY <1>8, <1>10, <1>11 DEF n

(* The parameters of a coder are those it was made with. *)
LEMMA CoderParts ==
    \A minval, clsbits : /\ VarLenCoder(minval, clsbits).minval = minval
                         /\ VarLenCoder(minval, clsbits).clsbits = clsbits
BY DEF VarLenCoder

(* The numbers of the code's coders that the nodes depend on. *)
LEMMA CoderNumbers ==
    /\ Classes(CODER_INS) = 3 /\ \A v \in 0 .. 3 : CanEncode(CODER_INS, v)
    /\ CODER_ASN.minval = 1 /\ Classes(CODER_ASN) = 10
    /\ \A k \in 1 .. 10 : CODER_ASN.clsbits[k] >= 15
    /\ CODER_JUMP.minval = 17
<1>1. /\ CODER_INS.minval = 0 /\ CODER_INS.clsbits = <<0, 0, 1>>
      /\ CODER_ASN.minval = 1 /\ CODER_ASN.clsbits = [k \in 1 .. 10 |-> k + 14]
      /\ CODER_JUMP.minval = 17
  BY CoderParts, Zenon DEF CODER_INS, CODER_ASN, CODER_JUMP
<1>2. Classes(CODER_INS) = 3 /\ Classes(CODER_ASN) = 10
  BY <1>1 DEF Classes
<1> DEFINE c == CODER_INS
<1>3. /\ c.starts \in [1 .. 4 -> Nat] /\ c.starts[1] = 0
      /\ \A k \in 1 .. 3 : c.starts[k + 1] = c.starts[k] + Room(c.clsbits[k])
  <2>1. c \in Coders /\ Classes(c) = 3
    BY <1>2, CodersOfTheCode
  <2> HIDE DEF c
  <2>2. /\ c.starts \in [1 .. Classes(c) + 1 -> Nat] /\ c.starts[1] = 0
        /\ \A k \in 1 .. Classes(c) : c.starts[k + 1] = c.starts[k] + Room(c.clsbits[k])
    BY <2>1, CoderShape
  <2>3. Classes(c) + 1 = 4
    BY <2>1
  <2> QED BY <2>1, <2>2, <2>3
<1>4. Room(0) = 1 /\ Room(1) = 2
  <2>1. Room(0) = 1 /\ Room(0 + 1) = 2 * Room(0)
    BY RoomDoubles
  <2> QED BY <2>1
<1>5. c.clsbits[1] = 0 /\ c.clsbits[2] = 0 /\ c.clsbits[3] = 1 /\ c.minval = 0
  BY <1>1
<1> HIDE DEF c
<1>6. c.starts[2] = c.starts[1] + 1 /\ c.starts[3] = c.starts[2] + 1 /\ c.starts[4] = c.starts[3] + 2
  <2>1. c.starts[1 + 1] = c.starts[1] + Room(c.clsbits[1])
    BY <1>3
  <2>2. c.starts[2 + 1] = c.starts[2] + Room(c.clsbits[2])
    BY <1>3
  <2>3. c.starts[3 + 1] = c.starts[3] + Room(c.clsbits[3])
    BY <1>3
  <2> QED BY <1>4, <1>5, <2>1, <2>2, <2>3
<1>7. MaxVal(c) = 3
  <2>1. c.starts[4] = 4 /\ Classes(c) + 1 = 4
    BY <1>2, <1>3, <1>6 DEF c
  <2> QED BY <1>5, <2>1 DEF MaxVal
<1>8. \A v \in 0 .. 3 : CanEncode(c, v)
  BY <1>5, <1>7 DEF CanEncode
<1>9. \A k \in 1 .. 10 : CODER_ASN.clsbits[k] >= 15
  BY <1>1
<1> QED BY <1>1, <1>2, <1>8, <1>9 DEF c

(* Room only grows. *)
LEMMA RoomGrows ==
    ASSUME NEW b \in Nat
    PROVE  \A a \in 0 .. b : Room(a) <= Room(b) /\ a < Room(a)
<1> DEFINE S == {k \in 0 .. b : k < Room(k) /\ \A a \in 0 .. k : Room(a) <= Room(k)}
<1>1. \A k \in Nat : Room(k) \in Nat \ {0} /\ Room(k + 1) = 2 * Room(k)
  BY RoomDoubles
<1>2. 0 \in S
  <2>1. Room(0) = 1 /\ 0 \in 0 .. b /\ 0 .. 0 = {0}
    BY RoomDoubles
  <2> QED BY <2>1
<1>3. ASSUME NEW k \in 1 .. b, k - 1 \in S PROVE k \in S
  <2>1. Room(k - 1) \in Nat \ {0} /\ Room((k - 1) + 1) = 2 * Room(k - 1) /\ (k - 1) + 1 = k
    BY <1>1
  <2>2. k - 1 < Room(k - 1) /\ \A a \in 0 .. k - 1 : Room(a) <= Room(k - 1)
    BY <1>3
  <2>3. k < Room(k) /\ Room(k - 1) <= Room(k) /\ Room(k) \in Nat
    BY <2>1, <2>2
  <2>4. ASSUME NEW a \in 0 .. k PROVE Room(a) <= Room(k)
    <3>1. CASE a = k
      BY <2>3, <3>1
    <3>2. CASE a # k
      <4>1. a \in 0 .. k - 1 /\ a \in Nat
        BY <3>2
      <4>2. Room(a) \in Nat /\ Room(a) <= Room(k - 1)
        BY <1>1, <2>2, <4>1
      <4> QED BY <2>1, <2>3, <4>2
    <3> QED BY <3>1, <3>2
  <2> QED BY <2>3, <2>4
<1> HIDE DEF S
<1>4. \A k \in 0 .. b : k \in S
  BY <1>2, <1>3, IntervalInduction
<1>5. b \in 0 .. b
  OBVIOUS
<1> QED BY <1>4, <1>5 DEF S

(* A match has at most as many bits as its coder has classes. *)
IsMatch(val) == \E m \in 1 .. MATCH_CLASSES : val \in Room(m) .. Room(m + 1) - 1

(* The coder has a class for every match of that many bits. *)
LEMMA MatchInRange ==
    ASSUME NEW val, IsMatch(val)
    PROVE  CanEncode(CODER_MATCH, val) /\ val \in Nat
<1> DEFINE n == MATCH_CLASSES
           c == CODER_MATCH
           S == {k \in 0 .. n : c.starts[k + 1] = Room(k + 1) - 2}
<1>1. n \in Nat \ {0}
  BY MatchAssumption
<1>2. c.minval = 2 /\ c.clsbits = [k \in 1 .. n |-> k] /\ c \in Coders
  BY CoderParts, CodersOfTheCode, Zenon DEF CODER_MATCH
<1>3. Classes(c) = n
  <2> HIDE DEF c, n
  <2> QED BY <1>1, <1>2 DEF Classes
<1>4. /\ c.starts \in [1 .. n + 1 -> Nat] /\ c.starts[1] = 0
      /\ \A k \in 1 .. n : c.starts[k + 1] = c.starts[k] + Room(k)
  <2> HIDE DEF c, n
  <2>1. /\ c.starts \in [1 .. Classes(c) + 1 -> Nat] /\ c.starts[1] = 0
        /\ \A k \in 1 .. Classes(c) : c.starts[k + 1] = c.starts[k] + Room(c.clsbits[k])
    BY <1>2, CoderShape
  <2>2. \A k \in 1 .. n : c.clsbits[k] = k
    BY <1>2
  <2> QED BY <1>3, <2>1, <2>2
<1>5. \A k \in Nat : Room(k) \in Nat \ {0} /\ Room(k + 1) = 2 * Room(k)
  BY RoomDoubles
<1> HIDE DEF c, n
<1>6. 0 \in S
  <2>1. Room(0) = 1 /\ Room(0 + 1) = 2 * Room(0)
    BY RoomDoubles
  <2> QED BY <1>1, <1>4, <2>1
<1>7. ASSUME NEW k \in 1 .. n, k - 1 \in S PROVE k \in S
  <2>1. c.starts[k] = Room(k) - 2
    <3>1. (k - 1) + 1 = k
      OBVIOUS
    <3> QED BY <1>7, <3>1
  <2>2. c.starts[k + 1] = c.starts[k] + Room(k) /\ Room(k) \in Nat /\ Room(k + 1) = 2 * Room(k)
    BY <1>4, <1>5
  <2>3. k \in 0 .. n
    OBVIOUS
  <2> QED BY <2>1, <2>2, <2>3
<1>8. c.starts[n + 1] = Room(n + 1) - 2
  <2> HIDE DEF S
  <2>1. n \in S
    BY <1>1, <1>6, <1>7, IntervalInduction
  <2> QED BY <2>1 DEF S
<1>9. Room(n + 1) \in Nat
  BY <1>1, <1>5
<1>10. MaxVal(c) = Room(n + 1) - 1
  BY <1>2, <1>3, <1>8, <1>9 DEF MaxVal
<1>11. PICK m \in 1 .. n : val \in Room(m) .. Room(m + 1) - 1
  BY DEF IsMatch, n
<1>12. Room(1) <= Room(m) /\ Room(m + 1) <= Room(n + 1) /\ Room(m) \in Nat /\ Room(m + 1) \in Nat
  <2>1. m \in Nat /\ 1 \in 0 .. m /\ m + 1 \in 0 .. n + 1 /\ m + 1 \in Nat /\ n + 1 \in Nat
    BY <1>1
  <2> QED BY <1>5, <2>1, RoomGrows
<1>13. Room(1) = 2
  <2>1. Room(0) = 1 /\ Room(0 + 1) = 2 * Room(0)
    BY RoomDoubles
  <2> QED BY <2>1
<1>14. val \in 2 .. Room(n + 1) - 1
  BY <1>9, <1>11, <1>12, <1>13
<1> QED BY <1>2, <1>10, <1>14 DEF CanEncode, c

---------------------------------------------------------------------------
(* The bits of an instruction. *)

(* Streams of bits, instructions, and the nodes made of them. *)
Stream == Seq({0, 1})

(* Streams one after another. *)
LEMMA StreamLaws ==
    ASSUME NEW s \in Stream, NEW t \in Stream, NEW u \in Stream
    PROVE  /\ s \o t \in Stream /\ Len(s \o t) = Len(s) + Len(t) /\ Len(s) \in Nat
           /\ s \o << >> = s /\ << >> \o s = s
           /\ (s \o t) \o u = s \o (t \o u)
<1>1. s \in Seq({0, 1}) /\ t \in Seq({0, 1}) /\ u \in Seq({0, 1})
  BY DEF Stream
<1>2. (s \o t) \o u = s \o (t \o u)
  BY <1>1, ConcatAssociative
<1> QED BY <1>1, <1>2, ConcatEmptySeq, ConcatProperties DEF Stream

(* Three streams one after another. *)
LEMMA StreamAssoc == \A s, t, u \in Stream : (s \o t) \o u = s \o (t \o u)
<1> SUFFICES ASSUME NEW s \in Stream, NEW t \in Stream, NEW u \in Stream
             PROVE  (s \o t) \o u = s \o (t \o u)
  OBVIOUS
<1>1. s \in Seq({0, 1}) /\ t \in Seq({0, 1}) /\ u \in Seq({0, 1})
  BY DEF Stream
<1> QED BY <1>1, ConcatAssociative

InsNames == {"Return", "Jump", "Match", "Default"}

Instr == [ins : InsNames, val : Nat, size : Nat]

Code == Seq(Instr)

(* Every instruction has a number that is written, and read as the instruction. *)
LEMMA InsNameOf ==
    ASSUME NEW ins \in InsNames
    PROVE  /\ InsValue[ins] \in 0 .. 3 /\ InsName(InsValue[ins]) = ins
           /\ InsSize(ins) \in Nat \ {0}
           /\ Encode(CODER_INS, InsValue[ins]) \in Stream
           /\ Len(Encode(CODER_INS, InsValue[ins])) = InsSize(ins)
<1>1. /\ DOMAIN InsValue = InsNames /\ InsValue[ins] \in 0 .. 3
      /\ \A j \in InsNames : InsValue[j] = InsValue[ins] => j = ins
  BY DEF InsValue, InsNames
<1> HIDE DEF InsNames
<1>2. InsName(InsValue[ins]) = ins
  <2>1. InsName(InsValue[ins]) = CHOOSE name \in InsNames : InsValue[name] = InsValue[ins]
    BY <1>1 DEF InsName
  <2> QED BY <1>1, <2>1
<1> DEFINE v == InsValue[ins]
           c == CODER_INS
<1>3. v \in Nat /\ CanEncode(c, v) /\ c \in Coders /\ Classes(c) = 3
  BY <1>1, CoderNumbers, CodersOfTheCode
<1> HIDE DEF v, c
<1>4. /\ EncodeSize(c, v) \in Nat
      /\ \E k \in 1 .. Classes(c) : EncodeSize(c, v) >= c.clsbits[k] + (IF Classes(c) = 1 THEN 0 ELSE 1)
  BY <1>3, SizeBound
<1>5. \A k \in 1 .. Classes(c) : c.clsbits[k] \in Nat
  BY <1>3, CoderShape
<1>6. EncodeSize(c, v) \in Nat \ {0}
  BY <1>3, <1>4, <1>5
<1>7. Encode(c, v) \in Stream /\ Len(Encode(c, v)) = EncodeSize(c, v)
  BY <1>3, EncodeShape, SizeIsLength DEF Stream
<1> QED BY <1>1, <1>2, <1>6, <1>7 DEF InsSize, v, c

(* Every operand has a coder. *)
LEMMA OperandCoders == \A ins : OperandCoder(ins) \in Coders
<1>1. CODER_JUMP \in Coders /\ CODER_MATCH \in Coders /\ CODER_ASN \in Coders
  BY CodersOfTheCode
<1> QED BY <1>1, Zenon DEF OperandCoder

(* The size of an instruction, without what follows it. *)
OwnSize(x) == InsSize(x.ins) + EncodeSize(OperandCoder(x.ins), x.val)

(* An instruction takes at least a bit. *)
LEMMA OwnSizeType ==
    ASSUME NEW x \in Instr
    PROVE  OwnSize(x) \in Nat \ {0}
<1>1. x.ins \in InsNames /\ x.val \in Nat
  BY DEF Instr
<1>2. InsSize(x.ins) \in Nat \ {0}
  BY <1>1, InsNameOf
<1>3. EncodeSize(OperandCoder(x.ins), x.val) \in Nat
  BY <1>1, OperandCoders, SizeBound
<1> QED BY <1>2, <1>3 DEF OwnSize

(* An instruction is written in as many bits as it says. *)
LEMMA WrittenType ==
    ASSUME NEW x \in Instr, CanEncode(OperandCoder(x.ins), x.val)
    PROVE  /\ Written(x) \in Stream /\ Len(Written(x)) = OwnSize(x)
           /\ Encode(CODER_INS, InsValue[x.ins]) \in Stream
           /\ Encode(OperandCoder(x.ins), x.val) \in Stream
<1> DEFINE ins == Encode(CODER_INS, InsValue[x.ins])
           operand == Encode(OperandCoder(x.ins), x.val)
<1>1. ins \in Stream /\ Len(ins) = InsSize(x.ins)
  BY InsNameOf DEF Instr
<1>2. operand \in Stream /\ Len(operand) = EncodeSize(OperandCoder(x.ins), x.val)
  BY OperandCoders, EncodeShape, SizeIsLength DEF Stream
<1>3. Written(x) = ins \o operand
  BY DEF Written
<1> HIDE DEF ins, operand
<1>4. ins \o operand \in Stream /\ Len(ins \o operand) = Len(ins) + Len(operand)
  BY <1>1, <1>2 DEF Stream
<1> QED BY <1>1, <1>2, <1>3, <1>4 DEF OwnSize, ins, operand

(* A node is written one instruction after another. *)
LEMMA EncodeUnfolds ==
    ASSUME NEW n \in Code, Encodable(n)
    PROVE  \E g \in [0 .. Len(n) -> Stream] :
              /\ g[0] = << >> /\ \A i \in 1 .. Len(n) : g[i] = g[i - 1] \o Written(n[i])
              /\ EncodeNode(n) = g[Len(n)]
<1> DEFINE len == Len(n)
           seqs == [i \in DOMAIN n |-> Written(n[i])]
           step == [i \in 1 .. len |-> [s \in Stream |-> s \o Written(n[i])]]
<1>1. len \in Nat /\ DOMAIN n = 1 .. len /\ \A i \in 1 .. len : Written(n[i]) \in Stream
  BY WrittenType DEF Code, Encodable
<1>2. << >> \in Stream /\ step \in [1 .. len -> [Stream -> Stream]]
  <2>1. ASSUME NEW s \in Stream, NEW i \in 1 .. len PROVE s \o Written(n[i]) \in Stream
    <3>1. Written(n[i]) \in Stream
      BY <1>1
    <3> QED BY <3>1 DEF Stream
  <2>2. << >> \in Stream
    BY DEF Stream
  <2> QED BY <2>1, <2>2
<1> HIDE DEF len
<1>3. PICK g \in [0 .. len -> Stream] : Unfolds(g, len, << >>, step)
  <2> HIDE DEF step
  <2> QED BY <1>1, <1>2, IntervalRecursion
<1>4. g[0] = << >> /\ \A i \in 1 .. len : g[i] = g[i - 1] \o Written(n[i])
  <2>1. \A i \in 1 .. len : i - 1 \in 0 .. len /\ g[i - 1] \in Stream
    BY <1>1
  <2> QED BY <1>3, <2>1 DEF Unfolds
<1>5. seqs = [i \in 1 .. len |-> Written(n[i])] /\ Len(seqs) = len
  BY <1>1
<1>6. CASE len = 0
  <2>1. EncodeNode(n) = seqs
    BY <1>5, <1>6 DEF EncodeNode, FlattenSeq
  <2>2. seqs = << >>
    BY <1>1, <1>5, <1>6
  <2> QED BY <1>4, <1>6, <2>1, <2>2 DEF len
<1>7. CASE len # 0
  <2> DEFINE Is(f) == f = [i \in 1 .. len |-> IF i = 1 THEN seqs[i] ELSE f[i - 1] \o seqs[i]]
             f == CHOOSE f : Is(f)
  <2>1. EncodeNode(n) = f[len]
    BY <1>5, <1>7 DEF EncodeNode, FlattenSeq
  <2> DEFINE h == [i \in 1 .. len |-> g[i]]
  <2>2. \A i \in 1 .. len : seqs[i] = Written(n[i])
    BY <1>1
  <2> HIDE DEF seqs
  <2>3. Is(h)
    <3> DEFINE again == [i \in 1 .. len |-> IF i = 1 THEN seqs[i] ELSE h[i - 1] \o seqs[i]]
    <3>1. ASSUME NEW i \in 1 .. len PROVE h[i] = again[i]
      <4>1. CASE i = 1
        <5>1. g[1] = g[0] \o Written(n[1]) /\ Written(n[1]) \in Stream
          <6>1. g[i] = g[i - 1] \o Written(n[i])
            BY <1>4
          <6> QED BY <1>1, <4>1, <6>1
        <5>2. g[1] = Written(n[1])
          BY <1>4, <5>1 DEF Stream
        <5> QED BY <2>2, <4>1, <5>2
      <4>2. CASE i # 1
        <5>1. i - 1 \in 1 .. len
          BY <1>1, <4>2
        <5> QED BY <1>4, <2>2, <4>2, <5>1
      <4> QED BY <4>1, <4>2
    <3> QED BY <3>1
  <2> HIDE DEF h
  <2>4. Is(f)
    <3> HIDE DEF Is
    <3> QED BY <2>3, Zenon
  <2> HIDE DEF f
  <2>5. \A i \in 1 .. len : f[i] = IF i = 1 THEN seqs[i] ELSE f[i - 1] \o seqs[i]
    BY <2>4
  <2> HIDE DEF Is
  <2> DEFINE S == {k \in 0 .. len : k = 0 \/ f[k] = g[k]}
  <2>6. 0 \in S
    BY <1>1
  <2>7. ASSUME NEW k \in 1 .. len, k - 1 \in S PROVE k \in S
    <3>1. g[k] = g[k - 1] \o seqs[k]
      BY <1>4, <2>2
    <3>2. ASSUME k = 1 PROVE f[k] = g[k]
      <4>1. seqs[k] \in Stream /\ g[k - 1] = << >>
        BY <1>1, <1>4, <2>2, <3>2
      <4>2. g[k] = seqs[k]
        BY <3>1, <4>1 DEF Stream
      <4> QED BY <2>5, <3>2, <4>2
    <3>3. ASSUME k # 1 PROVE f[k] = g[k]
      <4>1. f[k - 1] = g[k - 1]
        BY <2>7, <3>3
      <4> QED BY <2>5, <3>1, <3>3, <4>1
    <3>4. k \in 0 .. len
      BY <1>1
    <3> QED BY <3>2, <3>3, <3>4
  <2> HIDE DEF S
  <2>8. len \in S
    BY <1>1, <2>6, <2>7, IntervalInduction
  <2>9. f[len] = g[len]
    BY <1>7, <2>8 DEF S
  <2> QED BY <1>4, <2>1, <2>9 DEF len
<1> QED BY <1>6, <1>7

(* Two lists of instructions are written one after the other. *)
LEMMA EncodeConcat ==
    ASSUME NEW a \in Code, NEW b \in Code
    PROVE  /\ a \o b \in Code
           /\ Encodable(a \o b) <=> Encodable(a) /\ Encodable(b)
           /\ Encodable(a \o b) => /\ EncodeNode(a) \in Stream /\ EncodeNode(b) \in Stream
                                   /\ EncodeNode(a \o b) = EncodeNode(a) \o EncodeNode(b)
<1> DEFINE m == Len(a)
           n == Len(b)
           ab == a \o b
<1>1. /\ m \in Nat /\ n \in Nat /\ ab \in Code /\ Len(ab) = m + n
      /\ DOMAIN a = 1 .. m /\ DOMAIN b = 1 .. n /\ DOMAIN ab = 1 .. m + n
      /\ \A i \in 1 .. m : ab[i] = a[i]
      /\ \A i \in 1 .. n : ab[m + i] = b[i]
  BY DEF Code
<1> HIDE DEF m, n, ab
<1>2. Encodable(ab) <=> Encodable(a) /\ Encodable(b)
  <2>1. ASSUME Encodable(ab) PROVE Encodable(a) /\ Encodable(b)
    <3>1. \A i \in 1 .. m : i \in 1 .. m + n
      BY <1>1
    <3>2. \A i \in 1 .. n : m + i \in 1 .. m + n
      BY <1>1
    <3> QED BY <1>1, <2>1, <3>1, <3>2 DEF Encodable
  <2>2. ASSUME Encodable(a), Encodable(b) PROVE Encodable(ab)
    <3> SUFFICES ASSUME NEW i \in 1 .. m + n
                 PROVE  CanEncode(OperandCoder(ab[i].ins), ab[i].val)
      BY <1>1 DEF Encodable
    <3>1. CASE i <= m
      <4>1. i \in 1 .. m
        BY <1>1, <3>1
      <4> QED BY <1>1, <2>2, <4>1 DEF Encodable
    <3>2. CASE i > m
      <4>1. i - m \in 1 .. n /\ m + (i - m) = i
        BY <1>1, <3>2
      <4>2. ab[i] = b[i - m]
        BY <1>1, <4>1
      <4> QED BY <1>1, <2>2, <4>1, <4>2 DEF Encodable
    <3> QED BY <1>1, <3>1, <3>2
  <2> QED BY <2>1, <2>2
<1>3. ASSUME Encodable(ab)
      PROVE  /\ EncodeNode(a) \in Stream /\ EncodeNode(b) \in Stream
             /\ EncodeNode(ab) = EncodeNode(a) \o EncodeNode(b)
  <2>1. PICK g \in [0 .. m -> Stream] :
           /\ g[0] = << >> /\ \A i \in 1 .. m : g[i] = g[i - 1] \o Written(a[i])
           /\ EncodeNode(a) = g[m]
    BY <1>2, <1>3, EncodeUnfolds DEF m
  <2>2. PICK h \in [0 .. n -> Stream] :
           /\ h[0] = << >> /\ \A i \in 1 .. n : h[i] = h[i - 1] \o Written(b[i])
           /\ EncodeNode(b) = h[n]
    BY <1>2, <1>3, EncodeUnfolds DEF n
  <2>3. PICK f \in [0 .. m + n -> Stream] :
           /\ f[0] = << >> /\ \A i \in 1 .. m + n : f[i] = f[i - 1] \o Written(ab[i])
           /\ EncodeNode(ab) = f[m + n]
    BY <1>1, <1>3, EncodeUnfolds
  <2> DEFINE S == {k \in 0 .. m : f[k] = g[k]}
  <2>4. m \in S
    <3>1. 0 \in S
      BY <1>1, <2>1, <2>3
    <3>2. ASSUME NEW k \in 1 .. m, k - 1 \in S PROVE k \in S
      <4>1. k \in 1 .. m + n /\ ab[k] = a[k] /\ f[k - 1] = g[k - 1] /\ k \in 0 .. m
        BY <1>1, <3>2
      <4>2. f[k] = g[k]
        BY <2>1, <2>3, <4>1
      <4> QED BY <4>1, <4>2
    <3> HIDE DEF S
    <3>3. \A k \in 0 .. m : k \in S
      BY <1>1, <3>1, <3>2, IntervalInduction
    <3> QED BY <1>1, <3>3
  <2>5. f[m] = g[m] /\ g[m] \in Stream
    BY <1>1, <2>4
  <2> DEFINE T == {k \in 0 .. n : f[m + k] = g[m] \o h[k]}
  <2>6. 0 \in T
    <3>1. g[m] \o << >> = g[m]
      BY <2>5, ConcatEmptySeq DEF Stream
    <3>2. m + 0 = m /\ 0 \in 0 .. n
      BY <1>1
    <3>3. f[m + 0] = g[m] \o h[0]
      BY <2>2, <2>5, <3>1, <3>2
    <3> QED BY <3>2, <3>3
  <2>7. ASSUME NEW k \in 1 .. n, k - 1 \in T PROVE k \in T
    <3>1. m + k \in 1 .. m + n /\ (m + k) - 1 = m + (k - 1) /\ ab[m + k] = b[k] /\ k - 1 \in 0 .. n
      BY <1>1
    <3>2. f[m + k] = (g[m] \o h[k - 1]) \o Written(b[k])
      BY <2>3, <2>7, <3>1
    <3>3. h[k - 1] \in Stream /\ Written(b[k]) \in Stream
      <4>1. b[k] \in Instr
        BY <1>1 DEF Code
      <4>2. CanEncode(OperandCoder(b[k].ins), b[k].val)
        BY <1>1, <1>2, <1>3 DEF Encodable
      <4> QED BY <2>2, <3>1, <4>1, <4>2, WrittenType
    <3>4. f[m + k] = g[m] \o (h[k - 1] \o Written(b[k]))
      <4>1. (g[m] \o h[k - 1]) \o Written(b[k]) = g[m] \o (h[k - 1] \o Written(b[k]))
        BY <2>5, <3>3, StreamAssoc, Zenon
      <4> QED BY <3>2, <4>1
    <3>5. h[k] = h[k - 1] \o Written(b[k]) /\ k \in 0 .. n
      BY <1>1, <2>2
    <3> QED BY <3>4, <3>5
  <2>8. n \in T
    <3> HIDE DEF T
    <3>1. \A k \in 0 .. n : k \in T
      BY <1>1, <2>6, <2>7, IntervalInduction
    <3> QED BY <1>1, <3>1
  <2>9. f[m + n] = g[m] \o h[n] /\ h[n] \in Stream
    BY <1>1, <2>2, <2>8
  <2> QED BY <2>1, <2>2, <2>3, <2>5, <2>9
<1> QED BY <1>1, <1>2, <1>3 DEF ab

(* A list of one instruction. *)
LEMMA EncodeOne ==
    ASSUME NEW x \in Instr, CanEncode(OperandCoder(x.ins), x.val)
    PROVE  /\ <<x>> \in Code /\ Encodable(<<x>>)
           /\ EncodeNode(<<x>>) = Written(x)
<1> DEFINE n == <<x>>
<1>1. n \in Code /\ Len(n) = 1 /\ DOMAIN n = {1} /\ n[1] = x
  BY DEF Code
<1> HIDE DEF n
<1>2. Encodable(n)
  BY <1>1 DEF Encodable
<1>3. PICK g \in [0 .. 1 -> Stream] :
         g[0] = << >> /\ (\A i \in 1 .. 1 : g[i] = g[i - 1] \o Written(n[i])) /\ EncodeNode(n) = g[1]
  BY <1>1, <1>2, EncodeUnfolds
<1>4. g[1] = << >> \o Written(x)
  <2>1. 1 \in 1 .. 1 /\ 1 - 1 = 0
    OBVIOUS
  <2>2. g[1] = g[1 - 1] \o Written(n[1])
    BY <1>3, <2>1
  <2> QED BY <1>1, <1>3, <2>1, <2>2
<1>5. Written(x) \in Stream
  BY WrittenType
<1>6. << >> \o Written(x) = Written(x)
  BY <1>5, ConcatEmptySeq DEF Stream
<1> QED BY <1>1, <1>2, <1>3, <1>4, <1>6 DEF n

---------------------------------------------------------------------------
(* Decoding: what is behind a bit decides. *)

(* What decode makes of the bits behind pos, from the nodes behind them. *)
DecodedAt(bits, at, pos) ==
    LET ins == Decode(CODER_INS, bits, pos)
        operand == Decode(OperandCoder(InsName(ins.val)), bits, ins.pos)
        first == at[operand.pos]
    IN  IF ins = Nothing \/ operand = Nothing THEN NoNode
        ELSE Assembled(InsName(ins.val), operand, first, at[first.pos])

IsDecoded(bits, at) == at = [pos \in 0 .. Len(bits) |-> DecodedAt(bits, at, pos)]

(* A node takes at least a bit, and only bits that are there. *)
Ends(x, pos, len) == x = NoNode \/ x.pos \in pos + 1 .. len

(* What is behind a bit is all that counts for the node there. *)
LEMMA DecodedAtLocal ==
    ASSUME NEW bits \in Stream, NEW pos \in 0 .. Len(bits), NEW g, NEW h,
           \A q \in pos + 1 .. Len(bits) : g[q] = h[q] /\ Ends(h[q], q, Len(bits))
    PROVE  /\ DecodedAt(bits, g, pos) = DecodedAt(bits, h, pos)
           /\ Ends(DecodedAt(bits, h, pos), pos, Len(bits))
<1> DEFINE len == Len(bits)
           ins == Decode(CODER_INS, bits, pos)
           operand == Decode(OperandCoder(InsName(ins.val)), bits, ins.pos)
           At(at) == IF ins = Nothing \/ operand = Nothing THEN NoNode
                     ELSE Assembled(InsName(ins.val), operand, at[operand.pos], at[at[operand.pos].pos])
<1>1. len \in Nat /\ pos \in Nat /\ bits \in Seq({0, 1})
  BY DEF Stream
<1>2. \A at : DecodedAt(bits, at, pos) = At(at)
  BY DEF DecodedAt
<1>3. ASSUME ins # Nothing, operand # Nothing
      PROVE  operand.pos \in pos + 1 .. len
  <2> DEFINE c == OperandCoder(InsName(ins.val))
  <2>1. CODER_INS \in Coders /\ c \in Coders /\ Classes(CODER_INS) # 1
    BY CodersOfTheCode, OperandCoders, CoderNumbers
  <2>2. ins.pos \in Nat /\ pos < ins.pos
    BY <1>1, <1>3, <2>1, DecodeMoves
  <2>3. operand.pos \in Nat /\ ins.pos <= operand.pos /\ operand.pos <= len
    <3> HIDE DEF c
    <3>1. operand = Decode(c, bits, ins.pos)
      BY DEF c
    <3> HIDE DEF operand, ins
    <3> QED BY <1>1, <1>3, <2>1, <2>2, <3>1, DecodeMoves
  <2> HIDE DEF ins, operand
  <2> QED BY <1>1, <2>2, <2>3
<1> HIDE DEF ins, operand, len
<1> DEFINE first == h[operand.pos]
           name == InsName(ins.val)
<1>4. CASE ins = Nothing \/ operand = Nothing
  BY <1>2, <1>4 DEF Ends
<1>5. CASE ins # Nothing /\ operand # Nothing /\ first = NoNode
  <2>1. g[operand.pos] = first
    BY <1>3, <1>5 DEF len
  <2> HIDE DEF first, name
  <2>2. \A at : at[operand.pos] = first => At(at) = Assembled(name, operand, NoNode, at[first.pos])
    BY <1>5 DEF name
  <2>3. \A second : Assembled(name, operand, NoNode, second)
                      = IF name = "Return" THEN [node |-> LeafNode(operand.val), pos |-> operand.pos]
                        ELSE NoNode
    BY DEF Assembled
  <2>4. At(g) = At(h) /\ At(h) = Assembled(name, operand, NoNode, h[first.pos])
    BY <2>1, <2>2, <2>3 DEF first
  <2> HIDE DEF At
  <2>5. Ends(At(h), pos, len)
    BY <1>3, <1>5, <2>3, <2>4 DEF Ends
  <2> QED BY <1>2, <2>4, <2>5 DEF len
<1>6. CASE ins # Nothing /\ operand # Nothing /\ first # NoNode
  <2> DEFINE second == h[first.pos]
  <2>1. g[operand.pos] = first /\ Ends(first, operand.pos, len)
    BY <1>3, <1>6 DEF len
  <2>2. first.pos \in operand.pos + 1 .. len
    BY <1>6, <2>1 DEF Ends
  <2>3. first.pos \in pos + 1 .. len
    <3> HIDE DEF first
    <3> QED BY <1>1, <1>3, <1>6, <2>2
  <2>4. g[first.pos] = second /\ Ends(second, first.pos, len)
    BY <2>3 DEF len
  <2>5. At(g) = Assembled(name, operand, first, second) /\ At(h) = Assembled(name, operand, first, second)
    BY <1>6, <2>1, <2>4
  <2>6. second # NoNode => second.pos \in pos + 1 .. len
    <3>1. second # NoNode => second.pos \in first.pos + 1 .. len
      BY <2>4 DEF Ends
    <3> HIDE DEF second, first
    <3> QED BY <1>1, <2>3, <3>1
  <2> HIDE DEF first, second, name, At
  <2>7. Ends(Assembled(name, operand, first, second), pos, len)
    BY <1>3, <1>6, <2>3, <2>6 DEF Ends, Assembled
  <2> QED BY <1>2, <2>5, <2>7 DEF len
<1> QED BY <1>4, <1>5, <1>6

(* So there is what decode makes of every bit. *)
LEMMA DecodedIs ==
    ASSUME NEW bits \in Stream
    PROVE  \A pos \in 0 .. Len(bits) : Decoded(bits)[pos] = DecodedAt(bits, Decoded(bits), pos)
<1> DEFINE len == Len(bits)
           P(m, h) == /\ h = [pos \in len - m + 1 .. len |-> DecodedAt(bits, h, pos)]
                      /\ \A pos \in len - m + 1 .. len : Ends(h[pos], pos, len)
           S == {m \in 0 .. len + 1 : \E h : P(m, h)}
<1>1. len \in Nat /\ len + 1 \in Nat
  BY DEF Stream
<1>2. 0 \in S
  <2> DEFINE h == [pos \in len - 0 + 1 .. len |-> NoNode]
  <2>1. len - 0 + 1 .. len = {}
    BY <1>1
  <2> HIDE DEF len
  <2>2. P(0, h)
    BY <2>1
  <2> HIDE DEF P
  <2> QED BY <1>1, <2>2
<1>3. ASSUME NEW m \in 1 .. len + 1, m - 1 \in S PROVE m \in S
  <2> DEFINE p == len - m + 1
  <2>1. /\ p \in 0 .. len /\ len - (m - 1) + 1 = p + 1 /\ m \in 0 .. len + 1
    <3> HIDE DEF len
    <3> QED BY <1>1
  <2>2. PICK h : P(m - 1, h)
    BY <1>3
  <2>3. h = [pos \in p + 1 .. len |-> DecodedAt(bits, h, pos)] /\ \A pos \in p + 1 .. len : Ends(h[pos], pos, len)
    BY <2>1, <2>2
  <2> DEFINE g == [pos \in p .. len |-> DecodedAt(bits, h, pos)]
  <2> HIDE DEF p, P
  <2>4. ASSUME NEW pos \in p .. len
        PROVE  /\ pos \in 0 .. len
               /\ \A q \in pos + 1 .. len : q \in p .. len /\ g[q] = h[q] /\ Ends(h[q], q, len)
    <3> HIDE DEF len
    <3>1. pos \in 0 .. len /\ \A q \in pos + 1 .. len : q \in p + 1 .. len /\ q \in p .. len
      BY <1>1, <2>1
    <3>2. \A q \in p + 1 .. len : h[q] = DecodedAt(bits, h, q)
      BY <2>3, Zenon
    <3> QED BY <2>3, <3>1, <3>2
  <2>5. ASSUME NEW pos \in p .. len
        PROVE  DecodedAt(bits, g, pos) = DecodedAt(bits, h, pos) /\ Ends(DecodedAt(bits, h, pos), pos, len)
    <3> HIDE DEF g
    <3> QED BY <2>4, DecodedAtLocal
  <2>6. g = [pos \in p .. len |-> DecodedAt(bits, g, pos)] /\ \A pos \in p .. len : Ends(g[pos], pos, len)
    <3>1. \A pos \in p .. len : g[pos] = DecodedAt(bits, h, pos)
      OBVIOUS
    <3>2. DOMAIN g = p .. len /\ g = [pos \in DOMAIN g |-> g[pos]]
      OBVIOUS
    <3> HIDE DEF g
    <3> QED BY <2>5, <3>1, <3>2
  <2>7. P(m, g)
    <3> HIDE DEF g
    <3> QED BY <2>6 DEF P, p
  <2> QED BY <2>1, <2>7
<1> HIDE DEF S
<1>4. \A m \in 0 .. len + 1 : m \in S
  <2> HIDE DEF len
  <2> QED BY <1>1, <1>2, <1>3, IntervalInduction
<1>5. len + 1 \in S /\ len - (len + 1) + 1 = 0
  <2> HIDE DEF len
  <2> QED BY <1>1, <1>4
<1>6. \E h : IsDecoded(bits, h)
  <2>1. PICK h : P(len + 1, h)
    BY <1>5 DEF S
  <2>2. h = [pos \in 0 .. len |-> DecodedAt(bits, h, pos)]
    BY <1>5, <2>1
  <2> QED BY <2>2 DEF IsDecoded
<1>7. Decoded(bits) = CHOOSE h : IsDecoded(bits, h)
  BY DEF Decoded, IsDecoded, DecodedAt
<1>8. IsDecoded(bits, Decoded(bits))
  BY <1>6, <1>7
<1> DEFINE d == Decoded(bits)
<1>9. d = [pos \in 0 .. Len(bits) |-> DecodedAt(bits, d, pos)]
  BY <1>8 DEF IsDecoded
<1> HIDE DEF d
<1>10. \A pos \in 0 .. Len(bits) : d[pos] = DecodedAt(bits, d, pos)
  BY <1>9, Zenon
<1> QED BY <1>10 DEF d

(* What is left of two streams that are cut in the first, or in the second. *)
LEMMA CutOfBoth ==
    ASSUME NEW s \in Stream, NEW t \in Stream, NEW k \in 0 .. Len(s) + Len(t)
    PROVE  /\ k <= Len(s) => SubSeq(s \o t, 1, k) = SubSeq(s, 1, k)
           /\ k >= Len(s) => /\ k - Len(s) \in 0 .. Len(t)
                             /\ SubSeq(s \o t, 1, k) = s \o SubSeq(t, 1, k - Len(s))
           /\ SubSeq(s \o t, 1, k) \in Stream
<1> DEFINE m == Len(s)
           n == Len(t)
           st == s \o t
<1>1. /\ m \in Nat /\ n \in Nat /\ st \in Seq({0, 1}) /\ Len(st) = m + n /\ s \in Seq({0, 1}) /\ t \in Seq({0, 1})
      /\ \A i \in 1 .. m : st[i] = s[i]
      /\ \A i \in 1 .. n : st[m + i] = t[i]
  BY DEF Stream
<1>2. k \in Nat /\ k <= m + n /\ 0 \in Nat
  BY <1>1
<1> HIDE DEF m, n, st
<1>3. SubSeq(st, 1, k) \in Seq({0, 1}) /\ Len(SubSeq(st, 1, k)) = k /\ \A i \in 1 .. k : SubSeq(st, 1, k)[i] = st[i]
  BY <1>1, <1>2
<1>4. ASSUME k <= m PROVE SubSeq(st, 1, k) = SubSeq(s, 1, k)
  <2>1. SubSeq(s, 1, k) \in Seq({0, 1}) /\ Len(SubSeq(s, 1, k)) = k /\ \A i \in 1 .. k : SubSeq(s, 1, k)[i] = s[i]
    BY <1>1, <1>2, <1>4 DEF m
  <2>2. \A i \in 1 .. k : SubSeq(st, 1, k)[i] = SubSeq(s, 1, k)[i]
    BY <1>1, <1>2, <1>3, <1>4, <2>1
  <2> QED BY <1>2, <1>3, <2>1, <2>2, SeqEqual
<1>5. ASSUME k >= m PROVE k - m \in 0 .. n /\ SubSeq(st, 1, k) = s \o SubSeq(t, 1, k - m)
  <2> DEFINE j == k - m
             u == SubSeq(t, 1, j)
  <2>1. j \in 0 .. n /\ j \in Nat /\ j <= n
    BY <1>1, <1>2, <1>5
  <2> HIDE DEF j
  <2>2. u \in Seq({0, 1}) /\ Len(u) = j /\ \A i \in 1 .. j : u[i] = t[i]
    BY <1>1, <2>1 DEF n
  <2> HIDE DEF u
  <2>3. /\ s \o u \in Seq({0, 1}) /\ Len(s \o u) = m + j
        /\ \A i \in 1 .. m : (s \o u)[i] = s[i]
        /\ \A i \in 1 .. j : (s \o u)[m + i] = u[i]
    <3> DEFINE v == s \o u
    <3>1. /\ v \in Seq({0, 1}) /\ Len(v) = m + j
          /\ \A i \in 1 .. m + j : v[i] = IF i <= m THEN s[i] ELSE u[i - m]
      BY <1>1, <2>1, <2>2, ConcatProperties DEF m
    <3> HIDE DEF v
    <3>2. \A i \in 1 .. m : i \in 1 .. m + j /\ i <= m
      BY <1>1, <2>1
    <3>3. \A i \in 1 .. j : m + i \in 1 .. m + j /\ ~(m + i <= m) /\ (m + i) - m = i
      BY <1>1, <2>1
    <3>4. \A i \in 1 .. j : v[m + i] = u[i]
      BY <3>1, <3>3
    <3> QED BY <3>1, <3>2, <3>4 DEF v
  <2>4. m + j = k
    BY <1>1, <1>2 DEF j
  <2>5. ASSUME NEW i \in 1 .. k PROVE SubSeq(st, 1, k)[i] = (s \o u)[i]
    <3>1. CASE i <= m
      <4>1. i \in 1 .. m
        BY <1>1, <1>2, <3>1
      <4> QED BY <1>1, <1>3, <2>3, <4>1
    <3>2. CASE i > m
      <4>1. i - m \in 1 .. j /\ i - m \in 1 .. n /\ m + (i - m) = i
        BY <1>1, <1>2, <2>1, <2>4, <3>2
      <4>2. st[i] = t[i - m]
        BY <1>1, <4>1
      <4>3. (s \o u)[i] = u[i - m]
        BY <2>3, <4>1
      <4> QED BY <1>3, <2>2, <4>1, <4>2, <4>3
    <3>3. i <= m \/ i > m
      BY <1>1, <1>2
    <3> QED BY <3>1, <3>2, <3>3
  <2>6. SubSeq(st, 1, k) = s \o u
    BY <1>2, <1>3, <2>3, <2>4, <2>5, SeqEqual
  <2> QED BY <2>1, <2>6 DEF j, u
<1> QED BY <1>3, <1>4, <1>5 DEF m, n, st, Stream

(* One stream after another. *)
LEMMA StreamJoin ==
    ASSUME NEW s \in Stream, NEW t \in Stream
    PROVE  s \o t \in Stream /\ Len(s \o t) = Len(s) + Len(t) /\ Len(s) \in Nat /\ Len(t) \in Nat
<1>1. s \in Seq({0, 1}) /\ t \in Seq({0, 1})
  BY DEF Stream
<1> QED BY <1>1, ConcatProperties DEF Stream

(* An instruction is read as it was written, with any bits before and behind. *)
LEMMA InstructionRead ==
    ASSUME NEW x \in Instr, CanEncode(OperandCoder(x.ins), x.val),
           NEW before \in Stream, NEW rest \in Stream
    PROVE  LET bits == before \o (Written(x) \o rest)
               pos == Len(before) + OwnSize(x)
               at == Decoded(bits)
           IN  /\ bits \in Stream /\ Len(bits) = pos + Len(rest)
               /\ at[Len(before)] = Assembled(x.ins, [val |-> x.val, pos |-> pos], at[pos], at[at[pos].pos])
<1> DEFINE v == InsValue[x.ins]
           c == OperandCoder(x.ins)
           i == Encode(CODER_INS, v)
           o == Encode(c, x.val)
           bits == before \o (Written(x) \o rest)
           pos == Len(before) + OwnSize(x)
           at == Decoded(bits)
<1>1. /\ i \in Stream /\ o \in Stream /\ Written(x) \in Stream /\ Written(x) = i \o o
      /\ Len(i) + Len(o) = OwnSize(x) /\ Len(i) \in Nat /\ Len(o) \in Nat /\ Len(before) \in Nat
  <2>1. i \in Stream /\ o \in Stream /\ Written(x) \in Stream /\ Len(Written(x)) = OwnSize(x)
    BY WrittenType
  <2>2. Written(x) = i \o o
    BY DEF Written
  <2> HIDE DEF i, o
  <2> QED BY <2>1, <2>2, StreamJoin
<1>2. /\ CanEncode(CODER_INS, v) /\ InsName(v) = x.ins /\ CODER_INS \in Coders /\ c \in Coders /\ v \in Nat
      /\ x.val \in Nat
  BY InsNameOf, CoderNumbers, CodersOfTheCode, OperandCoders DEF Instr
<1> HIDE DEF i, o, v
<1>3. /\ o \o rest \in Stream /\ before \o i \in Stream /\ Len(before \o i) = Len(before) + Len(i)
      /\ bits = (before \o i) \o (o \o rest)
      /\ bits = ((before \o i) \o o) \o rest
      /\ bits \in Stream /\ Len(bits) = pos + Len(rest)
  <2>1. o \o rest \in Stream /\ before \o i \in Stream /\ Len(before \o i) = Len(before) + Len(i)
    BY <1>1, StreamJoin
  <2>2. (i \o o) \o rest = i \o (o \o rest)
    BY <1>1, StreamAssoc
  <2>3. before \o (i \o (o \o rest)) = (before \o i) \o (o \o rest)
    BY ZenonT(40), <1>1, <2>1, StreamAssoc
  <2>4. (before \o i) \o (o \o rest) = ((before \o i) \o o) \o rest
    <3> DEFINE s == before \o i
    <3> HIDE DEF s
    <3>1. s \in Stream
      BY <2>1 DEF s
    <3>2. s \o (o \o rest) = (s \o o) \o rest
      BY <1>1, <3>1, StreamAssoc
    <3> QED BY <3>2 DEF s
  <2>5. (before \o i) \o (o \o rest) \in Stream
        /\ Len((before \o i) \o (o \o rest)) = Len(before) + Len(i) + (Len(o) + Len(rest))
    <3>1. Len(o \o rest) = Len(o) + Len(rest)
      BY <1>1, StreamJoin
    <3> QED BY <2>1, <3>1, StreamJoin
  <2>6. bits = (before \o i) \o (o \o rest)
    BY <1>1, <2>2, <2>3
  <2>7. Len(rest) \in Nat
    BY StreamJoin
  <2>8. Len(bits) = pos + Len(rest)
    BY <1>1, <2>5, <2>6, <2>7
  <2> QED BY <2>1, <2>4, <2>5, <2>6, <2>8
<1>4. Decode(CODER_INS, bits, Len(before)) = [val |-> v, pos |-> Len(before) + Len(i)]
  <2>1. before \in Seq({0, 1}) /\ o \o rest \in Seq({0, 1})
    BY <1>3 DEF Stream
  <2>2. Decode(CODER_INS, before \o Encode(CODER_INS, v) \o (o \o rest), Len(before))
          = [val |-> v, pos |-> Len(before) + Len(Encode(CODER_INS, v))]
    BY <1>2, <2>1, DecodeInvertsEncode
  <2> HIDE DEF bits
  <2> QED BY <1>3, <2>2 DEF i
<1>5. Decode(c, bits, Len(before) + Len(i)) = [val |-> x.val, pos |-> pos]
  <2>1. before \o i \in Seq({0, 1}) /\ rest \in Seq({0, 1})
    BY <1>3 DEF Stream
  <2>2. Decode(c, (before \o i) \o Encode(c, x.val) \o rest, Len(before \o i))
          = [val |-> x.val, pos |-> Len(before \o i) + Len(Encode(c, x.val))]
    <3> HIDE DEF c
    <3> QED BY <2>1, DecodeInvertsEncode, <1>2 DEF c
  <2>3. Len(before \o i) + Len(o) = pos
    BY <1>1, <1>3
  <2> HIDE DEF bits, pos
  <2> QED BY <1>3, <2>2, <2>3 DEF o
<1>6. Len(before) \in 0 .. Len(bits)
  <2>1. Len(rest) \in Nat /\ pos \in Nat /\ Len(before) <= pos
    <3>1. Len(rest) \in Nat
      BY StreamJoin
    <3>2. OwnSize(x) \in Nat
      BY <1>1
    <3> QED BY <1>1, <3>1, <3>2
  <2> HIDE DEF bits, pos
  <2> QED BY <1>1, <1>3, <2>1
<1> HIDE DEF bits, at, pos
<1>7. at[Len(before)] = DecodedAt(bits, at, Len(before))
  BY <1>3, <1>6, DecodedIs DEF at
<1> DEFINE ins == [val |-> v, pos |-> Len(before) + Len(i)]
           operand == [val |-> x.val, pos |-> pos]
<1>8. ins # Nothing /\ operand # Nothing
  BY <1>2 DEF Nothing
<1>9. /\ Decode(CODER_INS, bits, Len(before)) = ins /\ ins.val = v /\ ins.pos = Len(before) + Len(i)
      /\ Decode(OperandCoder(InsName(ins.val)), bits, ins.pos) = operand /\ operand.pos = pos
  BY <1>2, <1>4, <1>5
<1> HIDE DEF ins, operand
<1>10. DecodedAt(bits, at, Len(before)) = Assembled(x.ins, operand, at[pos], at[at[pos].pos])
  BY <1>2, <1>8, <1>9 DEF DecodedAt
<1> QED BY <1>3, <1>7, <1>10 DEF operand, at, bits, pos

(* A stream that ends within an instruction has no node there. *)
LEMMA InstructionCut ==
    ASSUME NEW x \in Instr, CanEncode(OperandCoder(x.ins), x.val),
           NEW before \in Stream, NEW k \in 0 .. OwnSize(x) - 1
    PROVE  Decoded(before \o SubSeq(Written(x), 1, k))[Len(before)] = NoNode
<1> DEFINE v == InsValue[x.ins]
           c == OperandCoder(x.ins)
           i == Encode(CODER_INS, v)
           o == Encode(c, x.val)
           cut == SubSeq(Written(x), 1, k)
           bits == before \o cut
<1>1. /\ i \in Stream /\ o \in Stream /\ Written(x) \in Stream /\ Written(x) = i \o o
      /\ Len(i) + Len(o) = OwnSize(x) /\ Len(i) \in Nat /\ Len(o) \in Nat /\ Len(before) \in Nat
  <2>1. i \in Stream /\ o \in Stream /\ Written(x) \in Stream /\ Len(Written(x)) = OwnSize(x)
    BY WrittenType
  <2>2. Written(x) = i \o o
    BY DEF Written
  <2> HIDE DEF i, o
  <2> QED BY <2>1, <2>2, StreamJoin
<1>2. /\ CanEncode(CODER_INS, v) /\ InsName(v) = x.ins /\ CODER_INS \in Coders /\ c \in Coders /\ v \in Nat
      /\ x.val \in Nat
  BY InsNameOf, CoderNumbers, CodersOfTheCode, OperandCoders DEF Instr
<1>3. /\ k < Len(i) => k \in 0 .. Len(i) - 1
      /\ k >= Len(i) => k - Len(i) \in 0 .. Len(o) - 1
      /\ k \in 0 .. Len(i) + Len(o) /\ k \in Nat
  <2> HIDE DEF i, o
  <2> QED BY <1>1
<1>4. /\ k <= Len(i) => cut = SubSeq(i, 1, k)
      /\ k >= Len(i) => cut = i \o SubSeq(o, 1, k - Len(i))
      /\ cut \in Stream
  <2> HIDE DEF i, o
  <2> QED BY SMTT(30), <1>1, <1>3, CutOfBoth
<1>5. bits \in Stream /\ Len(before) \in 0 .. Len(bits)
  <2> HIDE DEF cut
  <2> QED BY <1>1, <1>4, StreamJoin
<1> SUFFICES DecodedAt(bits, Decoded(bits), Len(before)) = NoNode
  <2> HIDE DEF bits
  <2>1. Decoded(bits)[Len(before)] = DecodedAt(bits, Decoded(bits), Len(before))
    BY <1>5, DecodedIs
  <2> QED BY <2>1 DEF bits
<1>6. CASE k < Len(i)
  <2>1. before \in Seq({0, 1}) /\ k \in 0 .. Len(Encode(CODER_INS, v)) - 1
    BY <1>3, <1>6 DEF Stream
  <2>2. Decode(CODER_INS, before \o SubSeq(Encode(CODER_INS, v), 1, k), Len(before)) = Nothing
    BY <1>2, <2>1, CutValueIsNothing
  <2>3. cut = SubSeq(Encode(CODER_INS, v), 1, k)
    BY <1>3, <1>4, <1>6
  <2>4. Decode(CODER_INS, bits, Len(before)) = Nothing
    BY <2>2, <2>3
  <2> HIDE DEF bits
  <2> QED BY <2>4 DEF DecodedAt
<1>7. CASE k >= Len(i)
  <2> DEFINE tail == SubSeq(o, 1, k - Len(i))
  <2>1. tail \in Stream /\ k - Len(i) \in 0 .. Len(o) - 1
    <3>1. k - Len(i) \in 0 .. Len(o) + Len(<< >>) /\ << >> \in Stream /\ o \o << >> = o
      <4>1. << >> \in Stream /\ o \o << >> = o
        BY <1>1, ConcatEmptySeq DEF Stream
      <4> QED BY <1>1, <1>3, <1>7, <4>1
    <3>2. SubSeq(o \o << >>, 1, k - Len(i)) \in Stream
      BY <1>1, <3>1, CutOfBoth
    <3> QED BY <1>3, <1>7, <3>1, <3>2
  <2>2. cut = i \o tail
    BY <1>4, <1>7
  <2> HIDE DEF tail, cut, i, o
  <2>3. bits = (before \o i) \o tail /\ before \o i \in Stream /\ Len(before \o i) = Len(before) + Len(i)
    <3>1. before \o i \in Stream /\ Len(before \o i) = Len(before) + Len(i)
      BY <1>1, StreamJoin
    <3>2. (before \o i) \o tail = before \o (i \o tail)
      BY <1>1, <2>1, StreamAssoc
    <3> QED BY <2>2, <3>1, <3>2
  <2>4. Decode(CODER_INS, bits, Len(before)) = [val |-> v, pos |-> Len(before) + Len(i)]
    <3>1. before \in Seq({0, 1}) /\ tail \in Seq({0, 1})
      BY <2>1 DEF Stream
    <3>2. Decode(CODER_INS, before \o Encode(CODER_INS, v) \o tail, Len(before))
            = [val |-> v, pos |-> Len(before) + Len(Encode(CODER_INS, v))]
      BY <1>2, <3>1, DecodeInvertsEncode
    <3> HIDE DEF bits
    <3> QED BY <2>3, <3>2 DEF i
  <2>5. Decode(c, bits, Len(before) + Len(i)) = Nothing
    <3>1. before \o i \in Seq({0, 1}) /\ k - Len(i) \in 0 .. Len(Encode(c, x.val)) - 1
      BY <2>1, <2>3 DEF Stream, o
    <3>2. Decode(c, (before \o i) \o SubSeq(Encode(c, x.val), 1, k - Len(i)), Len(before \o i)) = Nothing
      <4> HIDE DEF c
      <4> QED BY <1>2, <3>1, CutValueIsNothing DEF c
    <3> HIDE DEF bits
    <3> QED BY <2>3, <3>2 DEF tail, o
  <2> DEFINE ins == [val |-> v, pos |-> Len(before) + Len(i)]
  <2>6. ins.val = v /\ ins.pos = Len(before) + Len(i)
    OBVIOUS
  <2>7. Decode(OperandCoder(InsName(ins.val)), bits, ins.pos) = Nothing
    BY <1>2, <2>5, <2>6
  <2>8. Decode(CODER_INS, bits, Len(before)) = ins
    BY <2>4
  <2> HIDE DEF ins, bits
  <2> QED BY <2>7, <2>8 DEF DecodedAt
<1>8. k < Len(i) \/ k >= Len(i)
  <2> HIDE DEF i, o
  <2> QED BY <1>1, <1>3
<1> QED BY <1>6, <1>7, <1>8

---------------------------------------------------------------------------
(* Nodes are read back as they were written, and not at all if cut. *)

(***************************************************************************)
(* A node whose numbers the coder can write is written in as many bits as  *)
(* it says, and decoded from them whatever stands before and behind; a     *)
(* stream that ends within it has no node there.                           *)
(***************************************************************************)
ReadsBack(n) ==
    Encodable(n) =>
       /\ Len(EncodeNode(n)) = Size(n)
       /\ \A before, after \in Stream :
             Decoded(before \o (EncodeNode(n) \o after))[Len(before)]
                = [node |-> n, pos |-> Len(before) + Size(n)]
       /\ \A before \in Stream : \A k \in 0 .. Size(n) - 1 :
             Decoded(before \o SubSeq(EncodeNode(n), 1, k))[Len(before)] = NoNode

(* A node that begins with an instruction. *)
LEMMA HeadOfNode ==
    ASSUME NEW x \in Instr, NEW s \in Code
    PROVE  LET n == <<x>> \o s
           IN  /\ n \in Code /\ n # EndNode /\ n[1] = x /\ Size(n) = x.size /\ Tail(n) = s
               /\ x.size \in Nat /\ x.val \in Nat /\ x.ins \in InsNames
               /\ \A ins : Begins(n, ins) <=> x.ins \in ins
               /\ Encodable(n) <=> CanEncode(OperandCoder(x.ins), x.val) /\ Encodable(s)
               /\ Encodable(n) => /\ EncodeNode(s) \in Stream
                                  /\ EncodeNode(n) = Written(x) \o EncodeNode(s)
                                  /\ Written(x) \in Stream /\ Len(Written(x)) = OwnSize(x)
                                  /\ OwnSize(x) \in Nat \ {0}
<1> DEFINE n == <<x>> \o s
<1>1. <<x>> \in Code /\ Len(<<x>>) = 1 /\ <<x>>[1] = x /\ s \in Seq(Instr) /\ <<x>> \in Seq(Instr)
  BY DEF Code
<1>2. n \in Code /\ n # << >> /\ n[1] = x /\ Tail(n) = s
  <2>1. /\ n \in Seq(Instr) /\ Len(n) = 1 + Len(s) /\ n[1] = x /\ Len(s) \in Nat
        /\ \A i \in 1 .. Len(s) : n[1 + i] = s[i]
    BY <1>1
  <2> HIDE DEF n
  <2>2. n # << >>
    BY <2>1
  <2>3. Tail(n) \in Seq(Instr) /\ Len(Tail(n)) = Len(s) /\ \A i \in 1 .. Len(s) : Tail(n)[i] = s[i]
    <3>1. Tail(n) \in Seq(Instr) /\ Len(Tail(n)) = Len(n) - 1 /\ \A i \in 1 .. Len(n) - 1 : Tail(n)[i] = n[i + 1]
      BY <2>1, <2>2
    <3>2. Len(n) - 1 = Len(s) /\ \A i \in 1 .. Len(s) : i + 1 = 1 + i
      BY <2>1
    <3> QED BY <2>1, <3>1, <3>2
  <2>4. Tail(n) = s
    BY <1>1, <2>3, SeqEqual
  <2> QED BY <2>1, <2>2, <2>4 DEF Code
<1>3. x.size \in Nat /\ x.val \in Nat /\ x.ins \in InsNames
  BY DEF Instr
<1>4. Encodable(<<x>>) <=> CanEncode(OperandCoder(x.ins), x.val)
  <2> DEFINE one == <<x>>
  <2>1. DOMAIN one = {1} /\ one[1] = x
    OBVIOUS
  <2> HIDE DEF one
  <2> QED BY <2>1 DEF Encodable, one
<1>5. /\ Encodable(n) <=> Encodable(<<x>>) /\ Encodable(s)
      /\ Encodable(n) => EncodeNode(s) \in Stream /\ EncodeNode(n) = EncodeNode(<<x>>) \o EncodeNode(s)
  BY <1>1, EncodeConcat
<1> HIDE DEF n
<1>6. Encodable(n) => EncodeNode(<<x>>) = Written(x) /\ Written(x) \in Stream /\ Len(Written(x)) = OwnSize(x)
  BY <1>4, <1>5, EncodeOne, WrittenType
<1>7. OwnSize(x) \in Nat \ {0}
  BY OwnSizeType
<1>8. Size(n) = x.size /\ \A ins : Begins(n, ins) <=> x.ins \in ins
  BY <1>2 DEF Size, Begins
<1> QED BY <1>2, <1>3, <1>4, <1>5, <1>6, <1>7, <1>8 DEF n, EndNode

(* What decode makes of an instruction, where the bits behind it begin. *)
LEMMA ReadBehind ==
    ASSUME NEW x \in Instr, CanEncode(OperandCoder(x.ins), x.val),
           NEW before \in Stream, NEW rest \in Stream
    PROVE  LET bits == before \o (Written(x) \o rest)
               front == before \o Written(x)
               at == Decoded(bits)
           IN  /\ front \in Stream /\ Len(front) = Len(before) + OwnSize(x) /\ bits = front \o rest
               /\ at[Len(before)] = Assembled(x.ins, [val |-> x.val, pos |-> Len(front)],
                                              at[Len(front)], at[at[Len(front)].pos])
<1> DEFINE front == before \o Written(x)
           bits == before \o (Written(x) \o rest)
           at == Decoded(bits)
<1>1. Written(x) \in Stream /\ Len(Written(x)) = OwnSize(x)
  BY WrittenType
<1>2. front \in Stream /\ Len(front) = Len(before) + OwnSize(x)
  BY ZenonT(40), <1>1, StreamJoin
<1>3. bits = front \o rest
  BY <1>1, StreamAssoc
<1> DEFINE pos == Len(before) + OwnSize(x)
<1>4. at[Len(before)] = Assembled(x.ins, [val |-> x.val, pos |-> pos], at[pos], at[at[pos].pos])
  BY InstructionRead
<1> HIDE DEF at, bits, front
<1> QED BY <1>2, <1>3, <1>4 DEF front, at, bits

(* A leaf. *)
LEMMA LeafReadsBack ==
    ASSUME NEW x \in Instr, x.ins = "Return", x.size = OwnSize(x), LeafNode(x.val) = <<x>> \o << >>
    PROVE  ReadsBack(<<x>> \o << >>)
<1> DEFINE n == <<x>> \o << >>
           w == Written(x)
<1>1. << >> \in Code /\ << >> \in Stream /\ Encodable(<< >>)
  BY DEF Code, Stream, Encodable
<1>2. /\ n \in Code /\ Size(n) = x.size /\ x.val \in Nat
      /\ Encodable(n) => /\ CanEncode(OperandCoder(x.ins), x.val)
                         /\ w \in Stream /\ Len(w) = OwnSize(x)
                         /\ EncodeNode(n) = w \o EncodeNode(<< >>) /\ OwnSize(x) \in Nat \ {0}
  BY <1>1, HeadOfNode
<1>3. Encodable(n) => EncodeNode(n) = w
  <2>1. EncodeNode(<< >>) = << >>
    <3>1. PICK g \in [0 .. 0 -> Stream] : g[0] = << >> /\ EncodeNode(<< >>) = g[0]
      <4>1. Len(<< >>) = 0
        OBVIOUS
      <4> QED BY <1>1, <4>1, EncodeUnfolds
    <3> QED BY <3>1
  <2>2. w \in Stream => w \o << >> = w
    <3> HIDE DEF w
    <3> QED BY ConcatEmptySeq DEF Stream
  <2> HIDE DEF n, w
  <2> QED BY <1>2, <2>1, <2>2
<1> HIDE DEF n
<1> SUFFICES ASSUME Encodable(n)
             PROVE  /\ Len(EncodeNode(n)) = Size(n)
                    /\ \A before, after \in Stream :
                          Decoded(before \o (EncodeNode(n) \o after))[Len(before)]
                             = [node |-> n, pos |-> Len(before) + Size(n)]
                    /\ \A before \in Stream : \A k \in 0 .. Size(n) - 1 :
                          Decoded(before \o SubSeq(EncodeNode(n), 1, k))[Len(before)] = NoNode
  BY DEF ReadsBack, n
<1>4. ASSUME NEW before \in Stream, NEW after \in Stream
      PROVE  Decoded(before \o (w \o after))[Len(before)] = [node |-> n, pos |-> Len(before) + x.size]
  <2> DEFINE bits == before \o (w \o after)
             at == Decoded(bits)
             pos == Len(before) + OwnSize(x)
             operand == [val |-> x.val, pos |-> pos]
  <2>1. at[Len(before)] = Assembled(x.ins, operand, at[pos], at[at[pos].pos])
    BY <1>2, InstructionRead
  <2>2. operand.val = x.val /\ operand.pos = pos
    OBVIOUS
  <2> HIDE DEF at, operand
  <2>3. at[Len(before)] = [node |-> LeafNode(x.val), pos |-> pos]
    BY <2>1, <2>2 DEF Assembled
  <2> QED BY <2>3 DEF at, n
<1>5. ASSUME NEW before \in Stream, NEW k \in 0 .. x.size - 1
      PROVE  Decoded(before \o SubSeq(w, 1, k))[Len(before)] = NoNode
  BY <1>2, InstructionCut
<1> QED BY <1>2, <1>3, <1>4, <1>5

(* A position is no sign that there is no node. *)
LEMMA IsNode == \A node : \A pos \in Nat : [node |-> node, pos |-> pos] # NoNode
BY DEF NoNode

(* A match or a default in front of a node. *)
LEMMA OverReadsBack ==
    ASSUME NEW x \in Instr, NEW s \in Code, ReadsBack(s), x.size = OwnSize(x) + Size(s),
           \/ x.ins = "Match" /\ MatchNode(x.val, s) = <<x>> \o s
           \/ x.ins = "Default" /\ DefaultNode(x.val, s) = <<x>> \o s
    PROVE  ReadsBack(<<x>> \o s)
<1> DEFINE n == <<x>> \o s
           w == Written(x)
           e == EncodeNode(s)
<1> SUFFICES ASSUME Encodable(n)
             PROVE  /\ Len(EncodeNode(n)) = Size(n)
                    /\ \A before, after \in Stream :
                          Decoded(before \o (EncodeNode(n) \o after))[Len(before)]
                             = [node |-> n, pos |-> Len(before) + Size(n)]
                    /\ \A before \in Stream : \A k \in 0 .. Size(n) - 1 :
                          Decoded(before \o SubSeq(EncodeNode(n), 1, k))[Len(before)] = NoNode
  <2> HIDE DEF n
  <2> QED BY DEF ReadsBack, n
<1>1. /\ n \in Code /\ Size(n) = x.size /\ CanEncode(OperandCoder(x.ins), x.val) /\ Encodable(s)
      /\ e \in Stream /\ EncodeNode(n) = w \o e /\ w \in Stream /\ Len(w) = OwnSize(x)
      /\ OwnSize(x) \in Nat \ {0} /\ x.size \in Nat
  BY HeadOfNode
<1>2. /\ Len(e) = Size(s)
      /\ \A before, after \in Stream :
            Decoded(before \o (e \o after))[Len(before)] = [node |-> s, pos |-> Len(before) + Size(s)]
      /\ \A before \in Stream : \A k \in 0 .. Size(s) - 1 :
            Decoded(before \o SubSeq(e, 1, k))[Len(before)] = NoNode
  BY <1>1 DEF ReadsBack
<1> HIDE DEF n, w, e
<1>3. Len(w \o e) = Size(n) /\ Size(s) \in Nat /\ Len(w \o e) = Len(w) + Len(e)
  BY <1>1, <1>2, StreamJoin
<1>4. ASSUME NEW before \in Stream, NEW after \in Stream
      PROVE  Decoded(before \o ((w \o e) \o after))[Len(before)] = [node |-> n, pos |-> Len(before) + Size(n)]
  <2> DEFINE rest == e \o after
             bits == before \o (w \o rest)
             front == before \o w
             at == Decoded(bits)
             operand == [val |-> x.val, pos |-> Len(front)]
             end == Len(front) + Size(s)
  <2>1. rest \in Stream /\ (w \o e) \o after = w \o rest /\ Len(before) \in Nat
    <3>1. rest \in Stream /\ Len(before) \in Nat
      BY <1>1, StreamJoin
    <3>2. (w \o e) \o after = w \o (e \o after)
      BY <1>1, StreamAssoc
    <3> QED BY <3>1, <3>2
  <2> HIDE DEF rest
  <2>2. /\ front \in Stream /\ Len(front) = Len(before) + OwnSize(x) /\ bits = front \o rest
        /\ at[Len(before)] = Assembled(x.ins, operand, at[Len(front)], at[at[Len(front)].pos])
    BY <1>1, <2>1, ReadBehind DEF w
  <2> HIDE DEF front, bits
  <2>3. at[Len(front)] = [node |-> s, pos |-> end]
    BY <1>2, <2>2 DEF rest
  <2>4. end \in Nat /\ end = Len(before) + Size(n)
    <3> DEFINE a == Len(front)
               b == Len(before)
               o == OwnSize(x)
               t == Size(s)
               z == Size(n)
    <3>1. b \in Nat /\ o \in Nat /\ t \in Nat /\ a = b + o /\ z = o + t
      BY <1>1, <1>3, <2>1, <2>2
    <3> HIDE DEF a, b, o, t, z
    <3>2. a + t \in Nat /\ a + t = b + z
      BY ONLY <3>1
    <3> QED BY <3>2 DEF a, b, t, z
  <2> DEFINE first == [node |-> s, pos |-> end]
  <2>5. first # NoNode /\ first.node = s /\ first.pos = end /\ operand.val = x.val
    <3> HIDE DEF end
    <3> QED BY <2>4, IsNode
  <2> HIDE DEF first, at, operand, end
  <2>6. at[Len(before)] = Assembled(x.ins, operand, first, at[end])
    BY <2>2, <2>3, <2>5 DEF first
  <2>7. at[Len(before)] = [node |-> n, pos |-> end]
    <3> DEFINE second == at[end]
    <3> HIDE DEF second
    <3>1. at[Len(before)] = Assembled(x.ins, operand, first, second)
      BY <2>6 DEF second
    <3>2. CASE x.ins = "Match" /\ MatchNode(x.val, s) = <<x>> \o s
      <4>1. Assembled(x.ins, operand, first, second)
              = [node |-> MatchNode(operand.val, first.node), pos |-> first.pos]
        BY <2>5, <3>2 DEF Assembled
      <4> QED BY <2>5, <3>1, <3>2, <4>1 DEF n
    <3>3. CASE x.ins = "Default" /\ DefaultNode(x.val, s) = <<x>> \o s
      <4>1. Assembled(x.ins, operand, first, second)
              = [node |-> DefaultNode(operand.val, first.node), pos |-> first.pos]
        BY <2>5, <3>3 DEF Assembled
      <4> QED BY <2>5, <3>1, <3>3, <4>1 DEF n
    <3> QED BY <3>2, <3>3
  <2> QED BY <2>1, <2>4, <2>7 DEF at, bits
<1>5. ASSUME NEW before \in Stream, NEW k \in 0 .. Size(n) - 1
      PROVE  Decoded(before \o SubSeq(w \o e, 1, k))[Len(before)] = NoNode
  <2>1. k \in 0 .. Len(w) + Len(e) /\ k \in Nat /\ Len(w) \in Nat /\ Len(e) \in Nat
    BY <1>1, <1>2, <1>3
  <2>2. CASE k < Len(w)
    <3>1. SubSeq(w \o e, 1, k) = SubSeq(w, 1, k) /\ k \in 0 .. OwnSize(x) - 1
      BY <1>1, <2>1, <2>2, CutOfBoth
    <3> QED BY <1>1, <3>1, InstructionCut DEF w
  <2>3. CASE k >= Len(w)
    <3> DEFINE j == k - Len(w)
               rest == SubSeq(e, 1, j)
               bits == before \o (w \o rest)
               front == before \o w
               at == Decoded(bits)
               operand == [val |-> x.val, pos |-> Len(front)]
    <3>1. SubSeq(w \o e, 1, k) = w \o rest /\ j \in 0 .. Size(s) - 1
      <4>1. j \in 0 .. Len(e) /\ SubSeq(w \o e, 1, k) = w \o rest
        BY <1>1, <2>1, <2>3, CutOfBoth
      <4>2. k <= Size(n) - 1 /\ Size(n) = Len(w) + Size(s) /\ k \in Nat /\ Size(s) \in Nat
        BY <1>1, <1>2, <1>3
      <4>3. j \in 0 .. Size(s) - 1
        BY ONLY <2>1, <2>3, <4>2
      <4> QED BY <4>1, <4>3
    <3>2. rest \in Stream
      <4>1. << >> \in Stream /\ e \o << >> = e /\ j \in 0 .. Len(e) + Len(<< >>)
        <5>1. << >> \in Stream /\ e \o << >> = e
          BY <1>1, ConcatEmptySeq DEF Stream
        <5> QED BY <1>2, <1>3, <3>1, <5>1
      <4>2. SubSeq(e \o << >>, 1, j) \in Stream
        <5> HIDE DEF j
        <5> QED BY <1>1, <4>1, CutOfBoth
      <4> QED BY <4>1, <4>2
    <3> HIDE DEF rest, j
    <3>3. /\ front \in Stream /\ bits = front \o rest
          /\ at[Len(before)] = Assembled(x.ins, operand, at[Len(front)], at[at[Len(front)].pos])
      BY <1>1, <3>2, ReadBehind DEF w
    <3> HIDE DEF front, bits
    <3>4. at[Len(front)] = NoNode
      BY <1>2, <3>1, <3>3 DEF rest
    <3> HIDE DEF at, operand
    <3>5. at[Len(before)] = NoNode
      <4> DEFINE second == at[at[Len(front)].pos]
      <4> HIDE DEF second
      <4>1. at[Len(before)] = Assembled(x.ins, operand, NoNode, second)
        BY <3>3, <3>4 DEF second
      <4>2. x.ins # "Return"
        OBVIOUS
      <4> QED BY <4>1, <4>2 DEF Assembled
    <3> QED BY <3>1, <3>5 DEF at, bits
  <2> QED BY <2>1, <2>2, <2>3
<1> QED BY <1>1, <1>3, <1>4, <1>5

(* The beginning of a stream is a stream. *)
LEMMA CutType ==
    ASSUME NEW t \in Stream, NEW k \in 0 .. Len(t)
    PROVE  SubSeq(t, 1, k) \in Stream
<1>1. << >> \in Stream /\ t \o << >> = t /\ Len(<< >>) = 0 /\ Len(t) \in Nat
  BY ConcatEmptySeq DEF Stream
<1>2. k \in 0 .. Len(t) + Len(<< >>)
  BY <1>1
<1>3. SubSeq(t \o << >>, 1, k) \in Stream
  BY <1>1, <1>2, CutOfBoth
<1> QED BY <1>1, <1>3

(* A jump in front of two nodes. *)
LEMMA JumpReadsBack ==
    ASSUME NEW x \in Instr, NEW l \in Code, ReadsBack(l), NEW r \in Code, ReadsBack(r),
           x.ins = "Jump", x.val = Size(l), x.size = OwnSize(x) + Size(l) + Size(r),
           BranchNode(l, r) = <<x>> \o (l \o r)
    PROVE  ReadsBack(<<x>> \o (l \o r))
<1> DEFINE n == <<x>> \o (l \o r)
           w == Written(x)
           p == EncodeNode(l)
           q == EncodeNode(r)
<1> SUFFICES ASSUME Encodable(n)
             PROVE  /\ Len(EncodeNode(n)) = Size(n)
                    /\ \A before, after \in Stream :
                          Decoded(before \o (EncodeNode(n) \o after))[Len(before)]
                             = [node |-> n, pos |-> Len(before) + Size(n)]
                    /\ \A before \in Stream : \A k \in 0 .. Size(n) - 1 :
                          Decoded(before \o SubSeq(EncodeNode(n), 1, k))[Len(before)] = NoNode
  <2> HIDE DEF n
  <2> QED BY DEF ReadsBack, n
<1>1. /\ Size(n) = x.size /\ CanEncode(OperandCoder(x.ins), x.val) /\ Encodable(l) /\ Encodable(r)
      /\ p \in Stream /\ q \in Stream /\ EncodeNode(n) = w \o (p \o q) /\ w \in Stream /\ Len(w) = OwnSize(x)
      /\ OwnSize(x) \in Nat
  <2> DEFINE s == l \o r
  <2>1. s \in Code /\ (Encodable(s) => Encodable(l) /\ Encodable(r) /\ p \in Stream /\ q \in Stream
                                       /\ EncodeNode(s) = p \o q)
    BY EncodeConcat
  <2> HIDE DEF s, p, q
  <2>2. /\ Size(<<x>> \o s) = x.size
        /\ Encodable(<<x>> \o s) => CanEncode(OperandCoder(x.ins), x.val) /\ Encodable(s)
        /\ Encodable(<<x>> \o s) => EncodeNode(<<x>> \o s) = w \o EncodeNode(s) /\ w \in Stream
                                    /\ Len(w) = OwnSize(x) /\ OwnSize(x) \in Nat
    BY <2>1, HeadOfNode
  <2>3. Encodable(<<x>> \o s)
    BY DEF s
  <2> QED BY <2>1, <2>2, <2>3 DEF s
<1>2. /\ Len(p) = Size(l)
      /\ \A before, after \in Stream :
            Decoded(before \o (p \o after))[Len(before)] = [node |-> l, pos |-> Len(before) + Size(l)]
      /\ \A before \in Stream : \A k \in 0 .. Size(l) - 1 :
            Decoded(before \o SubSeq(p, 1, k))[Len(before)] = NoNode
  BY <1>1 DEF ReadsBack
<1>3. /\ Len(q) = Size(r)
      /\ \A before, after \in Stream :
            Decoded(before \o (q \o after))[Len(before)] = [node |-> r, pos |-> Len(before) + Size(r)]
      /\ \A before \in Stream : \A k \in 0 .. Size(r) - 1 :
            Decoded(before \o SubSeq(q, 1, k))[Len(before)] = NoNode
  BY <1>1 DEF ReadsBack
<1> HIDE DEF n, w, p, q
<1>4. /\ p \o q \in Stream /\ Len(p \o q) = Len(p) + Len(q) /\ Len(p) \in Nat /\ Len(q) \in Nat
      /\ Len(w) \in Nat /\ Len(w \o (p \o q)) = Len(w) + Len(p \o q)
  BY <1>1, StreamJoin
<1>5. Len(w \o (p \o q)) = Size(n) /\ Size(n) = Len(w) + Len(p) + Len(q) /\ x.val = Len(p)
  BY <1>1, <1>2, <1>3, <1>4
<1>6. ASSUME NEW before \in Stream, NEW tail \in Stream
      PROVE  LET front == before \o w
                 mid == front \o p
                 at == Decoded(before \o (w \o (p \o tail)))
             IN  /\ front \in Stream /\ mid \in Stream /\ Len(before) \in Nat
                 /\ Len(mid) = Len(before) + Len(w) + Len(p)
                 /\ before \o (w \o (p \o tail)) = mid \o tail
                 /\ at[Len(before)] = IF at[Len(mid)] = NoNode THEN NoNode
                                      ELSE [node |-> BranchNode(l, at[Len(mid)].node), pos |-> at[Len(mid)].pos]
  <2> DEFINE front == before \o w
             mid == front \o p
             rest == p \o tail
             bits == before \o (w \o rest)
             at == Decoded(bits)
             operand == [val |-> x.val, pos |-> Len(front)]
             first == [node |-> l, pos |-> Len(front) + Size(l)]
             second == at[Len(mid)]
  <2>1. rest \in Stream
    BY <1>1, StreamJoin
  <2> HIDE DEF rest
  <2>2. /\ front \in Stream /\ Len(front) = Len(before) + OwnSize(x) /\ bits = front \o rest
        /\ at[Len(before)] = Assembled(x.ins, operand, at[Len(front)], at[at[Len(front)].pos])
    BY <1>1, <2>1, ReadBehind DEF w
  <2> HIDE DEF front, bits
  <2>3. mid \in Stream /\ Len(mid) = Len(front) + Len(p) /\ Len(front) \in Nat /\ Len(before) \in Nat
    BY <1>1, <2>2, StreamJoin
  <2>4. bits = mid \o tail
    <3>1. (front \o p) \o tail = front \o (p \o tail)
      BY <1>1, <2>2, StreamAssoc
    <3> QED BY <2>2, <3>1 DEF rest
  <2>5. at[Len(front)] = first
    BY <1>2, <2>2 DEF rest
  <2>6. first # NoNode /\ first.node = l /\ first.pos = Len(mid) /\ operand.val = x.val /\ operand.pos = Len(front)
        /\ first.pos = operand.pos + operand.val
    <3>1. Len(front) + Size(l) \in Nat /\ Len(front) + Size(l) = Len(mid)
      BY <1>2, <1>4, <2>3
    <3> HIDE DEF mid
    <3> QED BY <3>1, <1>5, <1>2, IsNode
  <2> HIDE DEF at, mid, first, operand
  <2>7. at[Len(before)] = Assembled(x.ins, operand, first, second)
    BY <2>2, <2>5, <2>6
  <2>8. x.ins = "Jump"
    OBVIOUS
  <2> HIDE DEF second
  <2>9. Assembled(x.ins, operand, first, second)
          = IF second = NoNode THEN NoNode ELSE [node |-> BranchNode(first.node, second.node), pos |-> second.pos]
    BY <2>6, <2>8 DEF Assembled
  <2>10. at[Len(before)] = IF second = NoNode THEN NoNode
                           ELSE [node |-> BranchNode(l, second.node), pos |-> second.pos]
    BY <2>6, <2>7, <2>9
  <2>11. Len(mid) = Len(before) + Len(w) + Len(p)
    BY <1>1, <1>4, <2>2, <2>3
  <2> QED BY <2>2, <2>3, <2>4, <2>10, <2>11 DEF rest, front, mid, bits, at, second
<1>7. ASSUME NEW before \in Stream, NEW after \in Stream
      PROVE  Decoded(before \o ((w \o (p \o q)) \o after))[Len(before)] = [node |-> n, pos |-> Len(before) + Size(n)]
  <2> DEFINE tail == q \o after
             mid == (before \o w) \o p
             bits == before \o (w \o (p \o tail))
             at == Decoded(bits)
             second == at[Len(mid)]
  <2>1. tail \in Stream
    BY <1>1, StreamJoin
  <2>2. (w \o (p \o q)) \o after = w \o (p \o tail)
    <3>1. (w \o (p \o q)) \o after = w \o ((p \o q) \o after)
      BY SMTT(30), <1>1, <1>4, StreamAssoc
    <3>2. (p \o q) \o after = p \o (q \o after)
      BY <1>1, StreamAssoc
    <3> QED BY <3>1, <3>2
  <2> HIDE DEF tail
  <2>3. /\ mid \in Stream /\ Len(mid) = Len(before) + Len(w) + Len(p) /\ bits = mid \o tail /\ Len(before) \in Nat
        /\ at[Len(before)] = IF second = NoNode THEN NoNode
                             ELSE [node |-> BranchNode(l, second.node), pos |-> second.pos]
    BY <1>6, <2>1
  <2> HIDE DEF mid, bits
  <2>4. second = [node |-> r, pos |-> Len(mid) + Size(r)]
    BY <1>3, <2>3 DEF tail
  <2>5. Len(mid) + Size(r) = Len(before) + Size(n) /\ Len(mid) + Size(r) \in Nat
    <3> DEFINE a == Len(mid)
               b == Len(before)
               lw == Len(w)
               lp == Len(p)
               lq == Len(q)
               z == Size(n)
    <3>1. /\ b \in Nat /\ lw \in Nat /\ lp \in Nat /\ lq \in Nat /\ lq = Size(r)
          /\ a = b + lw + lp /\ z = lw + lp + lq
      BY <1>3, <1>4, <1>5, <2>3
    <3> HIDE DEF a, b, lw, lp, lq, z
    <3>2. a + lq = b + z /\ a + lq \in Nat
      BY ONLY <3>1
    <3> QED BY <3>1, <3>2 DEF a, b, z
  <2> HIDE DEF at
  <2>6. second # NoNode /\ second.node = r /\ second.pos = Len(before) + Size(n)
    BY <2>4, <2>5, IsNode
  <2> HIDE DEF second
  <2>7. at[Len(before)] = [node |-> BranchNode(l, r), pos |-> Len(before) + Size(n)]
    BY <2>3, <2>6
  <2> QED BY <2>2, <2>7 DEF at, bits, n
<1>8. ASSUME NEW before \in Stream, NEW k \in 0 .. Size(n) - 1
      PROVE  Decoded(before \o SubSeq(w \o (p \o q), 1, k))[Len(before)] = NoNode
  <2>1. k \in 0 .. Len(w) + Len(p \o q) /\ k \in Nat
    BY <1>4, <1>5
  <2>2. CASE k < Len(w)
    <3>1. SubSeq(w \o (p \o q), 1, k) = SubSeq(w, 1, k) /\ k \in 0 .. OwnSize(x) - 1
      <4>1. SubSeq(w \o (p \o q), 1, k) = SubSeq(w, 1, k)
        BY <1>1, <1>4, <2>1, <2>2, CutOfBoth
      <4> QED BY <1>1, <2>1, <2>2, <4>1
    <3> QED BY <1>1, <3>1, InstructionCut DEF w
  <2>3. CASE k >= Len(w)
    <3> DEFINE j == k - Len(w)
    <3>1. SubSeq(w \o (p \o q), 1, k) = w \o SubSeq(p \o q, 1, j)
      BY <1>1, <1>4, <2>1, <2>3, CutOfBoth
    <3>2. j \in 0 .. Len(p) + Len(q) - 1 /\ j \in Nat
      BY <1>4, <1>5, <2>1, <2>3
    <3> HIDE DEF j
    <3>3. CASE j < Len(p)
      <4> DEFINE rest == SubSeq(p, 1, j)
                 front == before \o w
                 bits == before \o (w \o rest)
                 at == Decoded(bits)
                 operand == [val |-> x.val, pos |-> Len(front)]
      <4>1. SubSeq(p \o q, 1, j) = rest /\ j \in 0 .. Len(p) /\ j \in 0 .. Size(l) - 1
        <5>1. j \in 0 .. Len(p) /\ j \in 0 .. Size(l) - 1 /\ j \in 0 .. Len(p) + Len(q) /\ j <= Len(p)
          BY <1>2, <1>4, <3>2, <3>3
        <5>2. SubSeq(p \o q, 1, j) = rest
          BY <1>1, <5>1, CutOfBoth
        <5> QED BY <5>1, <5>2
      <4>2. rest \in Stream
        BY <1>1, <4>1, CutType
      <4> HIDE DEF rest
      <4>3. /\ front \in Stream /\ bits = front \o rest
            /\ at[Len(before)] = Assembled(x.ins, operand, at[Len(front)], at[at[Len(front)].pos])
        BY <1>1, <4>2, ReadBehind DEF w
      <4> HIDE DEF front, bits
      <4>4. at[Len(front)] = NoNode
        BY <1>2, <4>1, <4>3 DEF rest
      <4> HIDE DEF at, operand
      <4>5. at[Len(before)] = NoNode
        <5> DEFINE second == at[at[Len(front)].pos]
        <5> HIDE DEF second
        <5>1. at[Len(before)] = Assembled(x.ins, operand, NoNode, second)
          BY <4>3, <4>4 DEF second
        <5>2. x.ins # "Return"
          OBVIOUS
        <5> QED BY <5>1, <5>2 DEF Assembled
      <4> QED BY <3>1, <4>1, <4>5 DEF at, bits
    <3>4. CASE j >= Len(p)
      <4> DEFINE i == j - Len(p)
                 tail == SubSeq(q, 1, i)
                 mid == (before \o w) \o p
                 bits == before \o (w \o (p \o tail))
                 at == Decoded(bits)
                 second == at[Len(mid)]
      <4>1. j \in 0 .. Len(p) + Len(q) /\ i \in 0 .. Len(q) /\ i \in 0 .. Size(r) - 1
        BY <1>3, <1>4, <3>2, <3>4
      <4>2. SubSeq(p \o q, 1, j) = p \o tail
        BY <1>1, <3>4, <4>1, CutOfBoth
      <4> HIDE DEF i
      <4>3. tail \in Stream
        BY <1>1, <4>1, CutType
      <4> HIDE DEF tail
      <4>4. /\ mid \in Stream /\ bits = mid \o tail
            /\ at[Len(before)] = IF second = NoNode THEN NoNode
                                 ELSE [node |-> BranchNode(l, second.node), pos |-> second.pos]
        BY <1>6, <4>3
      <4> HIDE DEF mid, bits
      <4>5. second = NoNode
        BY <1>3, <4>1, <4>4 DEF tail
      <4> HIDE DEF at, second
      <4>6. at[Len(before)] = NoNode
        BY <4>4, <4>5
      <4> QED BY <3>1, <4>2, <4>6 DEF at, bits
    <3>5. j < Len(p) \/ j >= Len(p)
      BY <1>4, <3>2
    <3> QED BY <3>3, <3>4, <3>5
  <2>4. k < Len(w) \/ k >= Len(w)
    BY <1>4, <2>1
  <2> QED BY <2>2, <2>3, <2>4
<1> QED BY <1>1, <1>5, <1>7, <1>8

---------------------------------------------------------------------------
(* The trie of a node. *)

(* What the walk has at an instruction, from what it has behind it. *)
WalkAt(node, walk, i, default) ==
    LET ins == node[i].ins
        first == walk[i + 1][default]
        second == walk[first.next][default]
    IN  IF i > Len(node) THEN [trie |-> Leaf(0), next |-> i]
        ELSE IF ins = "Return" THEN [trie |-> Leaf(node[i].val), next |-> i + 1]
        ELSE IF ins = "Default" THEN walk[i + 1][node[i].val]
        ELSE IF ins = "Match"
             THEN [trie |-> AroundMatch(node[i].val, first.trie, default), next |-> first.next]
        ELSE [trie |-> Branch(first.trie, second.trie), next |-> second.next]

IsWalk(node, walk) ==
    walk = [i \in 1 .. Len(node) + 1 |-> [default \in Nat |-> WalkAt(node, walk, i, default)]]

(* A node leads to an instruction that is not before its own. *)
Leads(w, i, len) == \A d \in Nat : w[d].next \in i .. len + 1

(* What is behind an instruction is all that counts for the node there. *)
LEMMA WalkAtLocal ==
    ASSUME NEW node \in Code, NEW i \in 1 .. Len(node) + 1, NEW g, NEW h,
           \A q \in i + 1 .. Len(node) + 1 : g[q] = h[q] /\ Leads(h[q], q, Len(node)),
           NEW d \in Nat
    PROVE  /\ WalkAt(node, g, i, d) = WalkAt(node, h, i, d)
           /\ WalkAt(node, h, i, d).next \in i .. Len(node) + 1
<1> DEFINE len == Len(node)
<1>1. len \in Nat /\ i \in Nat /\ i <= len + 1
  BY DEF Code
<1>2. CASE i > len
  <2>1. \A w : WalkAt(node, w, i, d) = [trie |-> Leaf(0), next |-> i]
    BY <1>2 DEF WalkAt
  <2> HIDE DEF len
  <2> QED BY <1>1, <1>2, <2>1 DEF len
<1>3. CASE ~(i > len)
  <2> DEFINE first == h[i + 1][d]
             second == h[first.next][d]
             other == h[i + 1][node[i].val]
  <2>1. node[i].val \in Nat
    <3>1. i \in 1 .. Len(node)
      BY <1>1, <1>3
    <3>2. node[i] \in Instr
      BY <3>1 DEF Code
    <3> QED BY <3>2 DEF Instr
  <2>2. i + 1 \in i + 1 .. len + 1
    <3> HIDE DEF len
    <3> QED BY <1>1, <1>3
  <2>3. g[i + 1] = h[i + 1] /\ Leads(h[i + 1], i + 1, len)
    BY <2>2
  <2>4. first.next \in i + 1 .. len + 1 /\ other.next \in i + 1 .. len + 1
    BY <2>1, <2>3 DEF Leads
  <2>5. g[first.next] = h[first.next] /\ Leads(h[first.next], first.next, len)
    BY <2>4
  <2>6. second.next \in first.next .. len + 1
    BY <2>5 DEF Leads
  <2> DEFINE At(w) == IF node[i].ins = "Return" THEN [trie |-> Leaf(node[i].val), next |-> i + 1]
                      ELSE IF node[i].ins = "Default" THEN w[i + 1][node[i].val]
                      ELSE IF node[i].ins = "Match"
                           THEN [trie |-> AroundMatch(node[i].val, w[i + 1][d].trie, d),
                                 next |-> w[i + 1][d].next]
                      ELSE [trie |-> Branch(w[i + 1][d].trie, w[w[i + 1][d].next][d].trie),
                            next |-> w[w[i + 1][d].next][d].next]
             Val == IF node[i].ins = "Return" THEN [trie |-> Leaf(node[i].val), next |-> i + 1]
                    ELSE IF node[i].ins = "Default" THEN other
                    ELSE IF node[i].ins = "Match"
                         THEN [trie |-> AroundMatch(node[i].val, first.trie, d), next |-> first.next]
                    ELSE [trie |-> Branch(first.trie, second.trie), next |-> second.next]
  <2>7. \A w : WalkAt(node, w, i, d) = At(w)
    BY <1>3 DEF WalkAt
  <2>8. At(g) = Val /\ At(h) = Val
    <3>1. g[i + 1][d] = first /\ g[i + 1][node[i].val] = other /\ g[first.next][d] = second
      BY <2>3, <2>5
    <3>2. At(h) = Val
      OBVIOUS
    <3>3. At(g) = Val
      <4> HIDE DEF first, second, other
      <4> QED BY <3>1
    <3> QED BY <3>2, <3>3
  <2> HIDE DEF first, second, other, At, len
  <2>9. Val.next \in i .. len + 1
    <3>1. \A e : e \in i + 1 .. len + 1 => e \in i .. len + 1
      BY <1>1
    <3>2. second.next \in i + 1 .. len + 1
      BY <1>1, <2>4, <2>6
    <3> QED BY <2>2, <2>4, <3>1, <3>2
  <2> HIDE DEF Val
  <2> QED BY <2>7, <2>8, <2>9 DEF len
<1> QED BY <1>2, <1>3

(* So the walk has it at every instruction. *)
LEMMA WalkIs ==
    ASSUME NEW node \in Code
    PROVE  \A i \in 1 .. Len(node) + 1 : \A d \in Nat :
              Walk(node)[i][d] = WalkAt(node, Walk(node), i, d)
<1> DEFINE len == Len(node)
           top == len + 1
           P(m, h) == /\ h = [i \in top - m + 1 .. top |-> [d \in Nat |-> WalkAt(node, h, i, d)]]
                      /\ \A i \in top - m + 1 .. top : Leads(h[i], i, len)
           S == {m \in 0 .. top : \E h : P(m, h)}
<1>1. len \in Nat /\ top \in Nat /\ top = len + 1
  BY DEF Code
<1> HIDE DEF top
<1>2. 0 \in S
  <2> DEFINE h == [i \in top - 0 + 1 .. top |-> [d \in Nat |-> 0]]
  <2>1. top - 0 + 1 .. top = {}
    BY <1>1
  <2> HIDE DEF len
  <2>2. P(0, h)
    BY <2>1
  <2> HIDE DEF P
  <2> QED BY <1>1, <2>2
<1>3. ASSUME NEW m \in 1 .. top, m - 1 \in S PROVE m \in S
  <2> DEFINE p == top - m + 1
  <2>1. /\ p \in 1 .. top /\ top - (m - 1) + 1 = p + 1 /\ m \in 0 .. top
    <3> HIDE DEF len
    <3> QED BY <1>1
  <2>2. PICK h : P(m - 1, h)
    BY <1>3
  <2>3. /\ h = [i \in p + 1 .. top |-> [d \in Nat |-> WalkAt(node, h, i, d)]]
        /\ \A i \in p + 1 .. top : Leads(h[i], i, len)
    BY <2>1, <2>2
  <2> DEFINE g == [i \in p .. top |-> [d \in Nat |-> WalkAt(node, h, i, d)]]
  <2> HIDE DEF p, P
  <2>4. ASSUME NEW i \in p .. top
        PROVE  /\ i \in 1 .. Len(node) + 1
               /\ \A q \in i + 1 .. Len(node) + 1 : q \in p .. top /\ g[q] = h[q] /\ Leads(h[q], q, Len(node))
    <3>1. i \in 1 .. top /\ \A q \in i + 1 .. top : q \in p + 1 .. top /\ q \in p .. top
      BY <1>1, <2>1
    <3>2. \A q \in p + 1 .. top : h[q] = [d \in Nat |-> WalkAt(node, h, q, d)]
      BY <2>3, Zenon
    <3>3. \A q \in p .. top : g[q] = [d \in Nat |-> WalkAt(node, h, q, d)]
      OBVIOUS
    <3> HIDE DEF g
    <3> QED BY <1>1, <2>3, <3>1, <3>2, <3>3
  <2>5. ASSUME NEW i \in p .. top, NEW d \in Nat
        PROVE  WalkAt(node, g, i, d) = WalkAt(node, h, i, d) /\ WalkAt(node, h, i, d).next \in i .. len + 1
    <3> HIDE DEF g
    <3>1. /\ i \in 1 .. Len(node) + 1
          /\ \A q \in i + 1 .. Len(node) + 1 : g[q] = h[q] /\ Leads(h[q], q, Len(node))
      BY <2>4
    <3> QED BY <3>1, WalkAtLocal
  <2>6. g = [i \in p .. top |-> [d \in Nat |-> WalkAt(node, g, i, d)]]
    <3> DEFINE again == [i \in p .. top |-> [d \in Nat |-> WalkAt(node, g, i, d)]]
    <3>1. ASSUME NEW i \in p .. top PROVE g[i] = again[i]
      <4>1. \A d \in Nat : WalkAt(node, g, i, d) = WalkAt(node, h, i, d)
        BY <2>5
      <4>2. g[i] = [d \in Nat |-> WalkAt(node, h, i, d)]
        OBVIOUS
      <4>3. again[i] = [d \in Nat |-> WalkAt(node, g, i, d)]
        <5> HIDE DEF g
        <5> QED OBVIOUS
      <4> HIDE DEF g, again
      <4> QED BY <4>1, <4>2, <4>3
    <3>2. DOMAIN g = p .. top /\ g = [i \in DOMAIN g |-> g[i]]
      OBVIOUS
    <3>3. DOMAIN again = p .. top /\ again = [i \in DOMAIN again |-> again[i]]
      <4> HIDE DEF g
      <4> QED OBVIOUS
    <3>4. g = again
      <4> HIDE DEF g, again
      <4> QED BY <3>1, <3>2, <3>3
    <3> QED BY <3>4
  <2>7. \A i \in p .. top : Leads(g[i], i, len)
    <3> TAKE i \in p .. top
    <3>1. \A d \in Nat : g[i][d] = WalkAt(node, h, i, d)
      OBVIOUS
    <3> HIDE DEF g
    <3> QED BY <2>5, <3>1 DEF Leads
  <2>8. P(m, g)
    <3> HIDE DEF g
    <3> QED BY <2>6, <2>7 DEF P, p
  <2> QED BY <2>1, <2>8
<1> HIDE DEF S
<1>4. \A m \in 0 .. top : m \in S
  <2> HIDE DEF len
  <2> QED BY <1>1, <1>2, <1>3, IntervalInduction
<1>5. top \in S /\ top - top + 1 = 1
  <2> HIDE DEF len
  <2> QED BY <1>1, <1>4
<1>6. \E h : IsWalk(node, h)
  <2>1. PICK h : P(top, h)
    BY <1>5 DEF S
  <2>2. h = [i \in 1 .. top |-> [d \in Nat |-> WalkAt(node, h, i, d)]]
    BY <1>5, <2>1
  <2> QED BY <2>2 DEF IsWalk, top
<1>7. Walk(node) = CHOOSE h : IsWalk(node, h)
  BY DEF Walk, IsWalk, WalkAt
<1>8. IsWalk(node, Walk(node))
  BY <1>6, <1>7
<1> DEFINE w == Walk(node)
<1>9. w = [i \in 1 .. Len(node) + 1 |-> [d \in Nat |-> WalkAt(node, w, i, d)]]
  BY <1>8 DEF IsWalk
<1> HIDE DEF w
<1>10. \A i \in 1 .. Len(node) + 1 : w[i] = [d \in Nat |-> WalkAt(node, w, i, d)]
  BY <1>9, Zenon
<1>11. \A i \in 1 .. Len(node) + 1 : \A d \in Nat : w[i][d] = WalkAt(node, w, i, d)
  BY <1>10, Zenon
<1> QED BY <1>11 DEF w

(* The trie that a node is in a default, wherever it stands.  Nothing at all is
   whatever the default says. *)
Means(n, d, t) ==
    IF n = EndNode THEN t = Leaf(d)
    ELSE \A before, after \in Code :
            Walk(before \o (n \o after))[Len(before) + 1][d] = [trie |-> t, next |-> Len(before) + Len(n) + 1]

(* One list of instructions after another. *)
LEMMA CodeJoin ==
    ASSUME NEW s \in Code, NEW t \in Code
    PROVE  s \o t \in Code /\ Len(s \o t) = Len(s) + Len(t) /\ Len(s) \in Nat /\ Len(t) \in Nat
<1>1. s \in Seq(Instr) /\ t \in Seq(Instr)
  BY DEF Code
<1> QED BY <1>1, ConcatProperties DEF Code

(* Three lists of instructions. *)
LEMMA CodeAssoc ==
    ASSUME NEW s \in Code, NEW t \in Code, NEW u \in Code
    PROVE  (s \o t) \o u = s \o (t \o u)
<1>1. s \in Seq(Instr) /\ t \in Seq(Instr) /\ u \in Seq(Instr)
  BY DEF Code
<1> QED BY <1>1, ConcatAssociative

(* A node means one trie. *)
LEMMA OneMeaning ==
    ASSUME NEW n \in Code, NEW d, NEW t, NEW u, Means(n, d, t), Means(n, d, u)
    PROVE  t = u
<1>1. CASE n = EndNode
  BY <1>1 DEF Means
<1>2. CASE n # EndNode
  <2> DEFINE w == Walk(<< >> \o (n \o << >>))[Len(<< >>) + 1][d]
             next == Len(<< >>) + Len(n) + 1
  <2>1. << >> \in Code
    BY DEF Code
  <2>2. w = [trie |-> t, next |-> next] /\ w = [trie |-> u, next |-> next]
    BY <1>2, <2>1 DEF Means
  <2> HIDE DEF w, next
  <2>3. w.trie = t /\ w.trie = u
    BY <2>2
  <2> QED BY <2>3
<1> QED BY <1>1, <1>2

(* An instruction in the middle of a list. *)
LEMMA WalkPlace ==
    ASSUME NEW before \in Code, NEW x \in Instr, NEW rest \in Code
    PROVE  LET m == before \o (<<x>> \o rest)
               front == before \o <<x>>
               i == Len(before) + 1
           IN  /\ front \in Code /\ Len(front) = i /\ i \in Nat /\ m = front \o rest /\ m \in Code
               /\ i \in 1 .. Len(m) + 1 /\ ~(i > Len(m)) /\ m[i] = x
<1> DEFINE one == <<x>>
           m == before \o (one \o rest)
           front == before \o one
           i == Len(before) + 1
<1>1. one \in Code /\ Len(one) = 1 /\ one[1] = x
  <2>1. <<x>> \in Seq(Instr) /\ Len(<<x>>) = 1 /\ <<x>>[1] = x
    OBVIOUS
  <2> QED BY ONLY <2>1 DEF Code
<1>a. one = <<x>>
  OBVIOUS
<1> HIDE DEF one
<1>2. front \in Code /\ Len(front) = Len(before) + 1 /\ Len(before) \in Nat
  <2>1. one \in Code
    BY <1>1
  <2>2. before \o one \in Code /\ Len(before \o one) = Len(before) + Len(one) /\ Len(before) \in Nat
    BY ONLY <2>1, before \in Code, CodeJoin
  <2> QED BY <1>1, <2>2
<1>3. m = front \o rest
  BY <1>1, CodeAssoc
<1>4. front[i] = x
  <2>1. before \in Seq(Instr) /\ one \in Seq(Instr) /\ Len(before) \in Nat
    BY <1>1, <1>2 DEF Code
  <2>2. (before \o <<x>>)[Len(before) + 1] = x
    <3>1. before \in Seq(Instr) /\ <<x>> \in Seq(Instr) /\ Len(before) \in Nat
      BY <1>a, <2>1
    <3> QED BY ONLY <3>1
  <2> QED BY <1>a, <2>2
<1>5. front \in Seq(Instr) /\ rest \in Seq(Instr)
  BY <1>2 DEF Code
<1> HIDE DEF front, m
<1>6. m \in Code /\ Len(m) = Len(front) + Len(rest) /\ Len(rest) \in Nat
  BY <1>2, <1>3, CodeJoin
<1>7. i \in Nat /\ i \in 1 .. Len(front) /\ Len(front) = i /\ i \in 1 .. Len(m) + 1 /\ ~(i > Len(m))
  BY <1>2, <1>6
<1> HIDE DEF i
<1>8. (front \o rest)[i] = front[i]
  BY <1>2, <1>5, <1>7
<1> QED BY <1>2, <1>3, <1>4, <1>6, <1>7, <1>8, <1>a DEF m, front, i

(* What the walk has there, instruction by instruction. *)
LEMMA WalkReturn ==
    ASSUME NEW before \in Code, NEW x \in Instr, NEW rest \in Code, NEW d \in Nat, x.ins = "Return"
    PROVE  LET w == Walk(before \o (<<x>> \o rest))
               i == Len(before) + 1
           IN  w[i][d] = [trie |-> Leaf(x.val), next |-> i + 1]
<1> DEFINE m == before \o (<<x>> \o rest)
           i == Len(before) + 1
           w == Walk(m)
<1>1. i \in Nat /\ m \in Code /\ i \in 1 .. Len(m) + 1 /\ ~(i > Len(m)) /\ m[i] = x
  BY WalkPlace
<1> HIDE DEF m
<1>2. w[i][d] = WalkAt(m, w, i, d)
  BY <1>1, WalkIs
<1> HIDE DEF w, i
<1> QED BY <1>1, <1>2 DEF WalkAt, m, w, i

(* A default: what is behind it, in that default. *)
LEMMA WalkDefault ==
    ASSUME NEW before \in Code, NEW x \in Instr, NEW rest \in Code, NEW d \in Nat, x.ins = "Default"
    PROVE  LET w == Walk(before \o (<<x>> \o rest))
               i == Len(before) + 1
           IN  w[i][d] = w[i + 1][x.val]
<1> DEFINE m == before \o (<<x>> \o rest)
           i == Len(before) + 1
           w == Walk(m)
<1>1. i \in Nat /\ m \in Code /\ i \in 1 .. Len(m) + 1 /\ ~(i > Len(m)) /\ m[i] = x
  BY WalkPlace
<1> HIDE DEF m
<1>2. w[i][d] = WalkAt(m, w, i, d)
  BY <1>1, WalkIs
<1> HIDE DEF w, i
<1> QED BY <1>1, <1>2 DEF WalkAt, m, w, i

(* A match: its bits around what is behind it. *)
LEMMA WalkMatch ==
    ASSUME NEW before \in Code, NEW x \in Instr, NEW rest \in Code, NEW d \in Nat, x.ins = "Match"
    PROVE  LET w == Walk(before \o (<<x>> \o rest))
               i == Len(before) + 1
               first == w[i + 1][d]
           IN  w[i][d] = [trie |-> AroundMatch(x.val, first.trie, d), next |-> first.next]
<1> DEFINE m == before \o (<<x>> \o rest)
           i == Len(before) + 1
           w == Walk(m)
<1>1. i \in Nat /\ m \in Code /\ i \in 1 .. Len(m) + 1 /\ ~(i > Len(m)) /\ m[i] = x
  BY WalkPlace
<1> HIDE DEF m
<1>2. w[i][d] = WalkAt(m, w, i, d)
  BY <1>1, WalkIs
<1> HIDE DEF w, i
<1> QED BY <1>1, <1>2 DEF WalkAt, m, w, i

(* A jump: the branch of the two nodes behind it. *)
Jumps(w, i, d) ==
    LET first == w[i + 1][d]
        second == w[first.next][d]
    IN  w[i][d] = [trie |-> Branch(first.trie, second.trie), next |-> second.next]

(* The walk at a jump. *)
LEMMA WalkJump ==
    ASSUME NEW before \in Code, NEW x \in Instr, NEW rest \in Code, NEW d \in Nat, x.ins = "Jump"
    PROVE  Jumps(Walk(before \o (<<x>> \o rest)), Len(before) + 1, d)
<1> DEFINE m == before \o (<<x>> \o rest)
           i == Len(before) + 1
           w == Walk(m)
<1>1. i \in Nat /\ m \in Code /\ i \in 1 .. Len(m) + 1 /\ ~(i > Len(m)) /\ m[i] = x
  BY WalkPlace
<1> HIDE DEF m
<1>2. w[i][d] = WalkAt(m, w, i, d)
  BY <1>1, WalkIs
<1> HIDE DEF w, i
<1>3. Jumps(w, i, d)
  BY <1>1, <1>2 DEF WalkAt, Jumps
<1> QED BY <1>3 DEF m, w, i

(* What a list with one more instruction, and something behind it, has behind that. *)
LEMMA AroundOver ==
    ASSUME NEW x \in Instr, NEW s \in Code, NEW before \in Code, NEW after \in Code
    PROVE  /\ s \o after \in Code /\ (<<x>> \o s) \o after = <<x>> \o (s \o after)
           /\ Len(<<x>> \o s) = Len(s) + 1 /\ Len(s) \in Nat /\ Len(before) \in Nat
<1> DEFINE one == <<x>>
<1>1. one \in Code /\ Len(one) = 1
  BY DEF Code
<1> HIDE DEF one
<1>2. s \o after \in Code
  BY CodeJoin
<1>3. (one \o s) \o after = one \o (s \o after)
  BY <1>1, CodeAssoc
<1>4. Len(one \o s) = 1 + Len(s) /\ Len(s) \in Nat
  BY <1>1, CodeJoin
<1>5. Len(before) \in Nat
  BY CodeJoin
<1> QED BY <1>2, <1>3, <1>4, <1>5 DEF one

(* A leaf means its ASN. *)
LEMMA LeafMeans ==
    ASSUME NEW x \in Instr, x.ins = "Return", NEW d \in Nat
    PROVE  Means(<<x>> \o << >>, d, Leaf(x.val))
<1> DEFINE n == <<x>> \o << >>
<1>1. << >> \in Code /\ Len(<< >>) = 0
  BY DEF Code
<1>2. n # EndNode
  BY <1>1, HeadOfNode
<1>3. ASSUME NEW before \in Code, NEW after \in Code
      PROVE  Walk(before \o (n \o after))[Len(before) + 1][d]
                = [trie |-> Leaf(x.val), next |-> Len(before) + Len(n) + 1]
  <2>1. /\ n \o after = <<x>> \o (<< >> \o after) /\ << >> \o after \in Code
        /\ Len(n) = 1 /\ Len(before) \in Nat
    <3>1. /\ << >> \o after \in Code /\ (<<x>> \o << >>) \o after = <<x>> \o (<< >> \o after)
          /\ Len(<<x>> \o << >>) = Len(<< >>) + 1 /\ Len(before) \in Nat
      BY <1>1, AroundOver
    <3> QED BY <1>1, <3>1
  <2> HIDE DEF n
  <2> DEFINE rest == << >> \o after
  <2> HIDE DEF rest
  <2>2. Walk(before \o (<<x>> \o rest))[Len(before) + 1][d] = [trie |-> Leaf(x.val), next |-> Len(before) + 1 + 1]
    BY <2>1, WalkReturn DEF rest
  <2>3. Len(before) + 1 + 1 = Len(before) + Len(n) + 1
    BY <2>1
  <2> QED BY <2>1, <2>2, <2>3 DEF rest
<1> HIDE DEF n
<1> QED BY <1>2, <1>3 DEF Means, n

(* A default means what the node behind it means in it. *)
LEMMA DefaultMeans ==
    ASSUME NEW x \in Instr, x.ins = "Default", NEW s \in Code, s # EndNode, NEW d \in Nat, NEW t,
           Means(s, x.val, t)
    PROVE  Means(<<x>> \o s, d, t)
<1> DEFINE n == <<x>> \o s
<1>1. n # EndNode /\ x.val \in Nat
  BY HeadOfNode
<1>2. ASSUME NEW before \in Code, NEW after \in Code
      PROVE  Walk(before \o (n \o after))[Len(before) + 1][d]
                = [trie |-> t, next |-> Len(before) + Len(n) + 1]
  <2> DEFINE rest == s \o after
             m == before \o (<<x>> \o rest)
             front == before \o <<x>>
             i == Len(before) + 1
  <2>1. n \o after = <<x>> \o rest /\ rest \in Code /\ Len(n) = Len(s) + 1 /\ Len(before) \in Nat /\ Len(s) \in Nat
    <3>1. /\ s \o after \in Code /\ (<<x>> \o s) \o after = <<x>> \o (s \o after)
          /\ Len(<<x>> \o s) = Len(s) + 1 /\ Len(s) \in Nat /\ Len(before) \in Nat
      BY AroundOver
    <3> QED BY <3>1
  <2> HIDE DEF rest, n
  <2>2. /\ front \in Code /\ Len(front) = i /\ m = front \o rest
        /\ Walk(m)[i][d] = Walk(m)[i + 1][x.val]
    <3>1. /\ before \o <<x>> \in Code /\ Len(before \o <<x>>) = Len(before) + 1
          /\ before \o (<<x>> \o rest) = (before \o <<x>>) \o rest
      BY <2>1, WalkPlace
    <3>2. Walk(before \o (<<x>> \o rest))[Len(before) + 1][d] = Walk(before \o (<<x>> \o rest))[Len(before) + 1 + 1][x.val]
      BY <2>1, WalkDefault
    <3> QED BY <3>1, <3>2
  <2> HIDE DEF front, m
  <2>3. Walk(m)[Len(front) + 1][x.val] = [trie |-> t, next |-> Len(front) + Len(s) + 1]
    BY <2>2 DEF Means, rest
  <2>4. Len(front) + Len(s) + 1 = Len(before) + Len(n) + 1
    BY <2>1, <2>2
  <2> QED BY <2>1, <2>2, <2>3, <2>4 DEF m
<1> HIDE DEF n
<1> QED BY <1>1, <1>2 DEF Means, n

(* A match means its bits around what the node behind it means. *)
LEMMA MatchMeans ==
    ASSUME NEW x \in Instr, x.ins = "Match", NEW s \in Code, s # EndNode, NEW d \in Nat, NEW t,
           Means(s, d, t)
    PROVE  Means(<<x>> \o s, d, AroundMatch(x.val, t, d))
<1> DEFINE n == <<x>> \o s
           u == AroundMatch(x.val, t, d)
<1> HIDE DEF u
<1>1. n # EndNode /\ x.val \in Nat
  BY HeadOfNode
<1>2. ASSUME NEW before \in Code, NEW after \in Code
      PROVE  Walk(before \o (n \o after))[Len(before) + 1][d]
                = [trie |-> u, next |-> Len(before) + Len(n) + 1]
  <2> DEFINE rest == s \o after
             m == before \o (<<x>> \o rest)
             front == before \o <<x>>
             i == Len(before) + 1
             first == Walk(m)[i + 1][d]
  <2>1. n \o after = <<x>> \o rest /\ rest \in Code /\ Len(n) = Len(s) + 1 /\ Len(before) \in Nat /\ Len(s) \in Nat
    <3>1. /\ s \o after \in Code /\ (<<x>> \o s) \o after = <<x>> \o (s \o after)
          /\ Len(<<x>> \o s) = Len(s) + 1 /\ Len(s) \in Nat /\ Len(before) \in Nat
      BY AroundOver
    <3> QED BY <3>1
  <2> HIDE DEF rest, n
  <2>2. /\ front \in Code /\ Len(front) = i /\ m = front \o rest
        /\ Walk(m)[i][d] = [trie |-> AroundMatch(x.val, first.trie, d), next |-> first.next]
    <3>1. /\ before \o <<x>> \in Code /\ Len(before \o <<x>>) = Len(before) + 1
          /\ before \o (<<x>> \o rest) = (before \o <<x>>) \o rest
      BY <2>1, WalkPlace
    <3>2. Walk(before \o (<<x>> \o rest))[Len(before) + 1][d]
             = [trie |-> AroundMatch(x.val, Walk(before \o (<<x>> \o rest))[Len(before) + 1 + 1][d].trie, d),
                next |-> Walk(before \o (<<x>> \o rest))[Len(before) + 1 + 1][d].next]
      BY <2>1, WalkMatch
    <3> QED BY <3>1, <3>2
  <2> HIDE DEF front, m
  <2>3. Walk(m)[Len(front) + 1][d] = [trie |-> t, next |-> Len(front) + Len(s) + 1]
    BY <2>2 DEF Means, rest
  <2>4. first.trie = t /\ first.next = Len(front) + Len(s) + 1
    BY <2>2, <2>3
  <2>5. Len(front) + Len(s) + 1 = Len(before) + Len(n) + 1
    BY <2>1, <2>2
  <2> QED BY <2>1, <2>2, <2>4, <2>5 DEF m, u
<1> HIDE DEF n
<1> QED BY <1>1, <1>2 DEF Means, n, u

(* A jump means the branch of what its halves mean. *)
LEMMA JumpMeans ==
    ASSUME NEW x \in Instr, x.ins = "Jump", NEW l \in Code, l # EndNode, NEW r \in Code, r # EndNode,
           NEW d \in Nat, NEW t, Means(l, d, t), NEW u, Means(r, d, u)
    PROVE  Means(<<x>> \o (l \o r), d, Branch(t, u))
<1> DEFINE s == l \o r
           n == <<x>> \o s
           b == Branch(t, u)
<1> HIDE DEF b
<1>1. s \in Code /\ Len(s) = Len(l) + Len(r) /\ Len(l) \in Nat /\ Len(r) \in Nat
  BY CodeJoin
<1> HIDE DEF s
<1>2. n # EndNode
  BY <1>1, HeadOfNode
<1>3. ASSUME NEW before \in Code, NEW after \in Code
      PROVE  Walk(before \o (n \o after))[Len(before) + 1][d]
                = [trie |-> b, next |-> Len(before) + Len(n) + 1]
  <2> DEFINE tail == r \o after
             rest == s \o after
             m == before \o (<<x>> \o rest)
             front == before \o <<x>>
             mid == front \o l
             i == Len(before) + 1
             first == Walk(m)[i + 1][d]
             second == Walk(m)[first.next][d]
  <2>1. n \o after = <<x>> \o rest /\ rest \in Code /\ Len(n) = Len(s) + 1 /\ Len(before) \in Nat /\ Len(s) \in Nat
    <3>1. /\ s \o after \in Code /\ (<<x>> \o s) \o after = <<x>> \o (s \o after)
          /\ Len(<<x>> \o s) = Len(s) + 1 /\ Len(s) \in Nat /\ Len(before) \in Nat
      BY <1>1, AroundOver
    <3> QED BY <3>1
  <2>2. rest = l \o tail /\ tail \in Code
    <3>1. (l \o r) \o after = l \o (r \o after)
      BY CodeAssoc
    <3>2. tail \in Code
      BY CodeJoin
    <3> QED BY <3>1, <3>2 DEF s
  <2> HIDE DEF rest, n, tail
  <2>3. /\ front \in Code /\ Len(front) = i /\ m = front \o rest
        /\ Walk(m)[i][d] = [trie |-> Branch(first.trie, second.trie), next |-> second.next]
    <3> DEFINE w == Walk(before \o (<<x>> \o rest))
               one == w[Len(before) + 1 + 1][d]
               two == w[one.next][d]
    <3>1. /\ before \o <<x>> \in Code /\ Len(before \o <<x>>) = Len(before) + 1
          /\ before \o (<<x>> \o rest) = (before \o <<x>>) \o rest
      BY <2>1, WalkPlace
    <3>2. rest \in Code /\ x.ins = "Jump"
      BY <2>1
    <3>3. one = first /\ two = second /\ w = Walk(m)
      OBVIOUS
    <3>4. Jumps(w, Len(before) + 1, d)
      BY <3>2, WalkJump
    <3>5. w[Len(before) + 1][d] = [trie |-> Branch(one.trie, two.trie), next |-> two.next]
      <4> HIDE DEF w
      <4> QED BY <3>4 DEF Jumps
    <3> HIDE DEF w, one, two, first, second
    <3> QED BY <3>1, <3>3, <3>5
  <2> HIDE DEF front, m
  <2>4. mid \in Code /\ Len(mid) = Len(front) + Len(l) /\ m = mid \o tail
    <3>1. mid \in Code /\ Len(mid) = Len(front) + Len(l)
      BY <2>3, CodeJoin
    <3>2. (front \o l) \o tail = front \o (l \o tail)
      BY <2>2, <2>3, CodeAssoc
    <3> QED BY <2>2, <2>3, <3>1, <3>2
  <2> HIDE DEF mid
  <2>5. first = [trie |-> t, next |-> Len(front) + Len(l) + 1]
    <3>1. Walk(front \o (l \o tail))[Len(front) + 1][d] = [trie |-> t, next |-> Len(front) + Len(l) + 1]
      BY <2>2, <2>3 DEF Means
    <3> QED BY <2>2, <2>3, <3>1
  <2>6. Walk(m)[Len(mid) + 1][d] = [trie |-> u, next |-> Len(mid) + Len(r) + 1]
    <3>1. Walk(mid \o (r \o after))[Len(mid) + 1][d] = [trie |-> u, next |-> Len(mid) + Len(r) + 1]
      BY <2>4 DEF Means
    <3> QED BY <2>4, <3>1 DEF tail
  <2>7. first.trie = t /\ first.next = Len(mid) + 1
    BY <2>4, <2>5
  <2> HIDE DEF first
  <2>8. second.trie = u /\ second.next = Len(mid) + Len(r) + 1
    BY <2>6, <2>7
  <2>9. Len(mid) + Len(r) + 1 = Len(before) + Len(n) + 1
    BY <1>1, <2>1, <2>3, <2>4
  <2> QED BY <2>1, <2>3, <2>7, <2>8, <2>9 DEF m, b, first
<1> HIDE DEF n
<1> QED BY <1>2, <1>3 DEF Means, n, s, b

---------------------------------------------------------------------------
(* The bits of a match. *)

(* A match of so many bits. *)
LEMMA BitsOfMatch ==
    ASSUME NEW m \in Nat, NEW val \in Room(m) .. Room(m + 1) - 1
    PROVE  MatchedBits(val) = m /\ TopBit(val) = Room(m) /\ val \in Nat
<1>1. Room(m) \in Nat \ {0} /\ Room(m + 1) \in Nat \ {0} /\ val \in Nat
  BY RoomDoubles
<1>2. ASSUME NEW k \in 1 .. val PROVE Room(k) <= val <=> k \in 1 .. m
  <2>1. k \in Nat /\ Room(k) \in Nat
    BY RoomDoubles
  <2>2. CASE k <= m
    <3>1. k \in 0 .. m /\ k \in 1 .. m
      BY <2>1, <2>2
    <3>2. Room(k) <= Room(m)
      BY <3>1, RoomGrows
    <3> QED BY <1>1, <2>1, <3>1, <3>2
  <2>3. CASE ~(k <= m)
    <3>1. m + 1 \in 0 .. k /\ k \notin 1 .. m
      BY <2>1, <2>3
    <3>2. Room(m + 1) <= Room(k)
      BY <2>1, <3>1, RoomGrows
    <3> QED BY <1>1, <2>1, <3>1, <3>2
  <2> QED BY <2>2, <2>3
<1>3. ASSUME NEW k \in 1 .. m PROVE k \in 1 .. val
  <2>1. k \in 0 .. m
    OBVIOUS
  <2>2. Room(k) <= Room(m) /\ k < Room(k)
    BY <2>1, RoomGrows
  <2>3. Room(k) \in Nat /\ k \in Nat
    BY <2>1, RoomDoubles
  <2> QED BY <1>1, <2>2, <2>3
<1>4. {k \in 1 .. val : Room(k) <= val} = 1 .. m
  BY <1>2, <1>3
<1>5. Cardinality(1 .. m) = m
  <2>1. 1 \in Int /\ m \in Int
    OBVIOUS
  <2>2. Cardinality(1 .. m) = IF 1 > m THEN 0 ELSE m - 1 + 1
    BY <2>1, FS_Interval
  <2> QED BY <2>2
<1> QED BY <1>1, <1>4, <1>5 DEF MatchedBits, TopBit

(* The bits of a match around a tree, one by one. *)
IsAround(around, val, m, sub, d) ==
    /\ around[0] = sub
    /\ \A k \in 1 .. m : around[k] = HalfOf(ShiftRight(val, k - 1) % 2, around[k - 1], d)

(* The bits of a match are put around a tree one by one. *)
LEMMA AroundUnfolds ==
    ASSUME NEW val \in Nat, NEW sub, NEW d
    PROVE  \E around : IsAround(around, val, MatchedBits(val), sub, d)
                       /\ AroundMatch(val, sub, d) = around[MatchedBits(val)]
<1> DEFINE m == MatchedBits(val)
           NextBit(k, g) == IF k = 0 THEN sub ELSE HalfOf(ShiftRight(val, k - 1) % 2, g[k - 1], d)
           P(k, g) == g = [j \in 0 .. k |-> NextBit(j, g)]
           S == {k \in 0 .. m : \E g : P(k, g)}
<1>1. m \in Nat
  <2> DEFINE A == {k \in 1 .. val : Room(k) <= val}
  <2>1. IsFiniteSet(1 .. val)
    BY FS_Interval
  <2>2. IsFiniteSet(A)
    BY <2>1, FS_Subset
  <2> QED BY <2>2, FS_CardinalityType DEF MatchedBits
<1> HIDE DEF m
<1>2. 0 \in S
  <2> DEFINE h == [j \in 0 .. 0 |-> sub]
  <2>1. h = [j \in 0 .. 0 |-> NextBit(j, h)]
    OBVIOUS
  <2> HIDE DEF h
  <2> QED BY <1>1, <2>1
<1>3. ASSUME NEW k \in 1 .. m, k - 1 \in S PROVE k \in S
  <2>1. PICK g : P(k - 1, g)
    BY <1>3
  <2>2. k - 1 \in 0 .. m /\ k \in 0 .. m /\ k \in Nat /\ k # 0
    BY <1>1
  <2> DEFINE h == [j \in 0 .. k |-> NextBit(j, g)]
  <2>3. ASSUME NEW j \in 0 .. k - 1 PROVE h[j] = g[j]
    <3>1. j \in 0 .. k
      BY <2>2
    <3>2. h[j] = NextBit(j, g)
      BY <3>1
    <3>3. g[j] = NextBit(j, g)
      <4> HIDE DEF NextBit
      <4> QED BY <2>1, Zenon
    <3> QED BY <3>2, <3>3
  <2>4. ASSUME NEW j \in 0 .. k PROVE NextBit(j, g) = NextBit(j, h)
    <3>1. CASE j = 0
      BY <3>1
    <3>2. CASE j # 0
      <4>1. j - 1 \in 0 .. k - 1
        BY <2>2, <3>2
      <4>2. h[j - 1] = g[j - 1]
        BY <2>3, <4>1
      <4> HIDE DEF h
      <4> QED BY <3>2, <4>2
    <3> QED BY <3>1, <3>2
  <2>5. h = [j \in 0 .. k |-> NextBit(j, h)]
    <3> DEFINE again == [j \in 0 .. k |-> NextBit(j, h)]
    <3>1. \A j \in 0 .. k : h[j] = again[j]
      <4> TAKE j \in 0 .. k
      <4>1. h[j] = NextBit(j, g)
        BY Zenon
      <4>2. again[j] = NextBit(j, h)
        <5> HIDE DEF h, NextBit
        <5> QED BY Zenon
      <4> QED BY <2>4, <4>1, <4>2
    <3>2. h = [j \in 0 .. k |-> h[j]] /\ again = [j \in 0 .. k |-> again[j]]
      <4> HIDE DEF NextBit
      <4> QED OBVIOUS
    <3>3. h = again
      <4> HIDE DEF h, again
      <4> QED BY <3>1, <3>2
    <3> QED BY <3>3
  <2> HIDE DEF h
  <2> QED BY <2>2, <2>5
<1> HIDE DEF S
<1>4. \A k \in 0 .. m : k \in S
  BY <1>1, <1>2, <1>3, IntervalInduction
<1>5. m \in S
  BY <1>1, <1>4
<1>6. \E g : P(m, g)
  BY <1>5 DEF S
<1> DEFINE a == CHOOSE g : P(m, g)
<1>7. AroundMatch(val, sub, d) = a[m]
  BY DEF AroundMatch, m
<1>8. P(m, a)
  <2> HIDE DEF P
  <2> QED BY <1>6
<1> HIDE DEF a
<1>9. \A k \in 0 .. m : a[k] = NextBit(k, a)
  <2> HIDE DEF NextBit
  <2> QED BY <1>8, Zenon
<1>10. IsAround(a, val, m, sub, d)
  <2>1. a[0] = sub
    BY <1>1, <1>9
  <2>2. ASSUME NEW k \in 1 .. m PROVE a[k] = HalfOf(ShiftRight(val, k - 1) % 2, a[k - 1], d)
    <3>1. k \in 0 .. m /\ k # 0
      BY <1>1
    <3> QED BY <1>9, <3>1
  <2> QED BY <2>1, <2>2 DEF IsAround
<1> QED BY <1>7, <1>10 DEF m

(* Two that begin alike are alike. *)
LEMMA SameAround ==
    ASSUME NEW m \in Nat, NEW v \in Nat, NEW w \in Nat, NEW sub, NEW d, NEW g, NEW h,
           IsAround(g, v, m, sub, d), IsAround(h, w, m, sub, d),
           \A j \in 0 .. m - 1 : ShiftRight(v, j) % 2 = ShiftRight(w, j) % 2
    PROVE  g[m] = h[m]
<1> DEFINE S == {k \in 0 .. m : g[k] = h[k]}
<1>1. 0 \in S
  BY DEF IsAround
<1>2. ASSUME NEW k \in 1 .. m, k - 1 \in S PROVE k \in S
  <2>1. k \in 0 .. m /\ k - 1 \in 0 .. m - 1
    OBVIOUS
  <2>2. ShiftRight(v, k - 1) % 2 = ShiftRight(w, k - 1) % 2
    BY <2>1
  <2>3. g[k] = HalfOf(ShiftRight(v, k - 1) % 2, g[k - 1], d) /\ h[k] = HalfOf(ShiftRight(w, k - 1) % 2, h[k - 1], d)
    BY DEF IsAround
  <2>4. g[k - 1] = h[k - 1]
    BY <1>2
  <2> QED BY <2>1, <2>2, <2>3, <2>4
<1> HIDE DEF S
<1>3. \A k \in 0 .. m : k \in S
  BY <1>1, <1>2, IntervalInduction
<1>4. m \in S
  BY <1>3
<1> QED BY <1>4 DEF S

(* Bits above those that a shift takes away stay above. *)
LEMMA ShiftSplit ==
    ASSUME NEW v \in Nat, NEW m \in Nat, NEW bit \in {0, 1}
    PROVE  \A j \in 0 .. m : ShiftRight(v + (bit + 1) * Room(m), j)
                                = ShiftRight(v, j) + (bit + 1) * Room(m - j)
<1> DEFINE w == v + (bit + 1) * Room(m)
           S == {j \in 0 .. m : ShiftRight(w, j) = ShiftRight(v, j) + (bit + 1) * Room(m - j)}
<1>1. w \in Nat
  <2>1. Room(m) \in Nat
    BY RoomDoubles
  <2> QED BY <2>1
<1>2. 0 \in S
  <2>1. m - 0 = m /\ 0 \in 0 .. m
    OBVIOUS
  <2>2. ShiftRight(v, 0) = v
    BY ShiftHalves
  <2>3. ShiftRight(w, 0) = w
    BY <1>1, ShiftHalves
  <2> QED BY <2>1, <2>2, <2>3
<1>a. w = v + (bit + 1) * Room(m)
  OBVIOUS
<1> HIDE DEF w
<1>3. ASSUME NEW j \in 1 .. m, j - 1 \in S PROVE j \in S
  <2> DEFINE i == j - 1
             b == m - j
  <2>1. i \in Nat /\ b \in Nat /\ i + 1 = j /\ m - i = b + 1 /\ j \in 0 .. m
    OBVIOUS
  <2>2. ShiftRight(w, i) = ShiftRight(v, i) + (bit + 1) * Room(b + 1)
    BY <1>3, <2>1
  <2> HIDE DEF i, b
  <2>3. ShiftRight(w, i) \in Nat /\ ShiftRight(w, i + 1) = ShiftRight(w, i) \div 2
    BY <1>1, <2>1, ShiftHalves
  <2>4. ShiftRight(v, i) \in Nat /\ ShiftRight(v, i + 1) = ShiftRight(v, i) \div 2
    BY <2>1, ShiftHalves
  <2>5. Room(b) \in Nat /\ Room(b + 1) = 2 * Room(b)
    BY <2>1, RoomDoubles
  <2> DEFINE s == ShiftRight(v, i)
             r == Room(b)
  <2>6. s \in Nat /\ r \in Nat
    BY <2>4, <2>5
  <2> HIDE DEF s, r
  <2>7. (s + (bit + 1) * (2 * r)) \div 2 = s \div 2 + (bit + 1) * r
    <3>1. CASE bit = 0
      BY <2>6, <3>1
    <3>2. CASE bit = 1
      BY <2>6, <3>2
    <3> QED BY <3>1, <3>2
  <2>8. ShiftRight(w, i + 1) = ShiftRight(v, i + 1) + (bit + 1) * Room(b)
    BY <2>2, <2>3, <2>4, <2>5, <2>7 DEF s, r
  <2> QED BY <2>1, <2>8 DEF b
<1> HIDE DEF S
<1>4. \A j \in 0 .. m : j \in S
  BY <1>2, <1>3, IntervalInduction
<1> QED BY <1>4 DEF S, w

(* A match with one more bit in front is a half of space around the match as it was. *)
LEMMA MatchGrows ==
    ASSUME NEW m \in Nat, NEW val \in Room(m) .. Room(m + 1) - 1, NEW bit \in {0, 1}, NEW sub, NEW d
    PROVE  LET more == val + (bit + 1) * TopBit(val)
           IN  /\ more \in Room(m + 1) .. Room(m + 2) - 1 /\ more \in Nat
               /\ AroundMatch(more, sub, d) = HalfOf(bit, AroundMatch(val, sub, d), d)
<1> DEFINE r == Room(m)
           more == val + (bit + 1) * r
<1>1. r \in Nat \ {0} /\ Room(m + 1) = 2 * r /\ Room(m + 2) = 4 * r
  <2>1. Room(m + 1) = 2 * Room(m) /\ Room(m) \in Nat \ {0}
    BY RoomDoubles
  <2>2. m + 1 \in Nat /\ m + 1 + 1 = m + 2
    OBVIOUS
  <2>3. Room(m + 1 + 1) = 2 * Room(m + 1)
    BY <2>2, RoomDoubles
  <2> QED BY <2>1, <2>2, <2>3
<1>2. MatchedBits(val) = m /\ TopBit(val) = r /\ val \in Nat
  BY BitsOfMatch
<1>3. more \in Room(m + 1) .. Room(m + 2) - 1 /\ more \in Nat
  <2> HIDE DEF r
  <2>1. val \in r .. 2 * r - 1
    BY <1>1 DEF r
  <2>2. CASE bit = 0
    BY <1>1, <2>1, <2>2
  <2>3. CASE bit = 1
    BY <1>1, <2>1, <2>3
  <2> QED BY <2>2, <2>3
<1>4. MatchedBits(more) = m + 1
  <2> HIDE DEF more
  <2>1. m + 1 \in Nat /\ m + 1 + 1 = m + 2
    OBVIOUS
  <2> QED BY <1>3, <2>1, BitsOfMatch
<1>5. \A j \in 0 .. m : ShiftRight(more, j) = ShiftRight(val, j) + (bit + 1) * Room(m - j)
  BY <1>2, ShiftSplit
<1>6. \A j \in 0 .. m - 1 : ShiftRight(more, j) % 2 = ShiftRight(val, j) % 2
  <2> TAKE j \in 0 .. m - 1
  <2> DEFINE b == m - j - 1
  <2>1. j \in Nat /\ j \in 0 .. m /\ b \in Nat /\ b + 1 = m - j
    OBVIOUS
  <2>2. Room(m - j) = 2 * Room(b) /\ Room(b) \in Nat
    BY <2>1, RoomDoubles
  <2>3. ShiftRight(val, j) \in Nat
    BY <1>2, <2>1, ShiftHalves
  <2> DEFINE s == ShiftRight(val, j)
             q == Room(b)
  <2>4. ShiftRight(more, j) = s + (bit + 1) * (2 * q)
    BY <1>5, <2>1, <2>2
  <2>5. s \in Nat /\ q \in Nat
    BY <2>2, <2>3
  <2> HIDE DEF s, q, more
  <2>6. (s + (bit + 1) * (2 * q)) % 2 = s % 2
    <3>1. CASE bit = 0
      BY <2>5, <3>1
    <3>2. CASE bit = 1
      BY <2>5, <3>2
    <3> QED BY <3>1, <3>2
  <2> QED BY <2>4, <2>6 DEF s
<1>7. ShiftRight(more, m) % 2 = bit
  <2> DEFINE v == val - r
  <2>1. v \in Nat /\ v \in 0 .. Room(m) - 1 /\ val = v + (0 + 1) * Room(m)
    <3> HIDE DEF r
    <3> QED BY <1>1, <1>2 DEF r
  <2>2. m - m = 0 /\ m \in 0 .. m /\ Room(0) = 1
    BY RoomDoubles
  <2> HIDE DEF v
  <2>3. ShiftRight(v, m) < Room(m - m)
    BY <2>1, <2>2, ShiftBound
  <2>4. ShiftRight(v, m) \in Nat
    BY <2>1, ShiftHalves
  <2>5. ShiftRight(v + (0 + 1) * Room(m), m) = ShiftRight(v, m) + (0 + 1) * Room(m - m)
    BY <2>1, <2>2, ShiftSplit
  <2>6. ShiftRight(val, m) = 1
    BY <2>1, <2>2, <2>3, <2>4, <2>5
  <2>7. ShiftRight(more, m) = ShiftRight(val, m) + (bit + 1) * Room(m - m)
    BY <1>5, <2>2
  <2> HIDE DEF more
  <2>8. ShiftRight(more, m) = 1 + (bit + 1)
    BY <2>2, <2>6, <2>7
  <2> QED BY <2>8
<1> HIDE DEF more, r
<1>8. PICK g : IsAround(g, val, m, sub, d) /\ AroundMatch(val, sub, d) = g[m]
  BY <1>2, AroundUnfolds
<1>9. PICK h : IsAround(h, more, m + 1, sub, d) /\ AroundMatch(more, sub, d) = h[m + 1]
  BY <1>3, <1>4, AroundUnfolds
<1>10. IsAround(h, more, m, sub, d) /\ h[m + 1] = HalfOf(ShiftRight(more, m) % 2, h[m], d)
  <2>1. m + 1 \in 1 .. m + 1 /\ m + 1 - 1 = m /\ \A k \in 1 .. m : k \in 1 .. m + 1
    OBVIOUS
  <2> QED BY <1>9, <2>1 DEF IsAround
<1>11. h[m] = g[m]
  BY <1>2, <1>3, <1>6, <1>8, <1>10, SameAround
<1>12. AroundMatch(more, sub, d) = HalfOf(bit, AroundMatch(val, sub, d), d)
  BY <1>7, <1>8, <1>9, <1>10, <1>11
<1> QED BY <1>2, <1>3, <1>12 DEF more, r

(* A match of one bit. *)
LEMMA MatchOne ==
    ASSUME NEW bit \in {0, 1}, NEW sub, NEW d
    PROVE  2 + bit \in Room(1) .. Room(2) - 1 /\ AroundMatch(2 + bit, sub, d) = HalfOf(bit, sub, d)
<1>1. Room(0) = 1 /\ Room(1) = 2 /\ Room(2) = 4
  <2>1. Room(0) = 1 /\ Room(0 + 1) = 2 * Room(0) /\ Room(1 + 1) = 2 * Room(1)
    BY RoomDoubles
  <2> QED BY <2>1
<1>2. 1 \in Room(0) .. Room(0 + 1) - 1
  BY <1>1
<1>3. MatchedBits(1) = 0 /\ TopBit(1) = 1
  BY <1>1, <1>2, BitsOfMatch
<1>4. AroundMatch(1, sub, d) = sub
  <2>1. PICK g : IsAround(g, 1, MatchedBits(1), sub, d) /\ AroundMatch(1, sub, d) = g[MatchedBits(1)]
    BY AroundUnfolds
  <2> QED BY <1>3, <2>1 DEF IsAround
<1>5. AroundMatch(1 + (bit + 1) * TopBit(1), sub, d) = HalfOf(bit, AroundMatch(1, sub, d), d)
  BY <1>2, MatchGrows
<1>6. 1 + (bit + 1) * TopBit(1) = 2 + bit
  BY <1>3
<1> QED BY <1>1, <1>4, <1>5, <1>6

---------------------------------------------------------------------------
(* What the encoder makes of a leaf, a half and two halves. *)

(* What the encoder makes: no operand is too small for its coder, and no match has more
   bits than its coder has classes. *)
Fit(x) == (x.ins = "Match" => IsMatch(x.val)) /\ (x.ins = "Jump" => x.val >= 17)

Fits(n) == \A i \in DOMAIN n : Fit(n[i])

(* The ASNs in a node. *)
Named(n) == {n[i].val : i \in {i \in DOMAIN n : n[i].ins \in {"Return", "Default"}}}

(* A node that is written and read back, and means something in every default. *)
Whole(n) ==
    /\ n \in Code /\ n # EndNode /\ Size(n) \in Nat /\ Size(n) >= 17
    /\ ReadsBack(n) /\ Fits(n) /\ \A d \in Nat : \E t : Means(n, d, t)

(* With what more bits to match can be put in front of. *)
Fine(n) ==
    n # EndNode => /\ Whole(n)
                   /\ Begins(n, {"Match"}) => /\ Whole(Tail(n)) /\ n = MatchNode(n[1].val, Tail(n))
                                              /\ IsMatch(n[1].val)

(* Nothing at all is fine. *)
LEMMA EndFine == Fine(EndNode) /\ Named(EndNode) = {} /\ EndNode \in Code
<1>1. EndNode \in Code /\ DOMAIN EndNode = {}
  BY DEF EndNode, Code
<1> HIDE DEF EndNode
<1> QED BY <1>1 DEF Fine, Named

(* The operands of two lists. *)
LEMMA PartsOfBoth ==
    ASSUME NEW a \in Code, NEW b \in Code, Fits(a), Fits(b)
    PROVE  Fits(a \o b) /\ Named(a \o b) = Named(a) \cup Named(b)
<1> DEFINE s == a \o b
           RD == {"Return", "Default"}
           Where(n) == {i \in DOMAIN n : n[i].ins \in RD}
<1> HIDE DEF RD
<1>1. a \in Seq(Instr) /\ b \in Seq(Instr)
  BY DEF Code
<1>2. /\ Len(a) \in Nat /\ Len(b) \in Nat /\ Len(s) = Len(a) + Len(b)
      /\ DOMAIN s = 1 .. Len(a) + Len(b) /\ DOMAIN a = 1 .. Len(a) /\ DOMAIN b = 1 .. Len(b)
      /\ \A i \in 1 .. Len(a) + Len(b) : s[i] = IF i <= Len(a) THEN a[i] ELSE b[i - Len(a)]
  BY <1>1, ConcatProperties
<1> HIDE DEF s
<1>3. ASSUME NEW i \in DOMAIN s
      PROVE  \/ i \in DOMAIN a /\ s[i] = a[i]
             \/ i - Len(a) \in DOMAIN b /\ s[i] = b[i - Len(a)]
  <2>1. CASE i <= Len(a)
    BY <1>2, <2>1
  <2>2. CASE ~(i <= Len(a))
    BY <1>2, <2>2
  <2> QED BY <2>1, <2>2
<1>4. \A i \in DOMAIN a : i \in DOMAIN s /\ s[i] = a[i]
  BY <1>2
<1>5. ASSUME NEW j \in DOMAIN b PROVE j + Len(a) \in DOMAIN s /\ s[j + Len(a)] = b[j]
  <2>1. j + Len(a) \in 1 .. Len(a) + Len(b) /\ ~(j + Len(a) <= Len(a)) /\ j + Len(a) - Len(a) = j
    BY <1>2
  <2> QED BY <1>2, <2>1
<1>6. Fits(s)
  BY <1>3 DEF Fits
<1>7. ASSUME NEW v \in {s[i].val : i \in Where(s)}
      PROVE  v \in {a[i].val : i \in Where(a)} \cup {b[i].val : i \in Where(b)}
  <2>1. PICK i \in Where(s) : v = s[i].val
    OBVIOUS
  <2>2. i \in DOMAIN s /\ s[i].ins \in RD
    OBVIOUS
  <2>3. CASE i \in DOMAIN a /\ s[i] = a[i]
    BY <2>1, <2>2, <2>3
  <2>4. CASE i - Len(a) \in DOMAIN b /\ s[i] = b[i - Len(a)]
    <3>1. i - Len(a) \in Where(b)
      BY <2>2, <2>4
    <3> QED BY <2>1, <2>4, <3>1
  <2> QED BY <1>3, <2>2, <2>3, <2>4
<1>8. ASSUME NEW v \in {a[i].val : i \in Where(a)} PROVE v \in {s[i].val : i \in Where(s)}
  <2>1. PICK i \in Where(a) : v = a[i].val
    OBVIOUS
  <2>2. i \in Where(s) /\ s[i] = a[i]
    BY <1>4
  <2> QED BY <2>1, <2>2
<1>9. ASSUME NEW v \in {b[i].val : i \in Where(b)} PROVE v \in {s[i].val : i \in Where(s)}
  <2>1. PICK i \in Where(b) : v = b[i].val
    OBVIOUS
  <2>2. i + Len(a) \in Where(s) /\ s[i + Len(a)] = b[i]
    BY <1>5
  <2> QED BY <2>1, <2>2
<1>10. \A n : Named(n) = {n[i].val : i \in Where(n)}
  BY DEF Named, RD
<1> HIDE DEF Where
<1>11. {s[i].val : i \in Where(s)} = {a[i].val : i \in Where(a)} \cup {b[i].val : i \in Where(b)}
  <2> DEFINE A == {a[i].val : i \in Where(a)}
             B == {b[i].val : i \in Where(b)}
             C == {s[i].val : i \in Where(s)}
  <2>1. (\A v \in C : v \in A \cup B) /\ (\A v \in A : v \in C) /\ (\A v \in B : v \in C)
    BY <1>7, <1>8, <1>9
  <2> HIDE DEF A, B, C
  <2>2. C = A \cup B
    BY <2>1
  <2> QED BY <2>2 DEF A, B, C
<1> QED BY <1>6, <1>10, <1>11 DEF s

(* Those of one instruction. *)
LEMMA PartsOfOne ==
    ASSUME NEW x \in Instr
    PROVE  /\ <<x>> \in Code /\ (Fit(x) => Fits(<<x>>))
           /\ x.ins \in {"Return", "Default"} => Named(<<x>>) = {x.val}
           /\ x.ins \notin {"Return", "Default"} => Named(<<x>>) = {}
<1> DEFINE n == <<x>>
<1>1. n \in Code /\ DOMAIN n = {1} /\ n[1] = x
  BY DEF Code
<1> HIDE DEF n
<1>2. Fit(x) => Fits(n)
  BY <1>1 DEF Fits
<1>3. ASSUME x.ins \in {"Return", "Default"} PROVE Named(n) = {x.val}
  <2>1. {i \in DOMAIN n : n[i].ins \in {"Return", "Default"}} = {1}
    BY <1>1, <1>3
  <2> QED BY <1>1, <2>1 DEF Named
<1>4. ASSUME x.ins \notin {"Return", "Default"} PROVE Named(n) = {}
  <2>1. {i \in DOMAIN n : n[i].ins \in {"Return", "Default"}} = {}
    BY <1>1, <1>4
  <2> QED BY <1>1, <2>1 DEF Named
<1> QED BY <1>1, <1>2, <1>3, <1>4 DEF n

(* A leaf. *)
LEMMA LeafFine ==
    ASSUME NEW asn \in Nat
    PROVE  LET n == LeafNode(asn)
           IN  /\ n \in Code /\ n # EndNode /\ Fine(n) /\ Named(n) = {asn}
               /\ \A d \in Nat : Means(n, d, Leaf(asn))
<1> DEFINE size == InsSize("Return") + EncodeSize(CODER_ASN, asn)
           x == [ins |-> "Return", val |-> asn, size |-> size]
           n == <<x>> \o << >>
<1>1. LeafNode(asn) = n
  BY DEF LeafNode, Node
<1>2. size \in Nat /\ size >= 17
  <2>1. InsSize("Return") \in Nat \ {0}
    <3>1. "Return" \in InsNames
      BY DEF InsNames
    <3> QED BY <3>1, InsNameOf
  <2>2. CODER_ASN \in Coders
    BY CodersOfTheCode
  <2>3. EncodeSize(CODER_ASN, asn) \in Nat
    BY <2>2, SizeBound
  <2>4. PICK k \in 1 .. Classes(CODER_ASN) :
           EncodeSize(CODER_ASN, asn) >= CODER_ASN.clsbits[k] + (IF Classes(CODER_ASN) = 1 THEN 0 ELSE 1)
    BY <2>2, SizeBound
  <2>5. Classes(CODER_ASN) = 10 /\ CODER_ASN.clsbits[k] >= 15
    BY <2>4, CoderNumbers
  <2>6. CODER_ASN.clsbits[k] \in Nat
    BY <2>2, CoderShape
  <2> HIDE DEF size
  <2>7. EncodeSize(CODER_ASN, asn) >= 16
    BY <2>3, <2>4, <2>5, <2>6
  <2> QED BY <2>1, <2>3, <2>7 DEF size
<1> HIDE DEF size
<1>3. x \in Instr /\ x.ins = "Return" /\ x.val = asn /\ x.size = size
  BY <1>2 DEF Instr, InsNames
<1>4. x.size = OwnSize(x)
  <2>1. OperandCoder("Return") = CODER_ASN
    BY DEF OperandCoder
  <2> QED BY <1>3, <2>1 DEF OwnSize, size
<1> HIDE DEF x
<1>5. << >> \in Code /\ << >> = EndNode
  BY DEF Code, EndNode
<1>6. /\ n \in Code /\ n # EndNode /\ n[1] = x /\ Size(n) = x.size
      /\ \A ins : Begins(n, ins) <=> x.ins \in ins
  BY <1>3, <1>5, HeadOfNode
<1>7. ReadsBack(n)
  BY <1>1, <1>3, <1>4, LeafReadsBack
<1>8. Fits(n) /\ Named(n) = {asn}
  <2>1. <<x>> \in Code /\ Fits(<<x>>) /\ Named(<<x>>) = {asn}
    BY <1>3, PartsOfOne DEF Fit
  <2>2. Fits(<< >>) /\ Named(<< >>) = {}
    BY <1>5, EndFine DEF Fits
  <2> QED BY <1>5, <2>1, <2>2, PartsOfBoth
<1>9. \A d \in Nat : Means(n, d, Leaf(asn))
  BY <1>3, LeafMeans
<1> HIDE DEF n
<1>10. Whole(n)
  BY <1>2, <1>3, <1>6, <1>7, <1>8, <1>9 DEF Whole
<1>11. ~Begins(n, {"Match"})
  BY <1>3, <1>6
<1> QED BY <1>1, <1>6, <1>8, <1>9, <1>10, <1>11 DEF Fine

(* A match in front of a node. *)
LEMMA MatchFine ==
    ASSUME NEW val, IsMatch(val), NEW s, Whole(s)
    PROVE  LET n == MatchNode(val, s)
           IN  /\ n # EndNode /\ Fine(n) /\ Named(n) = Named(s)
               /\ ~Begins(n, {"Return", "Default"}) /\ n \in Code
               /\ \A d \in Nat : \A t : Means(s, d, t) => Means(n, d, AroundMatch(val, t, d))
<1> DEFINE own == InsSize("Match") + EncodeSize(CODER_MATCH, val)
           size == own + Size(s)
           x == [ins |-> "Match", val |-> val, size |-> size]
           n == <<x>> \o s
<1>0. s \in Code /\ s # EndNode /\ Size(s) \in Nat /\ Size(s) >= 17 /\ ReadsBack(s) /\ Fits(s) /\ val \in Nat
  BY MatchInRange DEF Whole
<1>1. MatchNode(val, s) = n
  BY DEF MatchNode, Node
<1>2. own \in Nat /\ size \in Nat /\ size >= 17
  <2>1. InsSize("Match") \in Nat \ {0}
    <3>1. "Match" \in InsNames
      BY DEF InsNames
    <3> QED BY <3>1, InsNameOf
  <2>2. CODER_MATCH \in Coders
    BY CodersOfTheCode
  <2>3. EncodeSize(CODER_MATCH, val) \in Nat
    BY <1>0, <2>2, SizeBound
  <2>4. own \in Nat
    BY <2>1, <2>3
  <2> HIDE DEF own
  <2> QED BY <1>0, <2>4
<1>3. x \in Instr /\ x.ins = "Match" /\ x.val = val /\ x.size = size
  <2> HIDE DEF size
  <2> QED BY <1>0, <1>2 DEF Instr, InsNames
<1>4. x.size = OwnSize(x) + Size(s)
  <2>1. OperandCoder("Match") = CODER_MATCH
    BY DEF OperandCoder
  <2>2. OwnSize(x) = own
    BY <1>3, <2>1 DEF OwnSize
  <2> QED BY <1>3, <2>2
<1> HIDE DEF x, size, own
<1>6. /\ n \in Code /\ n # EndNode /\ n[1] = x /\ Size(n) = x.size /\ Tail(n) = s
      /\ \A ins : Begins(n, ins) <=> x.ins \in ins
  BY <1>0, <1>3, HeadOfNode
<1>7. ReadsBack(n)
  BY <1>0, <1>1, <1>3, <1>4, OverReadsBack
<1>8. Fits(n) /\ Named(n) = Named(s)
  <2>1. <<x>> \in Code /\ Fits(<<x>>) /\ Named(<<x>>) = {}
    BY <1>3, PartsOfOne DEF Fit
  <2> QED BY <1>0, <2>1, PartsOfBoth
<1>9. \A d \in Nat : \A t : Means(s, d, t) => Means(n, d, AroundMatch(val, t, d))
  BY <1>0, <1>3, MatchMeans
<1> HIDE DEF n
<1>10. Whole(n)
  <2>1. \A d \in Nat : \E t : Means(n, d, t)
    BY <1>9 DEF Whole
  <2> QED BY <1>2, <1>3, <1>6, <1>7, <1>8, <2>1 DEF Whole
<1>11. n[1].val = val /\ ~Begins(n, {"Return", "Default"})
  BY <1>3, <1>6
<1> QED BY <1>1, <1>6, <1>8, <1>9, <1>10, <1>11 DEF Fine

(* One more bit to match. *)
LEMMA MatchBitFine ==
    ASSUME NEW bit \in {0, 1}, NEW s, Fine(s), s # EndNode
    PROVE  LET n == MatchBit(bit, s)
           IN  /\ n # EndNode /\ Fine(n) /\ Named(n) = Named(s)
               /\ ~Begins(n, {"Return", "Default"}) /\ n \in Code
               /\ \A d \in Nat : \A t : Means(s, d, t) => Means(n, d, HalfOf(bit, t, d))
<1>1. CASE Begins(s, {"Match"}) /\ s[1].val <= MergeMax
  <2> DEFINE val == s[1].val
             tail == Tail(s)
             more == val + (bit + 1) * TopBit(val)
  <2>1. Whole(tail) /\ s = MatchNode(val, tail) /\ IsMatch(val) /\ s \in Code
    BY <1>1 DEF Fine, Whole
  <2> HIDE DEF val, tail
  <2>2. PICK m \in 1 .. MATCH_CLASSES : val \in Room(m) .. Room(m + 1) - 1
    BY <2>1 DEF IsMatch
  <2>3. m \in Nat /\ MATCH_CLASSES \in Nat
    BY MatchAssumption
  <2>4. /\ more \in Room(m + 1) .. Room(m + 2) - 1
        /\ \A sub, d : AroundMatch(more, sub, d) = HalfOf(bit, AroundMatch(val, sub, d), d)
    BY <2>2, <2>3, MatchGrows
  <2>5. m + 1 \in 1 .. MATCH_CLASSES
    <3>1. val <= Room(MATCH_CLASSES) - 1
      BY <1>1 DEF val, MergeMax
    <3>2. SUFFICES ASSUME m = MATCH_CLASSES PROVE FALSE
      BY <2>2, <2>3
    <3>3. Room(m) <= val /\ Room(m) \in Nat /\ val \in Int
      BY <2>2, <2>3, RoomDoubles
    <3> QED BY <3>1, <3>2, <3>3
  <2>6. IsMatch(more)
    <3>1. m + 1 + 1 = m + 2
      BY <2>3
    <3> HIDE DEF more
    <3> QED BY <2>4, <2>5, <3>1 DEF IsMatch
  <2> HIDE DEF more
  <2>7. /\ Named(s) = Named(tail)
        /\ \A d \in Nat : \A t : Means(tail, d, t) => Means(s, d, AroundMatch(val, t, d))
    BY <2>1, MatchFine
  <2> DEFINE n == MatchNode(more, tail)
  <2>8. /\ n # EndNode /\ Fine(n) /\ Named(n) = Named(tail)
        /\ ~Begins(n, {"Return", "Default"}) /\ n \in Code
        /\ \A d \in Nat : \A t : Means(tail, d, t) => Means(n, d, AroundMatch(more, t, d))
    BY <2>1, <2>6, MatchFine
  <2>9. MatchBit(bit, s) = n
    BY <1>1 DEF MatchBit, more, val, tail
  <2> HIDE DEF n
  <2>10. ASSUME NEW d \in Nat, NEW t, Means(s, d, t) PROVE Means(n, d, HalfOf(bit, t, d))
    <3>1. PICK u : Means(tail, d, u)
      BY <2>1 DEF Whole
    <3>2. Means(s, d, AroundMatch(val, u, d))
      BY <2>7, <3>1
    <3>3. t = AroundMatch(val, u, d)
      BY <2>1, <2>10, <3>2, OneMeaning
    <3>4. Means(n, d, AroundMatch(more, u, d))
      BY <2>8, <3>1
    <3> QED BY <2>4, <3>3, <3>4
  <2> QED BY <2>7, <2>8, <2>9, <2>10
<1>2. CASE ~(Begins(s, {"Match"}) /\ s[1].val <= MergeMax)
  <2> DEFINE n == MatchNode(2 + bit, s)
  <2>1. /\ 2 + bit \in Room(1) .. Room(2) - 1
        /\ \A sub, d : AroundMatch(2 + bit, sub, d) = HalfOf(bit, sub, d)
    BY MatchOne
  <2>2. IsMatch(2 + bit)
    <3>1. 1 \in 1 .. MATCH_CLASSES /\ 1 + 1 = 2
      BY MatchAssumption
    <3> QED BY <2>1, <3>1 DEF IsMatch
  <2>3. Whole(s)
    BY DEF Fine
  <2>4. /\ n # EndNode /\ Fine(n) /\ Named(n) = Named(s)
        /\ ~Begins(n, {"Return", "Default"}) /\ n \in Code
        /\ \A d \in Nat : \A t : Means(s, d, t) => Means(n, d, AroundMatch(2 + bit, t, d))
    BY <2>2, <2>3, MatchFine
  <2>5. MatchBit(bit, s) = n
    BY <1>2 DEF MatchBit
  <2> HIDE DEF n
  <2> QED BY <2>1, <2>4, <2>5
<1> QED BY <1>1, <1>2

(* Two halves. *)
LEMMA BranchFine ==
    ASSUME NEW l \in Code, Fine(l), NEW r \in Code, Fine(r)
    PROVE  LET n == BranchNode(l, r)
           IN  /\ n \in Code /\ Fine(n) /\ Named(n) = Named(l) \cup Named(r)
               /\ ~Begins(n, {"Return", "Default"})
               /\ \A d \in Nat : \A t, u :
                     Means(l, d, t) /\ Means(r, d, u) => Means(n, d, Branch(t, u))
<1>1. CASE l = EndNode /\ r = EndNode
  <2>1. BranchNode(l, r) = EndNode
    BY <1>1 DEF BranchNode
  <2>2. ~Begins(EndNode, {"Return", "Default"})
    BY DEF Begins, EndNode
  <2>3. ASSUME NEW d \in Nat, NEW t, NEW u, Means(l, d, t), Means(r, d, u)
        PROVE  Means(EndNode, d, Branch(t, u))
    <3>1. t = Leaf(d) /\ u = Leaf(d)
      BY <1>1, <2>3 DEF Means
    <3>2. Branch(t, u) = Leaf(d)
      BY <3>1 DEF Branch, Leaf, IsLeaf
    <3> QED BY <3>2 DEF Means
  <2> QED BY <1>1, <2>1, <2>2, <2>3, EndFine
<1>2. CASE l = EndNode /\ r # EndNode
  <2> DEFINE n == MatchBit(1, r)
  <2>1. BranchNode(l, r) = n
    BY <1>2 DEF BranchNode
  <2>2. /\ Fine(n) /\ Named(n) = Named(r) /\ ~Begins(n, {"Return", "Default"}) /\ n \in Code
        /\ \A d \in Nat : \A t : Means(r, d, t) => Means(n, d, HalfOf(1, t, d))
    BY <1>2, MatchBitFine
  <2> HIDE DEF n
  <2>3. ASSUME NEW d \in Nat, NEW t, NEW u, Means(l, d, t), Means(r, d, u)
        PROVE  Means(n, d, Branch(t, u))
    <3>1. t = Leaf(d)
      BY <1>2, <2>3 DEF Means
    <3>2. HalfOf(1, u, d) = Branch(t, u)
      BY <3>1 DEF HalfOf
    <3> QED BY <2>2, <2>3, <3>2
  <2> QED BY <1>2, <2>1, <2>2, <2>3, EndFine
<1>3. CASE l # EndNode /\ r = EndNode
  <2> DEFINE n == MatchBit(0, l)
  <2>1. BranchNode(l, r) = n
    BY <1>3 DEF BranchNode
  <2>2. /\ Fine(n) /\ Named(n) = Named(l) /\ ~Begins(n, {"Return", "Default"}) /\ n \in Code
        /\ \A d \in Nat : \A t : Means(l, d, t) => Means(n, d, HalfOf(0, t, d))
    BY <1>3, MatchBitFine
  <2> HIDE DEF n
  <2>3. ASSUME NEW d \in Nat, NEW t, NEW u, Means(l, d, t), Means(r, d, u)
        PROVE  Means(n, d, Branch(t, u))
    <3>1. u = Leaf(d)
      BY <1>3, <2>3 DEF Means
    <3>2. HalfOf(0, t, d) = Branch(t, u)
      BY <3>1 DEF HalfOf
    <3> QED BY <2>2, <2>3, <3>2
  <2> QED BY <1>3, <2>1, <2>2, <2>3, EndFine
<1>4. CASE l # EndNode /\ r # EndNode
  <2> DEFINE own == InsSize("Jump") + EncodeSize(CODER_JUMP, Size(l))
             size == own + Size(l) + Size(r)
             x == [ins |-> "Jump", val |-> Size(l), size |-> size]
             s == l \o r
             n == <<x>> \o s
  <2>1. /\ Size(l) \in Nat /\ Size(l) >= 17 /\ ReadsBack(l) /\ Fits(l)
        /\ Size(r) \in Nat /\ Size(r) >= 17 /\ ReadsBack(r) /\ Fits(r)
    BY <1>4 DEF Fine, Whole
  <2>2. BranchNode(l, r) = n
    BY <1>4 DEF BranchNode, Node
  <2>3. own \in Nat
    <3>1. InsSize("Jump") \in Nat \ {0}
      <4>1. "Jump" \in InsNames
        BY DEF InsNames
      <4> QED BY <4>1, InsNameOf
    <3>2. CODER_JUMP \in Coders
      BY CodersOfTheCode
    <3>3. EncodeSize(CODER_JUMP, Size(l)) \in Nat
      BY <2>1, <3>2, SizeBound
    <3> QED BY <3>1, <3>3
  <2>4. size \in Nat /\ size >= 17
    <3> HIDE DEF own
    <3> QED BY <2>1, <2>3
  <2>5. x \in Instr /\ x.ins = "Jump" /\ x.val = Size(l) /\ x.size = size
    <3> HIDE DEF size
    <3> QED BY <2>1, <2>4 DEF Instr, InsNames
  <2>6. x.size = OwnSize(x) + Size(l) + Size(r)
    <3>1. OperandCoder("Jump") = CODER_JUMP
      BY DEF OperandCoder
    <3>2. OwnSize(x) = own
      BY <2>5, <3>1 DEF OwnSize
    <3> QED BY <2>5, <3>2
  <2> HIDE DEF x, size, own
  <2>7. s \in Code /\ Fits(s) /\ Named(s) = Named(l) \cup Named(r)
    BY <2>1, CodeJoin, PartsOfBoth
  <2>8. ReadsBack(n)
    BY <2>1, <2>2, <2>5, <2>6, JumpReadsBack
  <2>9. \A d \in Nat : \A t, u : Means(l, d, t) /\ Means(r, d, u) => Means(n, d, Branch(t, u))
    BY <1>4, <2>5, JumpMeans
  <2> HIDE DEF s
  <2>10. /\ n \in Code /\ n # EndNode /\ n[1] = x /\ Size(n) = x.size
         /\ \A ins : Begins(n, ins) <=> x.ins \in ins
    BY <2>5, <2>7, HeadOfNode
  <2>11. Fits(n) /\ Named(n) = Named(s)
    <3>1. <<x>> \in Code /\ Fits(<<x>>) /\ Named(<<x>>) = {}
      BY <2>1, <2>5, PartsOfOne DEF Fit
    <3> QED BY <2>7, <3>1, PartsOfBoth
  <2> HIDE DEF n
  <2>12. \A d \in Nat : \E t : Means(n, d, t)
    <3> TAKE d \in Nat
    <3>1. (\E t : Means(l, d, t)) /\ (\E u : Means(r, d, u))
      BY <1>4 DEF Fine, Whole
    <3> QED BY <2>9, <3>1
  <2>13. Whole(n)
    BY <2>4, <2>5, <2>8, <2>10, <2>11, <2>12 DEF Whole
  <2>14. ~Begins(n, {"Match"}) /\ ~Begins(n, {"Return", "Default"})
    BY <2>5, <2>10
  <2> QED BY <2>2, <2>7, <2>9, <2>10, <2>11, <2>13, <2>14 DEF Fine
<1> QED BY <1>1, <1>2, <1>3, <1>4

(* A default over a node that is no leaf and no default. *)
LEMMA DefaultFine ==
    ASSUME NEW asn \in Nat, NEW s \in Code, Fine(s), ~Begins(s, {"Return", "Default"})
    PROVE  LET n == DefaultNode(asn, s)
           IN  /\ n \in Code /\ Fine(n) /\ Named(n) = {asn} \cup Named(s)
               /\ \A d \in Nat : \A t : Means(s, asn, t) => Means(n, d, t)
<1>1. CASE s = EndNode
  <2> DEFINE n == LeafNode(asn)
  <2>1. DefaultNode(asn, s) = n
    BY <1>1 DEF DefaultNode
  <2>2. n \in Code /\ Fine(n) /\ Named(n) = {asn} /\ \A d \in Nat : Means(n, d, Leaf(asn))
    BY LeafFine
  <2> HIDE DEF n
  <2>3. \A t : Means(s, asn, t) => t = Leaf(asn)
    BY <1>1 DEF Means
  <2> QED BY <1>1, <2>1, <2>2, <2>3, EndFine
<1>2. CASE s # EndNode
  <2> DEFINE own == InsSize("Default") + EncodeSize(CODER_ASN, asn)
             size == own + Size(s)
             x == [ins |-> "Default", val |-> asn, size |-> size]
             n == <<x>> \o s
  <2>0. Size(s) \in Nat /\ Size(s) >= 17 /\ ReadsBack(s) /\ Fits(s)
    BY <1>2 DEF Fine, Whole
  <2>1. DefaultNode(asn, s) = n
    BY <1>2 DEF DefaultNode, Node
  <2>2. own \in Nat /\ size \in Nat /\ size >= 17
    <3>1. InsSize("Default") \in Nat \ {0}
      <4>1. "Default" \in InsNames
        BY DEF InsNames
      <4> QED BY <4>1, InsNameOf
    <3>2. CODER_ASN \in Coders
      BY CodersOfTheCode
    <3>3. EncodeSize(CODER_ASN, asn) \in Nat
      BY <3>2, SizeBound
    <3>4. own \in Nat
      BY <3>1, <3>3
    <3> HIDE DEF own
    <3> QED BY <2>0, <3>4
  <2>3. x \in Instr /\ x.ins = "Default" /\ x.val = asn /\ x.size = size
    <3> HIDE DEF size
    <3> QED BY <2>2 DEF Instr, InsNames
  <2>4. x.size = OwnSize(x) + Size(s)
    <3>1. OperandCoder("Default") = CODER_ASN
      BY DEF OperandCoder
    <3>2. OwnSize(x) = own
      BY <2>3, <3>1 DEF OwnSize
    <3> QED BY <2>3, <3>2
  <2> HIDE DEF x, size, own
  <2>5. /\ n \in Code /\ n # EndNode /\ n[1] = x /\ Size(n) = x.size
        /\ \A ins : Begins(n, ins) <=> x.ins \in ins
    BY <2>3, HeadOfNode
  <2>6. ReadsBack(n)
    BY <2>0, <2>1, <2>3, <2>4, OverReadsBack
  <2>7. Fits(n) /\ Named(n) = {asn} \cup Named(s)
    <3>1. <<x>> \in Code /\ Fits(<<x>>) /\ Named(<<x>>) = {asn}
      BY <2>3, PartsOfOne DEF Fit
    <3> QED BY <2>0, <3>1, PartsOfBoth
  <2>8. \A d \in Nat : \A t : Means(s, asn, t) => Means(n, d, t)
    BY <1>2, <2>3, DefaultMeans
  <2> HIDE DEF n
  <2>9. \A d \in Nat : \E t : Means(n, d, t)
    <3>1. \E t : Means(s, asn, t)
      BY <1>2 DEF Fine, Whole
    <3> QED BY <2>8, <3>1
  <2>10. Whole(n) /\ ~Begins(n, {"Match"})
    BY <2>2, <2>3, <2>5, <2>6, <2>7, <2>9 DEF Whole
  <2> QED BY <2>1, <2>5, <2>7, <2>8, <2>10 DEF Fine
<1> QED BY <1>1, <1>2

---------------------------------------------------------------------------
(* The search of to_binnode. *)

(* The search of to_binnode, as far as which nodes it chooses from. *)
FineCode == {n \in Code : Fine(n)}

(* What it keeps of a subtree: fine nodes by their contexts. *)
NodeContexts == {x \in [enc : UNION {[D -> FineCode] : D \in SUBSET Context}, hole : BOOLEAN] :
                    IsFiniteSet(DOMAIN x.enc)}

(* What that is made of. *)
LEMMA NodeContextsType ==
    ASSUME NEW x \in NodeContexts
    PROVE  /\ x.hole \in BOOLEAN /\ IsFiniteSet(DOMAIN x.enc) /\ DOMAIN x.enc \subseteq Context
           /\ x.enc \in [DOMAIN x.enc -> FineCode]
BY DEF NodeContexts

(* And what makes it. *)
LEMMA NodeContextsIntro ==
    ASSUME NEW D \in SUBSET Context, IsFiniteSet(D), NEW enc \in [D -> FineCode],
           NEW hole \in BOOLEAN
    PROVE  [enc |-> enc, hole |-> hole] \in NodeContexts
BY DEF NodeContexts

(* Best takes one of the nodes. *)
LEMMA BestNode ==
    ASSUME NEW candidates \in Seq(FineCode), candidates # << >>
    PROVE  Best(candidates, Size) \in Range(candidates)
<1> DEFINE sizes == [i \in DOMAIN candidates |-> Size(candidates[i])]
<1>1. Best(candidates, Size) = Smallest(candidates, sizes)
  BY TabulatedIsSame DEF Best
<1>2. \A n \in FineCode : Size(n) \in Nat
  BY DEF FineCode, Fine, Whole, Size, EndNode
<1>3. \A i \in DOMAIN candidates : candidates[i] \in FineCode
  OBVIOUS
<1>4. sizes \in [DOMAIN candidates -> Nat]
  BY <1>2, <1>3
<1> HIDE DEF sizes
<1>5. PICK i \in DOMAIN candidates : Smallest(candidates, sizes) = candidates[i]
  BY <1>4, SmallestIsLeast
<1> QED BY <1>1, <1>5 DEF Range

(* The pairs that the search tries. *)
LEMMA NodePairs ==
    ASSUME NEW left, left \in [DOMAIN left -> FineCode],
           NEW right, right \in [DOMAIN right -> FineCode], NEW c
    PROVE  LET pairs == PairsIn(left, right, c, BranchNode)
           IN  /\ pairs \in Seq(FineCode)
               /\ Range(pairs) = {BranchNode(left[q[1]], right[q[2]]) : q \in Mates(left, right, c)}
               /\ pairs = << >> <=> Mates(left, right, c) = {}
<1> DEFINE W == FineCode
           Pair(a, b) == IF a \in DOMAIN left /\ b \in DOMAIN right
                         THEN <<BranchNode(left[a], right[b])>> ELSE << >>
           Some1(a, b) == IF a \in DOMAIN left /\ b \in DOMAIN right
                          THEN {BranchNode(left[a], right[b])} ELSE {}
           pairs == PairsIn(left, right, c, BranchNode)
<1>1. pairs = Pair(c, c) \o Pair(NoAsn, c) \o Pair(c, NoAsn)
  BY DEF PairsIn
<1>0. \A l, r \in FineCode : BranchNode(l, r) \in FineCode
  BY BranchFine DEF FineCode
<1>2. ASSUME NEW a, NEW b
      PROVE  Pair(a, b) \in Seq(W) /\ Range(Pair(a, b)) = Some1(a, b)
  <2>1. CASE a \in DOMAIN left /\ b \in DOMAIN right
    <3> DEFINE x == BranchNode(left[a], right[b])
    <3>1. x \in W
      BY <1>0, <2>1
    <3>2. Pair(a, b) = <<x>> /\ Some1(a, b) = {x}
      BY <2>1
    <3> HIDE DEF W, Pair, Some1, x, pairs
    <3>3. <<x>> \in Seq(W)
      BY <3>1
    <3> QED BY <3>2, <3>3, RangeOfOne
  <2>2. CASE ~(a \in DOMAIN left /\ b \in DOMAIN right)
    <3>1. Pair(a, b) = << >> /\ Some1(a, b) = {}
      BY <2>2
    <3> HIDE DEF W, Pair, Some1, pairs
    <3>2. << >> \in Seq(W)
      OBVIOUS
    <3> QED BY <3>1, <3>2, RangeOfOne
  <2> QED BY <2>1, <2>2
<1> HIDE DEF pairs, Pair, W
<1>3. /\ Pair(c, c) \o Pair(NoAsn, c) \in Seq(W)
      /\ Range(Pair(c, c) \o Pair(NoAsn, c)) = Some1(c, c) \cup Some1(NoAsn, c)
  <2> HIDE DEF Some1
  <2>1. /\ Pair(c, c) \in Seq(W) /\ Range(Pair(c, c)) = Some1(c, c)
        /\ Pair(NoAsn, c) \in Seq(W) /\ Range(Pair(NoAsn, c)) = Some1(NoAsn, c)
    BY <1>2
  <2> QED BY ONLY <2>1, RangeOfBoth
<1>4. /\ pairs \in Seq(W)
      /\ Range(pairs) = Some1(c, c) \cup Some1(NoAsn, c) \cup Some1(c, NoAsn)
  <2> DEFINE two == Pair(c, c) \o Pair(NoAsn, c)
  <2>1. two \in Seq(W) /\ pairs = two \o Pair(c, NoAsn)
    BY <1>1, <1>3
  <2>2. Range(two) = Some1(c, c) \cup Some1(NoAsn, c)
    BY <1>3
  <2> HIDE DEF two
  <2>3. pairs \in Seq(W) /\ Range(pairs) = Range(two) \cup Range(Pair(c, NoAsn))
    BY <1>2, <2>1, RangeOfBoth
  <2> QED BY <1>2, <2>2, <2>3
<1>5. Range(pairs) = {BranchNode(left[q[1]], right[q[2]]) : q \in Mates(left, right, c)}
  <2> DEFINE Sum(q) == BranchNode(left[q[1]], right[q[2]])
             Suit(q) == q[1] \in DOMAIN left /\ q[2] \in DOMAIN right
  <2>1. \A a, b : Some1(a, b) = IF Suit(<<a, b>>) THEN {Sum(<<a, b>>)} ELSE {}
    OBVIOUS
  <2>2. Mates(left, right, c) = {q \in {<<c, c>>, <<NoAsn, c>>, <<c, NoAsn>>} : Suit(q)}
    BY DEF Mates
  <2> HIDE DEF Some1, Sum, Suit
  <2>3. Range(pairs) = {Sum(q) : q \in Mates(left, right, c)}
    BY <1>4, <2>1, <2>2
  <2> QED BY <2>3 DEF Sum
<1>6. pairs = << >> <=> Range(pairs) = {}
  <2>1. pairs \in Seq(W)
    BY <1>4
  <2>2. DOMAIN pairs = 1 .. Len(pairs) /\ Len(pairs) \in Nat /\ (pairs = << >> <=> Len(pairs) = 0)
    BY ONLY <2>1
  <2>3. Range(pairs) = {} <=> DOMAIN pairs = {}
    BY DEF Range
  <2> QED BY ONLY <2>2, <2>3
<1>7. Range(pairs) = {} <=> Mates(left, right, c) = {}
  BY <1>5
<1> QED BY <1>4, <1>5, <1>6, <1>7 DEF pairs, W

(* What the search makes of two halves. *)
MergeNodes(left, right, fill) ==
    BranchContexts(left, right, fill, BranchNode, DefaultNode, Size)

JoinedNodes(left, right) == Joined(left, right, BranchNode, Size)

NodeDefaults(joined, hole) == WithDefaults(joined, hole, DefaultNode, Size)

(* In each context one of the branches of the halves. *)
Branches(left, right, joined) ==
    /\ DOMAIN joined = {c \in DOMAIN left \cup DOMAIN right : Mates(left, right, c) # {}}
    /\ \A c \in DOMAIN joined : \E q \in Mates(left, right, c) :
          joined[c] = BranchNode(left[q[1]], right[q[2]])

(* What stands alone: as it is or, where nothing is a hole, under a default. *)
LoneNode(hole, joined, n) ==
    \/ NoAsn \in DOMAIN joined /\ n = joined[NoAsn]
    \/ ~hole /\ \E c \in DOMAIN joined \ {NoAsn} : n = DefaultNode(c, joined[c])

(* What is kept of that. *)
KeptNodes(hole, joined, enc) ==
    /\ NoAsn \in DOMAIN enc <=> NoAsn \in DOMAIN joined \/ (~hole /\ DOMAIN joined \ {NoAsn} # {})
    /\ NoAsn \in DOMAIN enc => LoneNode(hole, joined, enc[NoAsn])
    /\ \A c \in Nat \cap DOMAIN enc : c \in DOMAIN joined /\ enc[c] = joined[c] /\ (hole => c = 0)
    /\ \A c \in Nat : c \in DOMAIN joined /\ (hole => c = 0) /\ NoAsn \notin DOMAIN enc => c \in DOMAIN enc

(* In each context the search takes one of the branches. *)
LEMMA JoinedAreBranches ==
    ASSUME NEW left, left \in [DOMAIN left -> FineCode],
           NEW right, right \in [DOMAIN right -> FineCode]
    PROVE  LET joined == JoinedNodes(left, right)
           IN  /\ Branches(left, right, joined)
               /\ joined \in [DOMAIN joined -> FineCode]
               /\ \A c \in DOMAIN joined : ~Begins(joined[c], {"Return", "Default"})
<1> DEFINE Pairs(c) == PairsIn(left, right, c, BranchNode)
           pairs == Tabulated([c \in DOMAIN left \cup DOMAIN right |->
                                  PairsIn(left, right, c, BranchNode)])
           joined == JoinedNodes(left, right)
<1>1. pairs = [c \in DOMAIN left \cup DOMAIN right |-> Pairs(c)]
  BY TabulatedIsSame
<1>2. joined = [c \in {c \in DOMAIN pairs : pairs[c] # << >>} |-> Best(pairs[c], Size)]
  <2>1. joined = Tabulated([c \in {c \in DOMAIN pairs : pairs[c] # << >>} |-> Best(pairs[c], Size)])
    BY DEF JoinedNodes, Joined
  <2> HIDE DEF pairs, joined
  <2> QED BY <2>1, TabulatedIsSame
<1>3. ASSUME NEW c
      PROVE  /\ Pairs(c) \in Seq(FineCode)
             /\ Range(Pairs(c)) = {BranchNode(left[q[1]], right[q[2]]) : q \in Mates(left, right, c)}
             /\ Pairs(c) = << >> <=> Mates(left, right, c) = {}
  BY NodePairs
<1> HIDE DEF Pairs, pairs, joined
<1>5. DOMAIN joined = {c \in DOMAIN left \cup DOMAIN right : Mates(left, right, c) # {}}
  BY <1>1, <1>2, <1>3
<1>6. ASSUME NEW c \in DOMAIN joined PROVE joined[c] \in Range(Pairs(c))
  <2>1. joined[c] = Best(Pairs(c), Size) /\ Pairs(c) # << >>
    BY <1>1, <1>2, <1>6
  <2> QED BY <1>3, <2>1, BestNode
<1>7. ASSUME NEW c \in DOMAIN joined
      PROVE  /\ \E q \in Mates(left, right, c) : joined[c] = BranchNode(left[q[1]], right[q[2]])
             /\ joined[c] \in FineCode /\ ~Begins(joined[c], {"Return", "Default"})
  <2>1. PICK q \in Mates(left, right, c) : joined[c] = BranchNode(left[q[1]], right[q[2]])
    BY <1>3, <1>6
  <2>2. q[1] \in DOMAIN left /\ q[2] \in DOMAIN right
    BY DEF Mates
  <2> DEFINE l == left[q[1]]
             r == right[q[2]]
  <2>3. l \in FineCode /\ r \in FineCode
    BY <2>2
  <2> HIDE DEF l, r
  <2>4. BranchNode(l, r) \in FineCode /\ ~Begins(BranchNode(l, r), {"Return", "Default"})
    BY <2>3, BranchFine DEF FineCode
  <2> QED BY <2>1, <2>4 DEF l, r
<1>8. joined = [c \in DOMAIN joined |-> joined[c]]
  BY <1>2
<1> QED BY <1>5, <1>7, <1>8 DEF Branches, joined

(* What stands alone is one of what can. *)
LEMMA LoneNodes ==
    ASSUME NEW hole \in BOOLEAN, NEW joined,
           joined \in [DOMAIN joined -> FineCode], DOMAIN joined \subseteq Context,
           IsFiniteSet(DOMAIN joined),
           \A c \in DOMAIN joined : ~Begins(joined[c], {"Return", "Default"})
    PROVE  LET enc == NodeDefaults(joined, hole)
           IN  /\ NoAsn \in DOMAIN enc <=>
                     NoAsn \in DOMAIN joined \/ (~hole /\ DOMAIN joined \ {NoAsn} # {})
               /\ NoAsn \in DOMAIN enc => LoneNode(hole, joined, enc[NoAsn])
               /\ \A c \in Nat : c \in DOMAIN enc <=> c \in DOMAIN joined
               /\ \A c \in DOMAIN joined \cap Nat : enc[c] = joined[c]
               /\ enc \in [DOMAIN enc -> FineCode] /\ DOMAIN enc \subseteq {NoAsn} \cup DOMAIN joined
<1> DEFINE numbers == DOMAIN joined \ {NoAsn}
           asns == Ascending(DOMAIN joined \ {NoAsn})
           W == FineCode
           covers == IF hole THEN << >>
                     ELSE [i \in DOMAIN asns |-> DefaultNode(asns[i], joined[asns[i]])]
           first == IF NoAsn \in DOMAIN joined THEN <<joined[NoAsn]>> ELSE << >>
           alone == first \o covers
           enc == NodeDefaults(joined, hole)
<1>20. enc = IF alone = << >> THEN joined
             ELSE [c \in {NoAsn} \cup DOMAIN joined |->
                      IF c = NoAsn THEN Best(alone, Size) ELSE joined[c]]
  <2>1. enc = IF alone = << >> THEN joined
              ELSE Tabulated([c \in {NoAsn} \cup DOMAIN joined |->
                                 IF c = NoAsn THEN Best(alone, Size) ELSE joined[c]])
    BY DEF NodeDefaults, WithDefaults
  <2> HIDE DEF enc, alone
  <2> QED BY <2>1, TabulatedIsSame
<1> HIDE DEF enc
<1>1. numbers \in SUBSET Nat /\ IsFiniteSet(numbers)
  <2>1. numbers \in SUBSET Nat
    BY DEF Context
  <2>2. numbers \in SUBSET DOMAIN joined
    OBVIOUS
  <2> QED BY <2>1, <2>2, FS_Subset
<1>2. asns \in Seq(numbers) /\ Range(asns) = numbers
  BY <1>1, AscendingLists
<1> HIDE DEF asns
<1>3. \A c \in numbers : DefaultNode(c, joined[c]) \in W
  <2> SUFFICES ASSUME NEW c \in numbers PROVE DefaultNode(c, joined[c]) \in W
    OBVIOUS
  <2>1. c \in Nat /\ joined[c] \in Code /\ Fine(joined[c]) /\ ~Begins(joined[c], {"Return", "Default"})
    BY <1>1 DEF FineCode
  <2> QED BY <2>1, DefaultFine DEF FineCode
<1> HIDE DEF W
<1>4. /\ covers \in Seq(W)
      /\ Range(covers) = IF hole THEN {} ELSE {DefaultNode(c, joined[c]) : c \in numbers}
  <2>1. CASE hole
    BY <2>1, RangeOfOne
  <2>2. CASE ~hole
    <3> DEFINE n == Len(asns)
               Cov(c) == DefaultNode(c, joined[c])
    <3>1. n \in Nat /\ DOMAIN asns = 1 .. n /\ \A i \in 1 .. n : asns[i] \in numbers
      BY <1>2
    <3>2. covers = [i \in 1 .. n |-> Cov(asns[i])]
      BY <2>2, <3>1
    <3>0. \A c \in numbers : Cov(c) \in W
      BY <1>3
    <3> HIDE DEF covers, n, numbers, Cov
    <3>3. covers \in [1 .. n -> W]
      BY <3>0, <3>1, <3>2
    <3>4. covers \in Seq(W)
      BY <3>1, <3>3
    <3>5. Range(covers) = {Cov(asns[i]) : i \in 1 .. n}
      BY <3>2 DEF Range
    <3>6. numbers = {asns[i] : i \in 1 .. n}
      BY <1>2, <3>1 DEF Range
    <3>7. Range(covers) = {Cov(c) : c \in numbers}
      BY <3>5, <3>6
    <3> QED BY <2>2, <3>4, <3>7 DEF Cov
  <2> QED BY <2>1, <2>2
<1>5. /\ first \in Seq(W)
      /\ Range(first) = IF NoAsn \in DOMAIN joined THEN {joined[NoAsn]} ELSE {}
  <2>1. CASE NoAsn \in DOMAIN joined
    <3> DEFINE x == joined[NoAsn]
    <3>1. x \in W /\ first = <<x>>
      BY <2>1 DEF W
    <3> HIDE DEF x, first
    <3>2. first \in Seq(W) /\ Range(first) = {x}
      BY <3>1, RangeOfOne
    <3> QED BY <2>1, <3>2 DEF x
  <2>2. CASE NoAsn \notin DOMAIN joined
    BY <2>2, RangeOfOne
  <2> QED BY <2>1, <2>2
<1> HIDE DEF covers, first, numbers
<1>6. alone \in Seq(W) /\ Range(alone) = Range(first) \cup Range(covers)
  BY ONLY <1>4, <1>5, RangeOfBoth
<1> HIDE DEF alone
<1>7. alone = << >> <=> Range(alone) = {}
  <2>1. DOMAIN alone = 1 .. Len(alone) /\ Len(alone) \in Nat /\ (alone = << >> <=> Len(alone) = 0)
    BY ONLY <1>6
  <2>2. Range(alone) = {} <=> DOMAIN alone = {}
    BY DEF Range
  <2> QED BY ONLY <2>1, <2>2
<1>8. alone = << >> <=> ~ (NoAsn \in DOMAIN joined \/ (~hole /\ numbers # {}))
  <2>1. Range(first) = {} <=> NoAsn \notin DOMAIN joined
    BY ONLY <1>5
  <2>2. Range(covers) = {} <=> hole \/ numbers = {}
    BY ONLY <1>4
  <2>3. Range(alone) = {} <=> Range(first) = {} /\ Range(covers) = {}
    BY ONLY <1>6
  <2> QED BY ONLY <1>7, <2>1, <2>2, <2>3
<1>9. ASSUME alone # << >>
      PROVE  LoneNode(hole, joined, Best(alone, Size)) /\ Best(alone, Size) \in W
  <2> DEFINE best == Best(alone, Size)
  <2>1. best \in Range(alone)
    BY <1>6, <1>9, BestNode DEF W
  <2> HIDE DEF best
  <2>2. best \in W
    <3>1. PICK i \in DOMAIN alone : best = alone[i]
      BY <2>1 DEF Range
    <3> QED BY <1>6, <3>1
  <2>3. LoneNode(hole, joined, best)
    BY <1>4, <1>5, <1>6, <2>1 DEF LoneNode, numbers
  <2> QED BY <2>2, <2>3 DEF best
<1>10. \A c \in Nat : c # NoAsn
  BY DEF NoAsn
<1>11. /\ NoAsn \in DOMAIN enc <=> NoAsn \in DOMAIN joined \/ alone # << >>
       /\ alone # << >> => enc[NoAsn] = Best(alone, Size)
       /\ \A c \in Nat : c \in DOMAIN enc <=> c \in DOMAIN joined
       /\ \A c \in DOMAIN joined \cap Nat : enc[c] = joined[c]
       /\ enc \in [DOMAIN enc -> FineCode] /\ DOMAIN enc \subseteq {NoAsn} \cup DOMAIN joined
  <2>1. CASE alone = << >>
    BY <1>10, <1>20, <2>1
  <2>2. CASE alone # << >>
    <3> DEFINE b == Best(alone, Size)
    <3>1. b \in FineCode
      BY <1>9, <2>2 DEF W
    <3>2. enc = [c \in {NoAsn} \cup DOMAIN joined |-> IF c = NoAsn THEN b ELSE joined[c]]
      BY <1>20, <2>2
    <3> HIDE DEF b
    <3>3. enc \in [DOMAIN enc -> FineCode] /\ DOMAIN enc = {NoAsn} \cup DOMAIN joined
      BY <3>1, <3>2
    <3>4. enc[NoAsn] = b
      BY <3>2
    <3> QED BY <1>10, <2>2, <3>2, <3>3, <3>4 DEF b
  <2> QED BY <2>1, <2>2
<1> QED BY <1>8, <1>9, <1>11 DEF enc, numbers

(* Together: what the search makes of two halves. *)
LEMMA NodeMerge ==
    ASSUME NEW left \in NodeContexts, NEW right \in NodeContexts, NEW fill \in BOOLEAN
    PROVE  LET x == MergeNodes(left, right, fill)
           IN  /\ x \in NodeContexts /\ x.hole = (~fill /\ (left.hole \/ right.hole))
               /\ \E joined : /\ joined \in [DOMAIN joined -> FineCode]
                              /\ DOMAIN joined \subseteq Context
                              /\ \A c \in DOMAIN joined : ~Begins(joined[c], {"Return", "Default"})
                              /\ Branches(left.enc, right.enc, joined)
                              /\ KeptNodes(x.hole, joined, x.enc)
<1> DEFINE l == left.enc
           r == right.enc
           hole == ~fill /\ (left.hole \/ right.hole)
           joined == JoinedNodes(left.enc, right.enc)
           enc == NodeDefaults(joined, hole)
           sizes == Tabulated([c \in DOMAIN enc |-> Size(enc[c])])
           kept == Keep(enc, sizes, hole)
<1>1. MergeNodes(left, right, fill) = [enc |-> kept, hole |-> hole]
  BY DEF MergeNodes, BranchContexts, JoinedNodes, NodeDefaults
<1>2. /\ left.hole \in BOOLEAN /\ IsFiniteSet(DOMAIN l) /\ DOMAIN l \subseteq Context
      /\ right.hole \in BOOLEAN /\ IsFiniteSet(DOMAIN r) /\ DOMAIN r \subseteq Context
      /\ l \in [DOMAIN l -> FineCode] /\ r \in [DOMAIN r -> FineCode]
  BY NodeContextsType
<1>3. /\ Branches(l, r, joined) /\ joined \in [DOMAIN joined -> FineCode]
      /\ \A c \in DOMAIN joined : ~Begins(joined[c], {"Return", "Default"})
  BY <1>2, JoinedAreBranches
<1> HIDE DEF l, r, joined
<1>4. DOMAIN joined \subseteq Context /\ IsFiniteSet(DOMAIN joined) /\ hole \in BOOLEAN
  <2>1. DOMAIN joined \in SUBSET (DOMAIN l \cup DOMAIN r)
    BY <1>3 DEF Branches
  <2>2. IsFiniteSet(DOMAIN l \cup DOMAIN r)
    BY <1>2, FS_Union
  <2>3. IsFiniteSet(DOMAIN joined)
    BY ONLY <2>1, <2>2, FS_Subset
  <2> QED BY <1>2, <2>1, <2>3
<1> HIDE DEF hole
<1>9. /\ NoAsn \in DOMAIN enc <=>
            NoAsn \in DOMAIN joined \/ (~hole /\ DOMAIN joined \ {NoAsn} # {})
      /\ NoAsn \in DOMAIN enc => LoneNode(hole, joined, enc[NoAsn])
      /\ \A c \in Nat : c \in DOMAIN enc <=> c \in DOMAIN joined
      /\ \A c \in DOMAIN joined \cap Nat : enc[c] = joined[c]
      /\ enc \in [DOMAIN enc -> FineCode] /\ DOMAIN enc \subseteq {NoAsn} \cup DOMAIN joined
  BY <1>3, <1>4, LoneNodes
<1> HIDE DEF enc
<1> DEFINE D == {c \in DOMAIN enc : \/ c = NoAsn
                                    \/ /\ hole => c = 0
                                       /\ NoAsn \in DOMAIN enc => sizes[c] < sizes[NoAsn]}
<1> HIDE DEF sizes
<1>8. kept = [c \in D |-> enc[c]]
  <2>1. kept = Tabulated([c \in D |-> enc[c]])
    BY DEF Keep
  <2> HIDE DEF kept, D
  <2> QED BY <2>1, TabulatedIsSame
<1> HIDE DEF kept
<1>10. IsFiniteSet(D) /\ D \in SUBSET Context
  <2>1. IsFiniteSet({NoAsn} \cup DOMAIN joined)
    BY <1>4, FS_AddElement, FS_Union, FS_Singleton
  <2>2. D \in SUBSET ({NoAsn} \cup DOMAIN joined)
    BY <1>9
  <2>3. IsFiniteSet(D)
    BY ONLY <2>1, <2>2, FS_Subset
  <2> QED BY <1>4, <2>2, <2>3 DEF Context
<1>11. kept \in [D -> FineCode] /\ DOMAIN kept = D
  BY <1>8, <1>9
<1>12. [enc |-> kept, hole |-> hole] \in NodeContexts
  BY <1>4, <1>10, <1>11, NodeContextsIntro
<1>13. /\ NoAsn \in D <=> NoAsn \in DOMAIN enc
       /\ NoAsn \in D => kept[NoAsn] = enc[NoAsn]
  BY <1>8, <1>9
<1>14. \A c \in Nat : c \in D => c \in DOMAIN joined /\ (hole => c = 0)
  BY <1>9 DEF NoAsn
<1>15. \A c \in D \cap Nat : kept[c] = joined[c]
  BY <1>8, <1>9
<1>18. \A c \in Nat : c \in DOMAIN joined /\ (hole => c = 0) /\ NoAsn \notin DOMAIN enc => c \in D
  BY <1>9
<1> HIDE DEF D
<1>16. KeptNodes(hole, joined, kept)
  BY <1>9, <1>11, <1>13, <1>14, <1>15, <1>18 DEF KeptNodes
<1>17. MergeNodes(left, right, fill).hole = hole /\ MergeNodes(left, right, fill).enc = kept
  BY <1>1
<1> QED BY <1>1, <1>3, <1>4, <1>12, <1>16, <1>17 DEF hole, l, r

---------------------------------------------------------------------------
(* The node that it finds is that of the map. *)

BinLeaf(node, fill) == LeafContexts(node[1], fill, EndNode, LeafNode(node[1]))

IsNodeSearch(f, fill, contexts) ==
    contexts = [path \in Path |->
                  LET at == NodeAt(TrieOf(f), path)
                  IN  IF IsLeaf(at) THEN BinLeaf(at, fill)
                      ELSE MergeNodes(contexts[Append(path, 0)], contexts[Append(path, 1)], fill)]

NodeSearch(f, fill) == CHOOSE contexts : IsNodeSearch(f, fill, contexts)

(* to_binnode is the search. *)
LEMMA NodesAreSearch ==
    \A f, fill : BinContexts(TrieOf(f), fill) = NodeSearch(f, fill)[<< >>]
BY DEF BinContexts, NodeSearch, IsNodeSearch, BinLeaf, MergeNodes

(* What the search has for a leaf. *)
LEMMA NodeLeafType ==
    ASSUME NEW asn \in Nat, NEW fill \in BOOLEAN
    PROVE  LET x == BinLeaf(Leaf(asn), fill)
           IN  /\ x \in NodeContexts
               /\ asn = 0 => /\ x.hole /\ DOMAIN x.enc = {IF fill THEN NoAsn ELSE 0}
                             /\ \A c \in DOMAIN x.enc : x.enc[c] = EndNode
               /\ asn # 0 => /\ ~x.hole /\ DOMAIN x.enc = {asn, NoAsn}
                             /\ x.enc[asn] = EndNode /\ x.enc[NoAsn] = LeafNode(asn)
<1> DEFINE x == BinLeaf(Leaf(asn), fill)
           one == LeafNode(asn)
           none == EndNode
           bg == IF fill THEN NoAsn ELSE 0
<1>1. x = LeafContexts(asn, fill, none, one)
  BY DEF BinLeaf, Leaf
<1>2. one \in FineCode /\ none \in FineCode
  BY LeafFine, EndFine DEF FineCode
<1>3. asn \in Context /\ NoAsn \in Context /\ 0 \in Context /\ asn # NoAsn /\ bg \in Context
  BY DEF Context, NoAsn
<1> HIDE DEF one, none
<1>4. CASE asn = 0
  <2> DEFINE enc == [c \in {bg} |-> none]
  <2>1. x = [enc |-> enc, hole |-> TRUE]
    BY <1>1, <1>4 DEF LeafContexts
  <2>2. enc \in [{bg} -> FineCode] /\ DOMAIN enc = {bg} /\ \A c \in {bg} : enc[c] = none
    BY <1>2
  <2>3. IsFiniteSet({bg}) /\ {bg} \in SUBSET Context
    BY <1>3, FS_Singleton
  <2> HIDE DEF enc, x, bg
  <2>4. x \in NodeContexts
    BY <2>1, <2>2, <2>3, NodeContextsIntro
  <2> QED BY <1>4, <2>1, <2>2, <2>4 DEF x, bg, none
<1>5. CASE asn # 0
  <2> DEFINE enc == [c \in {asn, NoAsn} |-> IF c = asn THEN none ELSE one]
  <2>1. x = [enc |-> enc, hole |-> FALSE]
    BY <1>1, <1>5 DEF LeafContexts
  <2>2. /\ enc \in [{asn, NoAsn} -> FineCode] /\ DOMAIN enc = {asn, NoAsn}
        /\ enc[asn] = none /\ enc[NoAsn] = one
    BY <1>2, <1>3
  <2>3. IsFiniteSet({asn, NoAsn}) /\ {asn, NoAsn} \in SUBSET Context
    <3>1. {asn, NoAsn} = {asn} \cup {NoAsn}
      OBVIOUS
    <3>2. IsFiniteSet({asn}) /\ IsFiniteSet({NoAsn})
      BY FS_Singleton
    <3> QED BY <1>3, <3>1, <3>2, FS_Union
  <2> HIDE DEF enc, x
  <2>4. x \in NodeContexts
    BY <2>1, <2>2, <2>3, NodeContextsIntro
  <2> QED BY <1>5, <2>1, <2>2, <2>4 DEF x, one, none
<1> QED BY <1>4, <1>5

(* What it has for a path: that of a leaf, or what it makes of the halves. *)
LEMMA NodeSearchEquation ==
    ASSUME NEW f \in [Address -> Nat], NEW fill \in BOOLEAN, NEW p \in Path
    PROVE  /\ NodeSearch(f, fill)[p] \in NodeContexts
           /\ IsLeaf(Below(f)[p]) => /\ Below(f)[p] = Leaf(Below(f)[p][1])
                                     /\ Below(f)[p][1] \in Nat
                                     /\ NodeSearch(f, fill)[p] = BinLeaf(Below(f)[p], fill)
           /\ ~IsLeaf(Below(f)[p]) =>
                 /\ Len(p) # V6Bits
                 /\ NodeSearch(f, fill)[p] = MergeNodes(NodeSearch(f, fill)[Append(p, 0)],
                                                        NodeSearch(f, fill)[Append(p, 1)], fill)
<1> DEFINE V == NodeContexts
           stop == {q \in Path : IsLeaf(Below(f)[q])}
           ends == [q \in Path |-> IF IsLeaf(Below(f)[q]) THEN BinLeaf(Below(f)[q], fill)
                                   ELSE BinLeaf(Leaf(0), fill)]
           step == [q \in Path |-> [pair \in V \X V |-> MergeNodes(pair[1], pair[2], fill)]]
<1>1. stop \in SUBSET Path /\ \A q \in Path : Len(q) = V6Bits => q \in stop
  BY AddressIsLeaf
<1>2. ASSUME NEW q \in Path, IsLeaf(Below(f)[q])
      PROVE  /\ Below(f)[q] = Leaf(Below(f)[q][1]) /\ Below(f)[q][1] \in Nat
             /\ BinLeaf(Below(f)[q], fill) \in V
  <2>1. PICK a \in Address : Covers(q, a)
    BY CoversSome
  <2>2. Below(f)[q] = Leaf(f[a]) /\ Below(f)[q][1] = f[a] /\ f[a] \in Nat
    BY <1>2, <2>1, LeafIsUniform
  <2>3. BinLeaf(Leaf(f[a]), fill) \in V
    BY <2>2, NodeLeafType
  <2> QED BY <2>2, <2>3
<1>3. ends \in [Path -> V]
  <2>1. BinLeaf(Leaf(0), fill) \in V
    BY NodeLeafType
  <2> HIDE DEF V
  <2> QED BY <1>2, <2>1
<1>4. step \in [Path -> [V \X V -> V]]
  <2>1. ASSUME NEW pair \in V \X V PROVE MergeNodes(pair[1], pair[2], fill) \in V
    BY NodeMerge
  <2> HIDE DEF V
  <2> QED BY <2>1
<1> HIDE DEF V, stop, ends, step
<1>5. PICK h \in [Path -> V] : RecursOver(h, Path, stop, ends, step)
  BY <1>1, <1>3, <1>4, PathRecursion
<1>6. \A q \in Path : q \notin stop => Append(q, 0) \in Path /\ Append(q, 1) \in Path
  BY <1>1, PathAppend, PathType, WidthIsNat DEF Bit
<1>7. IsNodeSearch(f, fill, h)
  <2> DEFINE again == [path \in Path |->
                  LET at == NodeAt(TrieOf(f), path)
                  IN  IF IsLeaf(at) THEN BinLeaf(at, fill)
                      ELSE MergeNodes(h[Append(path, 0)], h[Append(path, 1)], fill)]
  <2>1. ASSUME NEW q \in Path PROVE h[q] = again[q]
    <3>1. NodeAt(TrieOf(f), q) = Below(f)[q]
      BY NodeIsBelow
    <3>2. CASE IsLeaf(Below(f)[q])
      <4>1. q \in stop /\ h[q] = ends[q]
        BY <1>5, <3>2 DEF RecursOver, stop
      <4> QED BY <3>1, <3>2, <4>1 DEF ends
    <3>3. CASE ~IsLeaf(Below(f)[q])
      <4>1. q \notin stop /\ h[q] = step[q][<<h[Append(q, 0)], h[Append(q, 1)]>>]
        BY <1>5, <3>3 DEF RecursOver, stop
      <4>2. <<h[Append(q, 0)], h[Append(q, 1)]>> \in V \X V
        BY <1>5, <1>6, <4>1
      <4>3. h[q] = MergeNodes(h[Append(q, 0)], h[Append(q, 1)], fill)
        BY <4>1, <4>2 DEF step
      <4> QED BY <3>1, <3>3, <4>3
    <3> QED BY <3>2, <3>3
  <2>2. h = again
    BY <1>5, <2>1
  <2> QED BY <2>2 DEF IsNodeSearch
<1>8. IsNodeSearch(f, fill, NodeSearch(f, fill))
  BY <1>7, Zenon DEF NodeSearch
<1> DEFINE M == NodeSearch(f, fill)
<1>9. ASSUME NEW q \in Path
      PROVE  /\ IsLeaf(Below(f)[q]) => M[q] = BinLeaf(Below(f)[q], fill)
             /\ ~IsLeaf(Below(f)[q]) => M[q] = MergeNodes(M[Append(q, 0)], M[Append(q, 1)], fill)
  BY <1>8, NodeIsBelow DEF IsNodeSearch
<1> HIDE DEF M
<1> DEFINE T == {q \in Path : M[q] \in V}
<1>10. \A q \in Path : Len(q) = V6Bits => q \in T
  BY <1>1, <1>2, <1>9 DEF stop
<1>11. ASSUME NEW q \in Path, Len(q) # V6Bits, Append(q, 0) \in T, Append(q, 1) \in T
       PROVE  q \in T
  <2>1. MergeNodes(M[Append(q, 0)], M[Append(q, 1)], fill) \in V
    BY <1>11, NodeMerge DEF V
  <2> QED BY <1>2, <1>9, <2>1
<1> HIDE DEF T
<1>12. p \in T
  BY <1>10, <1>11, PathInduction
<1>13. M[p] \in V
  BY <1>12 DEF T
<1>14. ~IsLeaf(Below(f)[p]) => Len(p) # V6Bits
  BY <1>1 DEF stop
<1> QED BY <1>2, <1>9, <1>13, <1>14 DEF M, V

(* The ASNs that f assigns. *)
Used(f) == {f[a] : a \in Address}

(***************************************************************************)
(* The node is about ASNs of f, and all that are assigned under p but the  *)
(* context's; and in a default that is the context, or in any if it stands *)
(* alone, it means the trie of a map that has f's ASN at every address.    *)
(***************************************************************************)
NodeSays(f, fill, p, c, n) ==
    /\ Named(n) \subseteq Used(f) \ {0}
    /\ \A a \in Address : Covers(p, a) => f[a] \in Named(n) \cup {0, c}
    /\ \A d \in Nat : c \in {NoAsn, d} =>
          \E h \in [Address -> Nat] :
             /\ Means(n, d, Below(h)[p])
             /\ \A a \in Address : Covers(p, a) /\ (fill => f[a] # 0) => h[a] = f[a]

(* What stands alone stands in any context. *)
LEMMA NodeSaysAlone ==
    ASSUME NEW f \in [Address -> Nat], NEW fill, NEW p, NEW c, NEW b \in {c, NoAsn}, NEW n,
           NodeSays(f, fill, p, b, n)
    PROVE  NodeSays(f, fill, p, c, n)
<1>1. \A d \in Nat : c \in {NoAsn, d} => b \in {NoAsn, d}
  OBVIOUS
<1>2. \A a \in Address : f[a] # NoAsn
  BY DEF NoAsn
<1>3. \A a \in Address : Covers(p, a) => f[a] \in Named(n) \cup {0, c}
  BY <1>2 DEF NodeSays
<1> QED BY <1>1, <1>3 DEF NodeSays

(* The branch of what both halves of a path say says what the path does. *)
LEMMA NodeSaysBoth ==
    ASSUME NEW f \in [Address -> Nat], NEW fill, NEW p \in Path, Len(p) # V6Bits, NEW c,
           NEW l \in FineCode, NodeSays(f, fill, Append(p, 0), c, l),
           NEW r \in FineCode, NodeSays(f, fill, Append(p, 1), c, r)
    PROVE  NodeSays(f, fill, p, c, BranchNode(l, r))
<1> DEFINE pl == Append(p, 0)
           pr == Append(p, 1)
           n == BranchNode(l, r)
<1>1. /\ pl \in Path /\ pr \in Path
      /\ \A a \in Address : Covers(p, a) <=> Covers(pl, a) \/ Covers(pr, a)
  BY HalvesOfPath
<1>2. /\ \A a \in Address : Covers(pl, a) => a[Len(p) + 1] = 0
      /\ \A a \in Address : Covers(pr, a) => a[Len(p) + 1] = 1
  BY CoversHalf DEF Bit
<1>3. /\ Named(n) = Named(l) \cup Named(r)
      /\ \A d \in Nat : \A t, u : Means(l, d, t) /\ Means(r, d, u) => Means(n, d, Branch(t, u))
  <2>1. l \in Code /\ Fine(l) /\ r \in Code /\ Fine(r)
    BY DEF FineCode
  <2> QED BY ONLY <2>1, BranchFine
<1> HIDE DEF pl, pr, n
<1>4. Named(n) \subseteq Used(f) \ {0}
  BY <1>3 DEF NodeSays
<1>5. ASSUME NEW a \in Address, Covers(p, a) PROVE f[a] \in Named(n) \cup {0, c}
  BY <1>1, <1>3, <1>5 DEF NodeSays, pl, pr
<1>6. ASSUME NEW d \in Nat, c \in {NoAsn, d}
      PROVE  \E h \in [Address -> Nat] :
                /\ Means(n, d, Below(h)[p])
                /\ \A a \in Address : Covers(p, a) /\ (fill => f[a] # 0) => h[a] = f[a]
  <2>1. PICK hl \in [Address -> Nat] :
                /\ Means(l, d, Below(hl)[pl])
                /\ \A a \in Address : Covers(pl, a) /\ (fill => f[a] # 0) => hl[a] = f[a]
    BY <1>6 DEF NodeSays, pl
  <2>2. PICK hr \in [Address -> Nat] :
                /\ Means(r, d, Below(hr)[pr])
                /\ \A a \in Address : Covers(pr, a) /\ (fill => f[a] # 0) => hr[a] = f[a]
    BY <1>6 DEF NodeSays, pr
  <2> DEFINE h == [a \in Address |-> IF a[Len(p) + 1] = 0 THEN hl[a] ELSE hr[a]]
  <2>3. /\ h \in [Address -> Nat]
        /\ \A a \in Address : Covers(pl, a) => h[a] = hl[a]
        /\ \A a \in Address : Covers(pr, a) => h[a] = hr[a]
    BY <1>2
  <2> HIDE DEF h
  <2>4. Below(h)[pl] = Below(hl)[pl]
    BY <1>1, <2>3, BelowIsLocal
  <2>5. Below(h)[pr] = Below(hr)[pr]
    BY <1>1, <2>3, BelowIsLocal
  <2>6. Below(h)[p] = Branch(Below(h)[pl], Below(h)[pr])
    BY BelowEquation DEF pl, pr
  <2>7. Means(n, d, Below(h)[p])
    BY <1>3, <2>1, <2>2, <2>4, <2>5, <2>6
  <2>8. \A a \in Address : Covers(p, a) /\ (fill => f[a] # 0) => h[a] = f[a]
    BY <1>1, <2>1, <2>2, <2>3
  <2> QED BY <2>3, <2>7, <2>8
<1>7. NodeSays(f, fill, p, c, n)
  BY <1>4, <1>5, <1>6 DEF NodeSays
<1> QED BY <1>7 DEF n

(* A default over the whole subtree, and what corrects it. *)
LEMMA NodeSaysCovered ==
    ASSUME NEW f \in [Address -> Nat], NEW fill, NEW p \in Path, NEW c \in Used(f), c # 0,
           NEW s \in FineCode, ~Begins(s, {"Return", "Default"}), NodeSays(f, fill, p, c, s)
    PROVE  NodeSays(f, fill, p, NoAsn, DefaultNode(c, s))
<1> DEFINE n == DefaultNode(c, s)
<1>1. c \in Nat
  BY DEF Used
<1>2. /\ Named(n) = {c} \cup Named(s)
      /\ \A d \in Nat : \A t : Means(s, c, t) => Means(n, d, t)
  <2>1. s \in Code /\ Fine(s)
    BY DEF FineCode
  <2> QED BY ONLY <1>1, <2>1, ~Begins(s, {"Return", "Default"}), DefaultFine
<1> HIDE DEF n
<1>3. Named(n) \subseteq Used(f) \ {0}
  BY <1>2 DEF NodeSays
<1>4. \A a \in Address : Covers(p, a) => f[a] \in Named(n) \cup {0, NoAsn}
  BY <1>2 DEF NodeSays
<1>5. PICK h \in [Address -> Nat] :
                /\ Means(s, c, Below(h)[p])
                /\ \A a \in Address : Covers(p, a) /\ (fill => f[a] # 0) => h[a] = f[a]
  BY <1>1 DEF NodeSays
<1>6. \A d \in Nat : Means(n, d, Below(h)[p])
  BY <1>2, <1>5
<1>7. NodeSays(f, fill, p, NoAsn, n)
  BY <1>3, <1>4, <1>5, <1>6 DEF NodeSays
<1> QED BY <1>7 DEF n

(* What the search has for a subtree is right in its context, and says which contexts
   there are: only that of unassigned space above a hole, never that one elsewhere. *)
NodeSearchFacts(f, fill, p, x) ==
    /\ IF ~fill /\ x.hole THEN 0 \in DOMAIN x.enc /\ NoAsn \notin DOMAIN x.enc
       ELSE NoAsn \in DOMAIN x.enc /\ 0 \notin DOMAIN x.enc
    /\ DOMAIN x.enc \subseteq Used(f) \cup {0, NoAsn}
    /\ \A c \in DOMAIN x.enc : NodeSays(f, fill, p, c, x.enc[c])

(* The facts hold of leaves. *)
LEMMA NodeLeafFacts ==
    ASSUME NEW f \in [Address -> Nat], NEW fill \in BOOLEAN, NEW p \in Path, IsLeaf(Below(f)[p])
    PROVE  NodeSearchFacts(f, fill, p, NodeSearch(f, fill)[p])
<1> DEFINE asn == Below(f)[p][1]
           x == NodeSearch(f, fill)[p]
<1>1. asn \in Nat /\ x = BinLeaf(Leaf(asn), fill)
  BY NodeSearchEquation
<1>2. \A a \in Address : Covers(p, a) => f[a] = asn
  BY LeafIsUniform
<1>3. /\ asn = 0 => /\ x.hole /\ DOMAIN x.enc = {IF fill THEN NoAsn ELSE 0}
                    /\ \A c \in DOMAIN x.enc : x.enc[c] = EndNode
      /\ asn # 0 => /\ ~x.hole /\ DOMAIN x.enc = {asn, NoAsn}
                    /\ x.enc[asn] = EndNode /\ x.enc[NoAsn] = LeafNode(asn)
  BY <1>1, NodeLeafType
<1>4. /\ Named(EndNode) = {} /\ \A d : Means(EndNode, d, Leaf(d))
      /\ Named(LeafNode(asn)) = {asn} /\ \A d \in Nat : Means(LeafNode(asn), d, Leaf(asn))
  <2>1. Named(EndNode) = {} /\ \A d : Means(EndNode, d, Leaf(d))
    BY EndFine DEF Means
  <2>2. Named(LeafNode(asn)) = {asn} /\ \A d \in Nat : Means(LeafNode(asn), d, Leaf(asn))
    BY ONLY <1>1, LeafFine
  <2> QED BY <2>1, <2>2
<1>5. NoAsn # 0 /\ asn # NoAsn
  BY <1>1 DEF NoAsn
<1>6. asn \in Used(f)
  BY <1>2, CoversSome DEF Used
<1> HIDE DEF asn, x
<1> DEFINE Flat1(d) == [a \in Address |-> d]
<1>7. \A d \in Nat : Flat1(d) \in [Address -> Nat] /\ Below(Flat1(d))[p] = Leaf(d)
  <2> TAKE d \in Nat
  <2>1. Flat1(d) \in [Address -> Nat] /\ \A a \in Address : Flat1(d)[a] = d
    OBVIOUS
  <2> HIDE DEF Flat1
  <2>2. Below(Flat1(d))[p] = Leaf(d)
    BY <2>1, UniformIsLeaf
  <2> QED BY <2>1, <2>2
<1>8. \A d : \A a \in Address : Flat1(d)[a] = d
  OBVIOUS
<1> HIDE DEF Flat1
<1>9. CASE asn = 0
  <2>1. ASSUME NEW c \in DOMAIN x.enc PROVE NodeSays(f, fill, p, c, x.enc[c])
    <3>1. x.enc[c] = EndNode /\ c = IF fill THEN NoAsn ELSE 0
      BY <1>3, <1>9, <2>1
    <3>2. ASSUME NEW d \in Nat, c \in {NoAsn, d}
          PROVE  \A a \in Address : Covers(p, a) /\ (fill => f[a] # 0) => Flat1(d)[a] = f[a]
      BY <1>2, <1>5, <1>8, <1>9, <3>1, <3>2
    <3>3. NodeSays(f, fill, p, c, EndNode)
      <4>1. ASSUME NEW d \in Nat, c \in {NoAsn, d}
            PROVE  \E h \in [Address -> Nat] :
                     /\ Means(EndNode, d, Below(h)[p])
                     /\ \A a \in Address : Covers(p, a) /\ (fill => f[a] # 0) => h[a] = f[a]
        <5>1. Means(EndNode, d, Below(Flat1(d))[p]) /\ Flat1(d) \in [Address -> Nat]
          BY <1>4, <1>7
        <5> QED BY <3>2, <4>1, <5>1
      <4>2. \A a \in Address : Covers(p, a) => f[a] = 0
        BY <1>2, <1>9
      <4> QED BY <1>4, <4>1, <4>2 DEF NodeSays
    <3> QED BY <3>1, <3>3
  <2> QED BY <1>3, <1>5, <1>9, <2>1 DEF NodeSearchFacts, x
<1>10. CASE asn # 0
  <2>1. NodeSays(f, fill, p, asn, EndNode)
    <3>1. \A a \in Address : Covers(p, a) => Flat1(asn)[a] = f[a]
      BY <1>2, <1>8
    <3> QED BY ZenonT(40), <1>1, <1>2, <1>4, <1>5, <1>7, <3>1 DEF NodeSays
  <2>2. NodeSays(f, fill, p, NoAsn, LeafNode(asn))
    <3>1. \A a \in Address : Covers(p, a) => Flat1(asn)[a] = f[a]
      BY <1>2, <1>8
    <3>2. \A d \in Nat : Means(LeafNode(asn), d, Below(Flat1(asn))[p])
      BY <1>1, <1>4, <1>7
    <3>3. Named(LeafNode(asn)) \subseteq Used(f) \ {0}
      BY <1>4, <1>6, <1>10
    <3> QED BY <1>1, <1>2, <1>4, <1>7, <3>1, <3>2, <3>3 DEF NodeSays
  <2> QED BY <1>3, <1>5, <1>6, <1>10, <2>1, <2>2 DEF NodeSearchFacts, x
<1> QED BY <1>9, <1>10

(* They hold of what the search makes of two halves if they hold of the halves. *)
LEMMA NodeMergeFacts ==
    ASSUME NEW f \in [Address -> Nat], NEW fill \in BOOLEAN, NEW p \in Path, Len(p) # V6Bits,
           NEW left \in NodeContexts, NodeSearchFacts(f, fill, Append(p, 0), left),
           NEW right \in NodeContexts, NodeSearchFacts(f, fill, Append(p, 1), right)
    PROVE  NodeSearchFacts(f, fill, p, MergeNodes(left, right, fill))
<1> DEFINE x == MergeNodes(left, right, fill)
           l == left.enc
           r == right.enc
<1>1. PICK joined : /\ joined \in [DOMAIN joined -> FineCode]
                    /\ DOMAIN joined \subseteq Context
                    /\ \A c \in DOMAIN joined : ~Begins(joined[c], {"Return", "Default"})
                    /\ Branches(l, r, joined) /\ KeptNodes(x.hole, joined, x.enc)
  BY NodeMerge
<1>2. /\ x \in NodeContexts /\ x.hole = (~fill /\ (left.hole \/ right.hole))
      /\ DOMAIN x.enc \subseteq Context
  BY NodeMerge, NodeContextsType
<1>3. /\ left.hole \in BOOLEAN /\ right.hole \in BOOLEAN
      /\ l \in [DOMAIN l -> FineCode] /\ r \in [DOMAIN r -> FineCode]
  BY NodeContextsType
<1> HIDE DEF x
<1>4. NoAsn # 0 /\ \A c \in Nat : c # NoAsn
  BY DEF NoAsn
<1>5. IF ~fill /\ x.hole THEN 0 \in DOMAIN joined /\ NoAsn \notin DOMAIN joined
      ELSE NoAsn \in DOMAIN joined /\ 0 \notin DOMAIN joined
  <2>1. \A c : c \in DOMAIN joined <=> \/ c \in DOMAIN l /\ c \in DOMAIN r
                                       \/ NoAsn \in DOMAIN l /\ c \in DOMAIN r
                                       \/ c \in DOMAIN l /\ NoAsn \in DOMAIN r
    <3> TAKE c
    <3>1. Mates(l, r, c) # {} <=> \/ c \in DOMAIN l /\ c \in DOMAIN r
                                  \/ NoAsn \in DOMAIN l /\ c \in DOMAIN r
                                  \/ c \in DOMAIN l /\ NoAsn \in DOMAIN r
      BY SomeMates
    <3> QED BY <1>1, <3>1 DEF Branches
  <2>2. /\ IF ~fill /\ left.hole THEN 0 \in DOMAIN l /\ NoAsn \notin DOMAIN l
           ELSE NoAsn \in DOMAIN l /\ 0 \notin DOMAIN l
        /\ IF ~fill /\ right.hole THEN 0 \in DOMAIN r /\ NoAsn \notin DOMAIN r
           ELSE NoAsn \in DOMAIN r /\ 0 \notin DOMAIN r
    BY DEF NodeSearchFacts
  <2>3. CASE ~fill /\ x.hole
    BY <1>2, <2>1, <2>2, <2>3
  <2>4. CASE ~(~fill /\ x.hole)
    BY <1>2, <2>1, <2>2, <2>4
  <2> QED BY <2>3, <2>4
<1>6. ASSUME NEW c \in DOMAIN joined
      PROVE  NodeSays(f, fill, p, c, joined[c]) /\ c \in Used(f) \cup {0, NoAsn}
  <2>1. PICK q \in Mates(l, r, c) : joined[c] = BranchNode(l[q[1]], r[q[2]])
    BY <1>1, <1>6 DEF Branches
  <2>2. /\ q[1] \in {c, NoAsn} /\ q[1] \in DOMAIN l
        /\ q[2] \in {c, NoAsn} /\ q[2] \in DOMAIN r
    BY <2>1 DEF Mates
  <2>3. l[q[1]] \in FineCode /\ r[q[2]] \in FineCode
    BY <1>3, <2>2
  <2>4. NodeSays(f, fill, Append(p, 0), q[1], l[q[1]]) /\ NodeSays(f, fill, Append(p, 1), q[2], r[q[2]])
    BY <2>2 DEF NodeSearchFacts
  <2>5. NodeSays(f, fill, Append(p, 0), c, l[q[1]]) /\ NodeSays(f, fill, Append(p, 1), c, r[q[2]])
    BY <2>2, <2>4, NodeSaysAlone
  <2>6. NodeSays(f, fill, p, c, joined[c])
    BY <2>1, <2>3, <2>5, NodeSaysBoth
  <2>7. c \in DOMAIN l \cup DOMAIN r
    BY <1>1, <1>6 DEF Branches
  <2> QED BY <2>6, <2>7 DEF NodeSearchFacts
<1>7. IF ~fill /\ x.hole THEN 0 \in DOMAIN x.enc /\ NoAsn \notin DOMAIN x.enc
      ELSE NoAsn \in DOMAIN x.enc /\ 0 \notin DOMAIN x.enc
  BY <1>1, <1>2, <1>5 DEF KeptNodes
<1>8. NoAsn \in DOMAIN x.enc => NodeSays(f, fill, p, NoAsn, x.enc[NoAsn])
  <2> SUFFICES ASSUME NoAsn \in DOMAIN x.enc PROVE NodeSays(f, fill, p, NoAsn, x.enc[NoAsn])
    OBVIOUS
  <2>1. LoneNode(x.hole, joined, x.enc[NoAsn])
    BY <1>1 DEF KeptNodes
  <2>2. CASE NoAsn \in DOMAIN joined /\ x.enc[NoAsn] = joined[NoAsn]
    BY <1>6, <2>2
  <2>3. ASSUME NEW c \in DOMAIN joined \ {NoAsn}, x.enc[NoAsn] = DefaultNode(c, joined[c])
        PROVE  NodeSays(f, fill, p, NoAsn, x.enc[NoAsn])
    <3>1. c # 0
      BY <1>1, <1>5, <1>7, <2>3
    <3>2. c \in Used(f)
      BY <1>6, <2>3, <3>1
    <3>3. joined[c] \in FineCode /\ ~Begins(joined[c], {"Return", "Default"})
      BY <1>1, <2>3
    <3>4. NodeSays(f, fill, p, c, joined[c])
      BY <1>6, <2>3
    <3>5. NodeSays(f, fill, p, NoAsn, DefaultNode(c, joined[c]))
      BY ONLY f \in [Address -> Nat], p \in Path, <3>1, <3>2, <3>3, <3>4, NodeSaysCovered
    <3> QED BY <2>3, <3>5
  <2> QED BY <2>1, <2>2, <2>3 DEF LoneNode
<1>9. ASSUME NEW c \in DOMAIN x.enc
      PROVE  NodeSays(f, fill, p, c, x.enc[c]) /\ c \in Used(f) \cup {0, NoAsn}
  <2>1. CASE c = NoAsn
    BY <1>8, <2>1
  <2>2. CASE c # NoAsn
    <3>1. c \in Nat
      BY <1>2, <2>2 DEF Context
    <3>2. c \in DOMAIN joined /\ x.enc[c] = joined[c]
      BY <1>1, <3>1 DEF KeptNodes
    <3> QED BY <1>6, <3>2
  <2> QED BY <2>1, <2>2
<1> QED BY <1>7, <1>9 DEF NodeSearchFacts, x

(* So they hold of the search, from the addresses up. *)
LEMMA NodeSearchIsRight ==
    ASSUME NEW f \in [Address -> Nat], NEW fill \in BOOLEAN, NEW p \in Path
    PROVE  NodeSearchFacts(f, fill, p, NodeSearch(f, fill)[p])
<1> DEFINE M == NodeSearch(f, fill)
           T == {q \in Path : NodeSearchFacts(f, fill, q, M[q])}
<1>1. \A q \in Path : Len(q) = V6Bits => q \in T
  BY AddressIsLeaf, NodeLeafFacts
<1>2. ASSUME NEW q \in Path, Len(q) # V6Bits, Append(q, 0) \in T, Append(q, 1) \in T
      PROVE  q \in T
  <2>1. CASE IsLeaf(Below(f)[q])
    BY <2>1, NodeLeafFacts
  <2>2. CASE ~IsLeaf(Below(f)[q])
    <3>1. M[q] = MergeNodes(M[Append(q, 0)], M[Append(q, 1)], fill)
      BY <2>2, NodeSearchEquation
    <3>2. Append(q, 0) \in Path /\ Append(q, 1) \in Path
      BY <1>2
    <3>3. M[Append(q, 0)] \in NodeContexts /\ M[Append(q, 1)] \in NodeContexts
      BY <3>2, NodeSearchEquation
    <3>4. NodeSearchFacts(f, fill, Append(q, 0), M[Append(q, 0)]) /\ NodeSearchFacts(f, fill, Append(q, 1), M[Append(q, 1)])
      BY <1>2
    <3> HIDE DEF M
    <3>5. NodeSearchFacts(f, fill, q, M[q])
      BY <1>2, <3>1, <3>3, <3>4, NodeMergeFacts
    <3> QED BY <3>5
  <2> QED BY <2>1, <2>2
<1> HIDE DEF T
<1>3. p \in T
  BY <1>1, <1>2, PathInduction
<1> QED BY <1>3 DEF T, M

(***************************************************************************)
(* The node of a map: it is written and read back, it is about the map's   *)
(* ASNs, all of them, and it means the map, or with fill one that has the  *)
(* map's ASN wherever an address was assigned.                             *)
(***************************************************************************)
NodeOf(f, fill, n, h) ==
    /\ n \in Code /\ Fine(n) /\ Named(n) \subseteq Used(f) \ {0}
    /\ \A a \in Address : f[a] \in Named(n) \cup {0}
    /\ h \in [Address -> Nat] /\ Means(n, 0, TrieOf(h))
    /\ \A a \in Address : (fill => f[a] # 0) => h[a] = f[a]

(* Every map has such a node. *)
LEMMA NodeOfMap ==
    ASSUME NEW f \in [Address -> Nat], NEW fill \in BOOLEAN
    PROVE  \E h : NodeOf(f, fill, ToBinnode(TrieOf(f), fill), h)
<1> DEFINE x == NodeSearch(f, fill)[<< >>]
           n == ToBinnode(TrieOf(f), fill)
<1>1. << >> \in Path /\ \A a \in Address : Covers(<< >>, a)
  BY EmptyPath, CoversIsPointwise
<1>2. NodeSearchFacts(f, fill, << >>, x)
  BY <1>1, NodeSearchIsRight
<1>3. x \in NodeContexts /\ x.enc \in [DOMAIN x.enc -> FineCode]
  <2>1. x \in NodeContexts
    BY <1>1, NodeSearchEquation
  <2> HIDE DEF x
  <2> QED BY <2>1, NodeContextsType
<1>4. n = AtRoot(x, EndNode)
  BY NodesAreSearch DEF ToBinnode
<1> HIDE DEF x, n
<1>5. PICK c \in DOMAIN x.enc : c \in {0, NoAsn} /\ n = x.enc[c]
  <2>1. CASE 0 \in DOMAIN x.enc
    BY <1>4, <2>1 DEF AtRoot
  <2>2. CASE 0 \notin DOMAIN x.enc
    <3>1. NoAsn \in DOMAIN x.enc
      BY <1>2, <2>2 DEF NodeSearchFacts
    <3> QED BY <1>4, <2>2, <3>1 DEF AtRoot
  <2> QED BY <2>1, <2>2
<1>6. NodeSays(f, fill, << >>, c, n)
  BY <1>2, <1>5 DEF NodeSearchFacts
<1>7. n \in Code /\ Fine(n)
  BY <1>3, <1>5 DEF FineCode
<1>8. \A a \in Address : f[a] \in Named(n) \cup {0}
  <2>1. \A a \in Address : f[a] # NoAsn /\ f[a] \in Named(n) \cup {0, c}
    BY <1>1, <1>6 DEF NodeSays, NoAsn
  <2> QED BY <1>5, <2>1
<1>9. PICK h \in [Address -> Nat] :
                /\ Means(n, 0, Below(h)[<< >>])
                /\ \A a \in Address : Covers(<< >>, a) /\ (fill => f[a] # 0) => h[a] = f[a]
  BY <1>5, <1>6 DEF NodeSays
<1>10. Means(n, 0, TrieOf(h))
  BY <1>9, TrieIsBelow
<1>11. NodeOf(f, fill, n, h)
  BY <1>1, <1>6, <1>7, <1>8, <1>9, <1>10 DEF NodeOf, NodeSays
<1> QED BY <1>11 DEF n

---------------------------------------------------------------------------
(* The files. *)

IsHolds(g, f, holds) ==
    holds = [path \in Path |->
                LET a == NodeAt(TrieOf(g), path)
                    r == NodeAt(TrieOf(f), path)
                IN  \/ r = Leaf(0)
                    \/ IsLeaf(r) /\ IsLeaf(a) /\ a = r
                    \/ ~(IsLeaf(r) /\ IsLeaf(a)) /\ \A bit \in Bit : holds[Append(path, bit)]]

Holds(g, f) == CHOOSE holds : IsHolds(g, f, holds)

(* A map extends another if it has the other's ASN wherever the other has one. *)
LEMMA ExtendsTrie ==
    ASSUME NEW g, NEW f, \A a \in Address : f[a] # 0 => g[a] = f[a]
    PROVE  Extends(TrieOf(g), TrieOf(f))
<1> DEFINE all == [path \in Path |-> TRUE]
<1>1. ASSUME NEW p \in Path, IsLeaf(Below(f)[p]), IsLeaf(Below(g)[p])
      PROVE  Below(f)[p] = Leaf(0) \/ Below(g)[p] = Below(f)[p]
  <2>1. PICK a \in Address : Covers(p, a)
    BY CoversSome
  <2>2. Below(f)[p] = Leaf(f[a])
    BY ONLY p \in Path, a \in Address, IsLeaf(Below(f)[p]), <2>1, LeafIsUniform
  <2>3. Below(g)[p] = Leaf(g[a])
    BY ONLY p \in Path, a \in Address, IsLeaf(Below(g)[p]), <2>1, LeafIsUniform
  <2> QED BY <2>2, <2>3
<1>2. \A p \in Path : NodeAt(TrieOf(f), p) = Below(f)[p] /\ NodeAt(TrieOf(g), p) = Below(g)[p]
  BY NodeIsBelow
<1>3. \A p \in Path : Len(p) # V6Bits => \A bit \in Bit : Append(p, bit) \in Path
  BY HalvesOfPath DEF Bit
<1>4. \A p \in Path : Len(p) = V6Bits => IsLeaf(Below(f)[p]) /\ IsLeaf(Below(g)[p])
  BY AddressIsLeaf
<1>5. IsHolds(g, f, all)
  <2>1. ASSUME NEW p \in Path
        PROVE  \/ NodeAt(TrieOf(f), p) = Leaf(0)
               \/ /\ IsLeaf(NodeAt(TrieOf(f), p)) /\ IsLeaf(NodeAt(TrieOf(g), p))
                  /\ NodeAt(TrieOf(g), p) = NodeAt(TrieOf(f), p)
               \/ /\ ~(IsLeaf(NodeAt(TrieOf(f), p)) /\ IsLeaf(NodeAt(TrieOf(g), p)))
                  /\ \A bit \in Bit : all[Append(p, bit)]
    <3>1. CASE IsLeaf(Below(f)[p]) /\ IsLeaf(Below(g)[p])
      BY <1>1, <1>2, <3>1
    <3>2. CASE ~(IsLeaf(Below(f)[p]) /\ IsLeaf(Below(g)[p]))
      <4>1. \A bit \in Bit : Append(p, bit) \in Path
        BY <1>3, <1>4, <3>2
      <4>2. \A bit \in Bit : all[Append(p, bit)]
        BY <4>1
      <4> HIDE DEF all
      <4> QED BY <1>2, <3>2, <4>2
    <3> QED BY <3>1, <3>2
  <2> QED BY <2>1 DEF IsHolds
<1>6. IsHolds(g, f, Holds(g, f))
  BY <1>5, Zenon DEF Holds
<1> DEFINE H == Holds(g, f)
<1>7. \A p \in Path : H[p] <=>
         \/ Below(f)[p] = Leaf(0)
         \/ IsLeaf(Below(f)[p]) /\ IsLeaf(Below(g)[p]) /\ Below(g)[p] = Below(f)[p]
         \/ ~(IsLeaf(Below(f)[p]) /\ IsLeaf(Below(g)[p])) /\ \A bit \in Bit : H[Append(p, bit)]
  <2>1. \A p \in Path : H[p] = 
         (LET a == NodeAt(TrieOf(g), p)
              r == NodeAt(TrieOf(f), p)
          IN  \/ r = Leaf(0)
              \/ IsLeaf(r) /\ IsLeaf(a) /\ a = r
              \/ ~(IsLeaf(r) /\ IsLeaf(a)) /\ \A bit \in Bit : H[Append(p, bit)])
    BY <1>6, Zenon DEF IsHolds
  <2> HIDE DEF H
  <2> QED BY <1>2, <2>1, Zenon
<1> HIDE DEF H
<1> DEFINE T == {p \in Path : H[p]}
<1>8. \A p \in Path : IsLeaf(Below(f)[p]) /\ IsLeaf(Below(g)[p]) => p \in T
  BY <1>1, <1>7, Zenon
<1>9. \A p \in Path : Len(p) = V6Bits => p \in T
  BY <1>4, <1>8, Zenon
<1>10. ASSUME NEW p \in Path, Len(p) # V6Bits, Append(p, 0) \in T, Append(p, 1) \in T
       PROVE  p \in T
  <2>1. \A bit \in Bit : H[Append(p, bit)]
    BY <1>10, Zenon DEF Bit
  <2> QED BY <1>7, <1>8, <2>1, Zenon
<1> HIDE DEF T
<1>11. << >> \in T
  BY <1>9, <1>10, EmptyPath, PathInduction
<1>12. H[<< >>]
  BY <1>11 DEF T
<1> QED BY <1>12, Zenon DEF H, Holds, IsHolds, Extends

(* A trie is something. *)
LEMMA TrieIsSome == ASSUME NEW f PROVE TrieOf(f) # NoMap
<1>1. TrieOf(f) = Below(f)[<< >>] /\ << >> \in Path
  BY TrieIsBelow, EmptyPath
<1>2. CASE Len(<< >>) = V6Bits
  BY <1>1, <1>2, BelowEquation DEF Leaf, NoMap
<1>3. CASE Len(<< >>) # V6Bits
  <2>1. Below(f)[<< >>] = Branch(Below(f)[Append(<< >>, 0)], Below(f)[Append(<< >>, 1)])
    BY <1>1, <1>3, BelowEquation
  <2>2. \A l, r : Branch(l, r) # << >>
    BY DEF Branch, IsLeaf
  <2> QED BY <1>1, <2>1, <2>2 DEF NoMap
<1> QED BY <1>2, <1>3

(* Nothing at all is written as no bits. *)
LEMMA EndIsNoBits == Encodable(EndNode) /\ EncodeNode(EndNode) = << >>
<1>1. EndNode \in Code /\ Encodable(EndNode) /\ Len(EndNode) = 0
  BY DEF EndNode, Code, Encodable
<1> QED BY ONLY <1>1, EncodeUnfolds

(* The last byte is filled up with less than a byte of zeros. *)
LEMMA PaddingIsShort ==
    ASSUME NEW k \in Nat
    PROVE  /\ Padding(k) \in 0 .. 7 /\ (k + Padding(k)) % 8 = 0
           /\ Zeros(Padding(k)) \in Stream /\ Len(Zeros(Padding(k))) = Padding(k)
           /\ \A i \in 1 .. Padding(k) : Zeros(Padding(k))[i] = 0
<1> DEFINE r == k % 8
<1>1. r \in 0 .. 7 /\ k = 8 * (k \div 8) + r /\ k \div 8 \in Nat
  OBVIOUS
<1>2. Padding(k) = (8 - r) % 8
  BY DEF Padding
<1> HIDE DEF r
<1>3. /\ r = 0 => (8 - r) % 8 = 0
      /\ r # 0 => (8 - r) % 8 = 8 - r
  BY <1>1
<1>4. Padding(k) \in 0 .. 7
  BY <1>1, <1>2, <1>3
<1>5. (k + Padding(k)) % 8 = 0
  <2>1. CASE r = 0
    BY <1>1, <1>2, <1>3, <2>1
  <2>2. CASE r # 0
    <3>1. k + Padding(k) = 8 * (k \div 8 + 1)
      BY <1>1, <1>2, <1>3, <2>2
    <3> QED BY <1>1, <3>1
  <2> QED BY <2>1, <2>2
<1>6. /\ Zeros(Padding(k)) \in [1 .. Padding(k) -> {0, 1}]
      /\ \A i \in 1 .. Padding(k) : Zeros(Padding(k))[i] = 0
  BY DEF Zeros
<1>7. Zeros(Padding(k)) \in Stream /\ Len(Zeros(Padding(k))) = Padding(k)
  BY <1>4, <1>6 DEF Stream
<1> QED BY <1>4, <1>5, <1>6, <1>7

(* The file of a node that is not nothing: its bits and the padding.  It reads as what
   the node means; cut off at a byte it reads as no map. *)
LEMMA FileReads ==
    ASSUME NEW n, Whole(n), Encodable(n), NEW t, Means(n, 0, t)
    PROVE  LET bits == EncodeNode(n)
               file == bits \o Zeros(Padding(Len(bits)))
           IN  /\ file # << >> /\ FromBinary(file) = t
               /\ \A b \in 0 .. Len(file) \div 8 - 1 :
                     SubSeq(file, 1, 8 * b) # << >> => FromBinary(SubSeq(file, 1, 8 * b)) = NoMap
<1> DEFINE bits == EncodeNode(n)
           pad == Zeros(Padding(Len(bits)))
           file == bits \o pad
           size == Size(n)
<1>1. n \in Code /\ n # EndNode /\ size \in Nat /\ size >= 17 /\ ReadsBack(n)
  BY DEF Whole
<1>2. bits \in Stream /\ Len(bits) = size
  <2>1. bits \in Stream
    <3>1. << >> \in Code /\ n \o << >> = n
      BY <1>1 DEF Code
    <3> QED BY <1>1, <3>1, EncodeConcat
  <2> QED BY <1>1, <2>1 DEF ReadsBack
<1>3. /\ pad \in Stream /\ \A i \in DOMAIN pad : pad[i] = 0
      /\ Len(pad) \in Nat /\ Len(pad) <= 7
  <2>1. /\ Padding(size) \in 0 .. 7 /\ (size + Padding(size)) % 8 = 0
        /\ pad \in Stream /\ Len(pad) = Padding(size)
        /\ \A i \in 1 .. Padding(size) : pad[i] = 0
    BY <1>1, <1>2, PaddingIsShort
  <2>2. DOMAIN pad = 1 .. Len(pad)
    BY <2>1 DEF Stream
  <2> QED BY <2>1, <2>2
<1> HIDE DEF bits, pad, size
<1>4. file \in Stream /\ Len(file) = size + Len(pad) /\ file # << >>
  <2>1. file \in Stream /\ Len(file) = size + Len(pad)
    BY <1>2, <1>3, StreamJoin
  <2>2. Len(file) # 0
    BY <1>1, <1>3, <2>1
  <2> QED BY <2>1, <2>2
<1>5. SubSeq(file, size + 1, Len(file)) = pad
  BY <1>1, <1>2, <1>3, <1>4 DEF Stream
<1>6. << >> \in Stream /\ Len(<< >>) = 0 /\ \A s \in Stream : << >> \o s = s
  BY DEF Stream
<1>7. Decoded(file)[0] = [node |-> n, pos |-> size]
  <2>1. Decoded(<< >> \o (bits \o pad))[Len(<< >>)] = [node |-> n, pos |-> Len(<< >>) + size]
    BY <1>1, <1>3, <1>6 DEF ReadsBack, bits, size
  <2>2. 0 + size = size
    BY <1>1
  <2> QED BY <1>4, <1>6, <2>1, <2>2
<1>8. TrieOfNode(n, 0) = t
  <2>1. << >> \in Code /\ << >> \o (n \o << >>) = n
    BY <1>1 DEF Code
  <2>2. Walk(<< >> \o (n \o << >>))[Len(<< >>) + 1][0] = [trie |-> t, next |-> Len(<< >>) + Len(n) + 1]
    BY <1>1, <2>1 DEF Means
  <2>3. Walk(n)[1][0].trie = t
    BY <1>6, <2>1, <2>2
  <2> QED BY <2>3 DEF TrieOfNode
<1>9. FromBinary(file) = t
  <2>1. Decoded(file)[0] # NoNode
    BY <1>1, <1>7, IsNode
  <2>2. Decoded(file)[0].node = n /\ Decoded(file)[0].pos = size
    BY <1>7
  <2>3. IsPadding(SubSeq(file, Decoded(file)[0].pos + 1, Len(file)))
    <3>1. IsPadding(pad)
      BY ONLY <1>3 DEF IsPadding
    <3> QED BY <1>5, <2>2, <3>1
  <2>4. MapOfRoot(Decoded(file)[0], file) = t
    BY <1>8, <2>1, <2>2, <2>3 DEF MapOfRoot
  <2> QED BY <1>4, <2>4 DEF FromBinary
<1>10. ASSUME NEW b \in 0 .. Len(file) \div 8 - 1
       PROVE  SubSeq(file, 1, 8 * b) # << >> => FromBinary(SubSeq(file, 1, 8 * b)) = NoMap
  <2> DEFINE cut == SubSeq(file, 1, 8 * b)
  <2>1. 8 * b \in 0 .. size - 1
    <3> HIDE DEF file
    <3>1. Len(file) \in Nat /\ Len(file) <= size + 7
      BY ONLY <1>1, <1>3, <1>4
    <3>2. 8 * (Len(file) \div 8) <= Len(file)
      BY <3>1
    <3> QED BY <1>1, <3>1, <3>2
  <2>2. cut = SubSeq(bits, 1, 8 * b)
    <3>1. 8 * b \in 0 .. Len(bits) + Len(pad) /\ 8 * b <= Len(bits)
      BY <1>1, <1>2, <1>3, <2>1
    <3> QED BY ONLY <1>2, <1>3, <3>1, CutOfBoth
  <2>3. cut \in Stream
    <3>1. 8 * b \in 0 .. Len(bits)
      BY <1>1, <1>2, <2>1
    <3>2. SubSeq(bits, 1, 8 * b) \in Stream
      BY ONLY <1>2, <3>1, CutType
    <3> QED BY <2>2, <3>2
  <2>4. Decoded(<< >> \o SubSeq(bits, 1, 8 * b))[Len(<< >>)] = NoNode
    BY <1>1, <1>6, <2>1 DEF ReadsBack, bits, size
  <2>5. Decoded(cut)[0] = NoNode
    BY <1>6, <2>2, <2>3, <2>4
  <2> HIDE DEF cut
  <2>6. MapOfRoot(Decoded(cut)[0], cut) = NoMap
    BY <2>5 DEF MapOfRoot
  <2>7. cut # << >> => FromBinary(cut) = NoMap
    BY <2>6 DEF FromBinary
  <2> QED BY <2>7 DEF cut
<1> HIDE DEF file
<1>11. /\ file # << >> /\ FromBinary(file) = t
       /\ \A b \in 0 .. Len(file) \div 8 - 1 :
             SubSeq(file, 1, 8 * b) # << >> => FromBinary(SubSeq(file, 1, 8 * b)) = NoMap
  BY <1>4, <1>9, <1>10
<1> QED BY <1>11 DEF file, pad, bits

(* The file of a map reads as a map with its ASNs, whole; cut off at a byte it is empty
   or reads as no map. *)
LEMMA FileOfMap ==
    ASSUME NEW f \in [Address -> Nat], NEW fill \in BOOLEAN, ~CannotEncode(TrieOf(f), fill)
    PROVE  LET file == ToBinary(TrieOf(f), fill)
           IN  /\ \E h \in [Address -> Nat] :
                     /\ FromBinary(file) = TrieOf(h)
                     /\ \A a \in Address : (fill => f[a] # 0) => h[a] = f[a]
               /\ \A b \in 0 .. Len(file) \div 8 - 1 :
                     SubSeq(file, 1, 8 * b) # << >> => FromBinary(SubSeq(file, 1, 8 * b)) = NoMap
<1> DEFINE n == ToBinnode(TrieOf(f), fill)
           bits == EncodeNode(n)
           file == ToBinary(TrieOf(f), fill)
<1>1. PICK h : NodeOf(f, fill, n, h)
  BY NodeOfMap
<1>2. Encodable(n)
  BY DEF CannotEncode
<1>3. file = bits \o Zeros(Padding(Len(bits)))
  BY DEF ToBinary
<1> HIDE DEF n, file
<1>4. /\ h \in [Address -> Nat] /\ Means(n, 0, TrieOf(h)) /\ Fine(n)
      /\ \A a \in Address : (fill => f[a] # 0) => h[a] = f[a]
  BY <1>1 DEF NodeOf
<1>5. CASE n = EndNode
  <2>1. TrieOf(h) = Leaf(0)
    BY <1>4, <1>5 DEF Means
  <2>2. file = << >>
    <3>1. bits = << >> /\ Len(bits) = 0
      BY <1>5, EndIsNoBits
    <3>2. Padding(0) = 0
      BY DEF Padding
    <3>3. Zeros(0) = << >>
      BY DEF Zeros
    <3> HIDE DEF bits
    <3> QED BY <1>3, <3>1, <3>2, <3>3
  <2>3. FromBinary(file) = TrieOf(h)
    BY <2>1, <2>2 DEF FromBinary, EmptyMap
  <2>4. 0 .. Len(file) \div 8 - 1 = {}
    BY <2>2
  <2> QED BY <1>4, <2>3, <2>4 DEF file
<1>6. CASE n # EndNode
  <2>1. Whole(n)
    BY <1>4, <1>6 DEF Fine
  <2>2. /\ FromBinary(bits \o Zeros(Padding(Len(bits)))) = TrieOf(h)
        /\ \A b \in 0 .. Len(bits \o Zeros(Padding(Len(bits)))) \div 8 - 1 :
              SubSeq(bits \o Zeros(Padding(Len(bits))), 1, 8 * b) # << >> =>
                 FromBinary(SubSeq(bits \o Zeros(Padding(Len(bits))), 1, 8 * b)) = NoMap
    BY <1>2, <1>4, <2>1, FileReads
  <2> HIDE DEF bits
  <2>3. /\ FromBinary(file) = TrieOf(h)
        /\ \A b \in 0 .. Len(file) \div 8 - 1 :
              SubSeq(file, 1, 8 * b) # << >> => FromBinary(SubSeq(file, 1, 8 * b)) = NoMap
    BY <1>3, <2>2
  <2> QED BY <1>4, <2>3 DEF file
<1> QED BY <1>5, <1>6

(* Theorem.  Always, a map can be encoded unless an ASN or a left half is too large,
   and then the size its encoder planned with is what is written *)
THEOREM PlannedIsWritten == Spec => []PlannedSizesAreWritten
<1>1. ASSUME TInv, NEW fill \in BOOLEAN, NEW root \in {ToBinnode(map, fill)}
      PROVE  LET tooLarge == \E a \in Address : assigned[a] > ASN_MAX
                 tooFar == \E i \in DOMAIN root : root[i].ins = "Jump" /\ root[i].val > MaxVal(CODER_JUMP)
             IN  /\ CannotEncode(map, fill) <=> tooLarge \/ tooFar
                 /\ ~CannotEncode(map, fill) => Len(EncodeNode(root)) = Size(root)
  <2> DEFINE tooLarge == \E a \in Address : assigned[a] > ASN_MAX
             tooFar == \E i \in DOMAIN root : root[i].ins = "Jump" /\ root[i].val > MaxVal(CODER_JUMP)
  <2>1. map = TrieOf(assigned) /\ assigned \in [Address -> Nat] /\ root = ToBinnode(map, fill)
    BY <1>1 DEF TInv, IInv, MapIsCanonical
  <2>2. PICK h : NodeOf(assigned, fill, root, h)
    BY <2>1, NodeOfMap
  <2>3. /\ root \in Code /\ Fine(root) /\ Named(root) \subseteq Used(assigned) \ {0}
        /\ \A a \in Address : assigned[a] \in Named(root) \cup {0}
    BY <2>2 DEF NodeOf
  <2>4. CannotEncode(map, fill) <=> ~Encodable(root)
    BY <2>1 DEF CannotEncode
  <2>5. ~CannotEncode(map, fill) => Len(EncodeNode(root)) = Size(root)
    <3>1. CASE root = EndNode
      <4>1. EncodeNode(root) = << >> /\ Size(root) = 0
        BY <3>1, EndIsNoBits DEF Size, EndNode
      <4> QED BY <4>1
    <3>2. CASE root # EndNode
      BY <2>3, <2>4, <3>2 DEF Fine, Whole, ReadsBack
    <3> QED BY <3>1, <3>2
  <2>6. /\ \A i \in DOMAIN root : root[i].ins \in InsNames /\ root[i].val \in Nat
        /\ \A i \in DOMAIN root : Fit(root[i])
    <3>1. \A i \in DOMAIN root : root[i].ins \in InsNames /\ root[i].val \in Nat
      <4>1. root \in Seq(Instr)
        BY <2>3 DEF Code
      <4>2. \A i \in DOMAIN root : root[i] \in Instr
        BY <4>1
      <4>3. \A x \in Instr : x.ins \in InsNames /\ x.val \in Nat
        BY DEF Instr
      <4> QED BY <4>2, <4>3
    <3>2. Fits(root)
      <4>1. CASE root = EndNode
        BY <4>1 DEF Fits, EndNode
      <4>2. CASE root # EndNode
        BY <2>3, <4>2 DEF Fine, Whole
      <4> QED BY <4>1, <4>2
    <3> QED BY <3>1, <3>2 DEF Fits
  <2>7. /\ MaxVal(CODER_ASN) = ASN_MAX /\ CODER_ASN.minval = 1 /\ ASN_MAX \in Nat
        /\ CODER_JUMP.minval = 17 /\ MaxVal(CODER_JUMP) \in Int
    <3>1. CODER_JUMP.minval = 17 /\ CODER_ASN.minval = 1
      BY CoderNumbers
    <3>2. MaxVal(CODER_JUMP) \in Int
      <4>1. CODER_JUMP \in Coders
        BY CodersOfTheCode
      <4>2. /\ CODER_JUMP.minval \in Nat /\ Classes(CODER_JUMP) \in Nat \ {0}
            /\ CODER_JUMP.starts \in [1 .. Classes(CODER_JUMP) + 1 -> Nat]
        BY <4>1, CoderShape
      <4>3. Classes(CODER_JUMP) + 1 \in 1 .. Classes(CODER_JUMP) + 1
        BY <4>2
      <4>4. CODER_JUMP.starts[Classes(CODER_JUMP) + 1] \in Nat
        BY <4>2, <4>3
      <4> QED BY <4>2, <4>4 DEF MaxVal
    <3> QED BY <3>1, <3>2, CodecAsnAssumption, AsnAssumption
  <2>8. ASSUME ~Encodable(root) PROVE tooLarge \/ tooFar
    <3>1. PICK i \in DOMAIN root : ~CanEncode(OperandCoder(root[i].ins), root[i].val)
      BY <2>8 DEF Encodable
    <3>2. root[i].ins \in {"Return", "Jump", "Match", "Default"} /\ root[i].val \in Nat /\ Fit(root[i])
      BY <2>6 DEF InsNames
    <3>3. CASE root[i].ins = "Match"
      <4>1. IsMatch(root[i].val) /\ OperandCoder(root[i].ins) = CODER_MATCH
        BY <3>2, <3>3 DEF Fit, OperandCoder
      <4> QED BY <3>1, <4>1, MatchInRange
    <3>4. CASE root[i].ins = "Jump"
      <4>1. root[i].val >= 17 /\ OperandCoder(root[i].ins) = CODER_JUMP
        BY <3>2, <3>4 DEF Fit, OperandCoder
      <4>2. root[i].val > MaxVal(CODER_JUMP)
        BY <2>7, <3>1, <3>2, <4>1 DEF CanEncode
      <4> QED BY <3>4, <4>2
    <3>5. CASE root[i].ins \in {"Return", "Default"}
      <4>1. root[i].val \in Named(root)
        BY <3>5 DEF Named
      <4>2. PICK a \in Address : root[i].val = assigned[a] /\ assigned[a] # 0
        BY <2>3, <4>1 DEF Used
      <4>3. OperandCoder(root[i].ins) = CODER_ASN
        BY <3>5 DEF OperandCoder
      <4>4. ~(root[i].val \in 1 .. ASN_MAX)
        BY <2>7, <3>1, <4>3 DEF CanEncode
      <4>5. assigned[a] > ASN_MAX
        BY <2>7, <3>2, <4>2, <4>4
      <4> QED BY <4>5
    <3> QED BY <3>2, <3>3, <3>4, <3>5
  <2>9. ASSUME tooLarge PROVE ~Encodable(root)
    <3>1. PICK a \in Address : assigned[a] > ASN_MAX
      BY <2>9
    <3>2. assigned[a] \in Nat /\ assigned[a] # 0
      BY <2>1, <2>7, <3>1
    <3>3. assigned[a] \in Named(root)
      BY <2>3, <3>2
    <3>4. PICK i \in DOMAIN root : root[i].ins \in {"Return", "Default"} /\ root[i].val = assigned[a]
      BY <3>3 DEF Named
    <3>5. OperandCoder(root[i].ins) = CODER_ASN
      BY <3>4 DEF OperandCoder
    <3>6. ~CanEncode(OperandCoder(root[i].ins), root[i].val)
      BY <2>7, <3>1, <3>2, <3>4, <3>5 DEF CanEncode
    <3> QED BY <3>6 DEF Encodable
  <2>10. ASSUME tooFar PROVE ~Encodable(root)
    <3>1. PICK i \in DOMAIN root : root[i].ins = "Jump" /\ root[i].val > MaxVal(CODER_JUMP)
      BY <2>10
    <3>2. OperandCoder(root[i].ins) = CODER_JUMP
      BY <3>1 DEF OperandCoder
    <3>3. ~CanEncode(OperandCoder(root[i].ins), root[i].val)
      BY <2>6, <2>7, <3>1, <3>2 DEF CanEncode
    <3> QED BY <3>3 DEF Encodable
  <2> HIDE DEF tooLarge, tooFar
  <2>11. CannotEncode(map, fill) <=> tooLarge \/ tooFar
    BY <2>4, <2>8, <2>9, <2>10
  <2> QED BY <2>5, <2>11 DEF tooLarge, tooFar
<1>2. TInv => PlannedSizesAreWritten
  BY <1>1 DEF PlannedSizesAreWritten
<1> QED BY <1>2, TypedInvariant, PTL

(* Theorem.  Always, the binary file of the map reads back as the map, and the one with
   fill as a map that has its ASN wherever it has one. *)
THEOREM BinaryFileReadsBack == Spec => []BinaryRoundTrip
<1>1. ASSUME TInv, NEW fill \in BOOLEAN, ~CannotEncode(map, fill),
             NEW file \in {ToBinary(map, fill)}, NEW back \in {FromBinary(file)}
      PROVE  IF fill
             THEN /\ back # NoMap /\ Extends(back, map)
                  /\ \A a \in Address : assigned[a] # 0 => Lookup(back, a) = assigned[a]
             ELSE back = map
  <2>1. map = TrieOf(assigned) /\ assigned \in [Address -> Nat]
    BY <1>1 DEF TInv, IInv, MapIsCanonical
  <2>2. PICK h \in [Address -> Nat] :
            /\ FromBinary(ToBinary(map, fill)) = TrieOf(h)
            /\ \A a \in Address : (fill => assigned[a] # 0) => h[a] = assigned[a]
    BY <1>1, <2>1, FileOfMap
  <2>3. back = TrieOf(h)
    BY <1>1, <2>2
  <2>4. ASSUME fill
        PROVE  /\ back # NoMap /\ Extends(back, map)
               /\ \A a \in Address : assigned[a] # 0 => Lookup(back, a) = assigned[a]
    <3>1. \A a \in Address : assigned[a] # 0 => h[a] = assigned[a]
      BY <2>2
    <3>2. Extends(back, map)
      BY <2>1, <2>3, <3>1, ExtendsTrie
    <3>3. \A a \in Address : Lookup(back, a) = h[a]
      BY <2>3, LookupOfTrie
    <3> QED BY <2>3, <3>1, <3>2, <3>3, TrieIsSome
  <2>5. ASSUME ~fill PROVE back = map
    <3>1. h = assigned
      BY <2>1, <2>2, <2>5
    <3> QED BY <2>1, <2>3, <3>1
  <2> QED BY <2>4, <2>5
<1>2. TInv => BinaryRoundTrip
  BY <1>1 DEF BinaryRoundTrip
<1> QED BY <1>2, TypedInvariant, PTL

(* Theorem.  Always, a file that was cut off at a byte loads as no map but the one that
   assigns nothing. *)
THEOREM CutFileIsNothing == Spec => []CutFileAssignsNothing
<1>1. ASSUME TInv, NEW fill \in BOOLEAN, ~CannotEncode(map, fill),
             NEW file \in {ToBinary(map, fill)},
             NEW cut \in {SubSeq(file, 1, 8 * n) : n \in 0 .. Len(file) \div 8 - 1}
      PROVE  LoadFile(cut) \in {Loaded(EmptyMap), Refused("ambiguous"), Refused("unrecognized")}
  <2>1. map = TrieOf(assigned) /\ assigned \in [Address -> Nat]
    BY <1>1 DEF TInv, IInv, MapIsCanonical
  <2>2. \A b \in 0 .. Len(file) \div 8 - 1 :
           SubSeq(file, 1, 8 * b) # << >> => FromBinary(SubSeq(file, 1, 8 * b)) = NoMap
    <3>1. ~CannotEncode(TrieOf(assigned), fill)
      BY <1>1, <2>1
    <3>2. \A b \in 0 .. Len(ToBinary(TrieOf(assigned), fill)) \div 8 - 1 :
             SubSeq(ToBinary(TrieOf(assigned), fill), 1, 8 * b) # << >> =>
                FromBinary(SubSeq(ToBinary(TrieOf(assigned), fill), 1, 8 * b)) = NoMap
      BY ONLY <1>1, <2>1, <3>1, FileOfMap
    <3>3. file = ToBinary(TrieOf(assigned), fill)
      BY <1>1, <2>1
    <3> QED BY ONLY <3>2, <3>3
  <2>3. cut = << >> \/ FromBinary(cut) = NoMap
    BY <1>1, <2>2
  <2>4. cut = << >> => FromBinary(cut) = EmptyMap
    BY DEF FromBinary
  <2>5. LoadFile(cut) = LoadedAs(ReadsAsComments(Bytes(cut)), FromBinary(cut), cut)
    BY DEF LoadFile
  <2> QED BY <2>3, <2>4, <2>5 DEF LoadedAs
<1>2. TInv => CutFileAssignsNothing
  BY <1>1 DEF CutFileAssignsNothing
<1> QED BY <1>2, TypedInvariant, PTL

=============================================================================
