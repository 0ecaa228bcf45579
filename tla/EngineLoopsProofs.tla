-------------------------- MODULE EngineLoopsProofs ------------------------
(***************************************************************************)
(* Theorems about the two loops that the engine modules use as definitions.*)
(* The loop of validated_vote_keys computes the verdict and the vote keys  *)
(* of EntryGate, for claims of every length; the loop of finalize elects   *)
(* the winners of QuorumTally, for every vote map, threshold and order of  *)
(* iteration.                                                              *)
(***************************************************************************)
EXTENDS GateSixLoop, FinalizeLoop, PathProofs

---------------------------------------------------------------------------
(* What one more entry does to the definitions.                            *)

(***************************************************************************)
(* The list after one more entry.                                          *)
(***************************************************************************)
LEMMA AppendedList ==
    ASSUME NEW S, NEW list \in Seq(S), NEW e \in S
    PROVE  LET longer == Append(list, e)
           IN  /\ IsEntryList(list) /\ IsEntryList(longer)
               /\ longer \in Seq(S)
               /\ DOMAIN longer = DOMAIN list \cup {Len(list) + 1}
               /\ Len(list) + 1 \notin DOMAIN list
               /\ longer[Len(list) + 1] = e
               /\ \A i \in DOMAIN list : longer[i] = list[i]
BY DEF IsEntryList

(***************************************************************************)
(* A later entry does not change the verdict on an earlier one.            *)
(***************************************************************************)
LEMMA VerdictsAreFinal ==
    ASSUME NEW S, NEW list \in Seq(S), NEW e \in S
    PROVE  \A i \in DOMAIN list : ViolationAt(Append(list, e), i) = ViolationAt(list, i)
<1> DEFINE longer == Append(list, e)
<1> SUFFICES ASSUME NEW i \in DOMAIN list
             PROVE  ViolationAt(longer, i) = ViolationAt(list, i)
  OBVIOUS
<1>1. /\ IsEntryList(list) /\ longer[i] = list[i]
      /\ \A j \in DOMAIN list : longer[j] = list[j]
  BY AppendedList
<1>2. \A j \in 1 .. i - 1 : j \in DOMAIN list
  BY <1>1 DEF IsEntryList
<1> HIDE DEF longer
<1>3. ConflictsWithEarlier(longer, i) <=> ConflictsWithEarlier(list, i)
  BY <1>1, <1>2 DEF ConflictsWithEarlier
<1> QED BY <1>1, <1>3 DEF ViolationAt

(***************************************************************************)
(* As long as no entry is bad, the verdict is the one on the last entry.   *)
(***************************************************************************)
LEMMA VerdictOfAppend ==
    ASSUME NEW S, NEW list \in Seq(S), NEW e \in S, EntriesViolation(list) = Ok
    PROVE  EntriesViolation(Append(list, e)) = ViolationAt(Append(list, e), Len(list) + 1)
<1> DEFINE longer == Append(list, e)
           n == Len(list) + 1
           isFirst(i) == /\ ViolationAt(longer, i) # Ok
                         /\ \A j \in 1 .. i - 1 : ViolationAt(longer, j) = Ok
<1>1. /\ IsEntryList(list) /\ n \in Nat
      /\ DOMAIN longer = DOMAIN list \cup {n}
  BY AppendedList DEF IsEntryList
<1>2. \A i \in DOMAIN list : ViolationAt(longer, i) = Ok
  BY <1>1, VerdictOkMeansEveryEntryOk, VerdictsAreFinal
<1>3. 1 .. n - 1 = DOMAIN list
  BY <1>1 DEF IsEntryList
<1> HIDE DEF longer, n
<1>4. CASE ViolationAt(longer, n) = Ok
  BY <1>1, <1>2, <1>4 DEF EntriesViolation, longer, n
<1>5. CASE ViolationAt(longer, n) # Ok
  <2>1. n \in DOMAIN longer /\ isFirst(n)
    BY <1>1, <1>2, <1>3, <1>5
  <2>2. \A i \in DOMAIN longer : isFirst(i) => i = n
    BY <1>1, <1>2
  <2>3. (CHOOSE i \in DOMAIN longer : isFirst(i)) = n
    BY <2>1, <2>2
  <2>4. EntriesViolation(longer) = ViolationAt(longer, CHOOSE i \in DOMAIN longer : isFirst(i))
    BY <1>1, <1>5 DEF EntriesViolation
  <2> QED BY <2>3, <2>4 DEF longer, n
<1> QED BY <1>4, <1>5

(***************************************************************************)
(* One more entry adds its key.                                            *)
(***************************************************************************)
LEMMA KeysOfAppend ==
    ASSUME NEW S, NEW list \in Seq(S), NEW e \in S
    PROVE  VoteKeys(Append(list, e)) = VoteKeys(list) \cup {Key(e)}
<1> DEFINE longer == Append(list, e)
<1>1. /\ DOMAIN longer = DOMAIN list \cup {Len(list) + 1}
      /\ longer[Len(list) + 1] = e
      /\ \A i \in DOMAIN list : longer[i] = list[i]
  BY AppendedList
<1> HIDE DEF longer
<1> QED BY <1>1 DEF VoteKeys, longer

---------------------------------------------------------------------------
(* The invariant of the loop.                                              *)

(***************************************************************************)
(* While the loop runs, `seen` maps exactly the prefixes read to the one   *)
(* ASN each was read with, and `keys` lists that map without repeats.      *)
(***************************************************************************)
SeenIsRead ==
    /\ \A i \in DOMAIN entries :
          /\ EntryViolation(entries[i]) = Ok
          /\ CanonicalPrefix(entries[i].ip_prefix) \in DOMAIN seen
          /\ seen[CanonicalPrefix(entries[i].ip_prefix)] = entries[i].asn
    /\ \A p \in DOMAIN seen : \E i \in DOMAIN entries :
          p = CanonicalPrefix(entries[i].ip_prefix)

IInv ==
    /\ TypeOK
    /\ LoopComputesVoteKeys
    /\ verdict = Ok => SeenIsRead

(***************************************************************************)
(* Nothing read, nothing seen, no key.                                     *)
(***************************************************************************)
LEMMA InitInvariant == Init => IInv
<1> SUFFICES ASSUME Init PROVE IInv
  OBVIOUS
<1>1. /\ entries = << >> /\ keys = << >> /\ verdict = Ok
      /\ DOMAIN seen = {} /\ DOMAIN entries = {} /\ DOMAIN keys = {}
      /\ seen = [p \in {} |-> 0]
  BY DEF Init
<1>2. EntriesViolation(entries) = Ok /\ VoteKeys(entries) = {}
  BY <1>1 DEF EntriesViolation, VoteKeys
<1>3. TypeOK
  BY <1>1 DEF TypeOK
<1> QED BY <1>1, <1>2, <1>3 DEF IInv, LoopComputesVoteKeys, SeenIsRead

(***************************************************************************)
(* Entry e conflicts with an entry before it just if its prefix has been   *)
(* seen with another ASN.                                                  *)
(***************************************************************************)
LEMMA SeenDecidesConflict ==
    ASSUME TypeOK, SeenIsRead, NEW e \in Entry
    PROVE  LET p == CanonicalPrefix(e.ip_prefix)
           IN  ConflictsWithEarlier(Append(entries, e), Len(entries) + 1)
                  <=> p \in DOMAIN seen /\ seen[p] # e.asn
<1> DEFINE longer == Append(entries, e)
           n == Len(entries) + 1
           p == CanonicalPrefix(e.ip_prefix)
<1>1. /\ IsEntryList(entries) /\ n \in Nat
      /\ longer[n] = e
      /\ \A i \in DOMAIN entries : longer[i] = entries[i]
  BY AppendedList DEF TypeOK, IsEntryList
<1>2. 1 .. n - 1 = DOMAIN entries
  BY <1>1 DEF IsEntryList
<1> HIDE DEF longer, n
<1>3. ConflictsWithEarlier(longer, n)
         <=> \E j \in DOMAIN entries : /\ EntryViolation(entries[j]) = Ok
                                       /\ CanonicalPrefix(entries[j].ip_prefix) = p
                                       /\ entries[j].asn # e.asn
  BY <1>1, <1>2 DEF ConflictsWithEarlier
<1>4. @ <=> p \in DOMAIN seen /\ seen[p] # e.asn
  BY DEF SeenIsRead
<1> QED BY <1>3, <1>4 DEF longer, n

---------------------------------------------------------------------------
(* One iteration.                                                          *)

(***************************************************************************)
(* Reading another good entry keeps the entries read a good list; what is  *)
(* left of the invariant to show is that `seen` and `keys` follow.         *)
(***************************************************************************)
LEMMA ReadEffect ==
    ASSUME IInv, NEW e \in Entry, Read(e)
    PROVE  /\ SeenIsRead /\ TypeOK /\ EntriesViolation(entries) = Ok
           /\ entries' \in Seq(Entry)
           /\ DOMAIN entries' = DOMAIN entries \cup {Len(entries) + 1}
           /\ entries'[Len(entries) + 1] = e
           /\ \A i \in DOMAIN entries : entries'[i] = entries[i]
           /\ EntriesViolation(entries') = ViolationAt(entries', Len(entries) + 1)
           /\ VoteKeys(entries') = VoteKeys(entries) \cup {Key(e)}
           /\ ConflictsWithEarlier(entries', Len(entries) + 1)
                <=> /\ CanonicalPrefix(e.ip_prefix) \in DOMAIN seen
                    /\ seen[CanonicalPrefix(e.ip_prefix)] # e.asn
<1>1. verdict = Ok /\ entries' = Append(entries, e) /\ entries \in Seq(Entry)
  BY DEF Read, IInv, TypeOK
<1>2. EntriesViolation(entries) = Ok /\ SeenIsRead /\ TypeOK
  BY <1>1 DEF IInv, LoopComputesVoteKeys
<1> QED BY <1>1, <1>2, AppendedList, VerdictOfAppend, KeysOfAppend, SeenDecidesConflict

(***************************************************************************)
(* An entry that is bad by itself ends the loop with its own reason.       *)
(***************************************************************************)
LEMMA ViolationStep ==
    ASSUME IInv, NEW e \in Entry, Read(e), ReturnViolation(e)
    PROVE  IInv'
<1>1. TypeOK'
  BY ReadEffect DEF ReturnViolation, TypeOK
<1>2. verdict' = EntriesViolation(entries') /\ verdict' # Ok
  BY ReadEffect DEF ReturnViolation, ViolationAt
<1> QED BY <1>1, <1>2 DEF IInv, LoopComputesVoteKeys

(***************************************************************************)
(* Storing a good entry under its prefix keeps `seen` well typed.          *)
(***************************************************************************)
LEMMA InsertType ==
    ASSUME TypeOK, NEW e, EntryViolation(e) = Ok,
           Insert(CanonicalPrefix(e.ip_prefix), e.asn)
    PROVE  LET p == CanonicalPrefix(e.ip_prefix)
           IN  /\ DOMAIN seen' = DOMAIN seen \cup {p}
               /\ seen'[p] = e.asn
               /\ \A q \in DOMAIN seen : q # p => seen'[q] = seen[q]
               /\ DOMAIN seen' \subseteq Prefix
               /\ seen' \in [DOMAIN seen' -> Asn]
<1> DEFINE p == CanonicalPrefix(e.ip_prefix)
<1>1. /\ DOMAIN seen' = DOMAIN seen \cup {p}
      /\ seen'[p] = e.asn
      /\ \A q \in DOMAIN seen : q # p => seen'[q] = seen[q]
      /\ seen' = [q \in DOMAIN seen' |-> seen'[q]]
  BY DEF Insert
<1>2. p \in Prefix /\ e.asn \in Asn
  BY OkEntryKey DEF Key, VoteKey
<1>3. \A q \in DOMAIN seen' : q \in Prefix /\ seen'[q] \in Asn
  BY <1>1, <1>2 DEF TypeOK
<1> QED BY <1>1, <1>3

(***************************************************************************)
(* A prefix seen with another ASN ends the loop with a conflict.           *)
(***************************************************************************)
LEMMA ConflictStep ==
    ASSUME IInv, NEW e \in Entry, Read(e), ReturnConflict(e, CanonicalPrefix(e.ip_prefix))
    PROVE  IInv'
<1>1. TypeOK'
  BY ReadEffect, InsertType DEF ReturnConflict, TypeOK
<1>2. verdict' = EntriesViolation(entries') /\ verdict' # Ok
  BY ReadEffect DEF ReturnConflict, ViolationAt, Ok
<1> QED BY <1>1, <1>2 DEF IInv, LoopComputesVoteKeys

(***************************************************************************)
(* A repeat of a key seen before changes nothing.                          *)
(***************************************************************************)
LEMMA RepeatStep ==
    ASSUME IInv, NEW e \in Entry, Read(e), SkipRepeat(e, CanonicalPrefix(e.ip_prefix))
    PROVE  IInv'
<1> DEFINE p == CanonicalPrefix(e.ip_prefix)
<1>1. /\ EntryViolation(e) = Ok /\ p \in DOMAIN seen /\ seen[p] = e.asn
      /\ seen' = seen /\ keys' = keys /\ verdict' = verdict /\ verdict = Ok
  BY DEF SkipRepeat, Read
<1>2. TypeOK'
  BY <1>1, ReadEffect DEF TypeOK
<1>3. EntriesViolation(entries') = Ok
  BY <1>1, ReadEffect DEF ViolationAt
<1>4. PICK i \in DOMAIN entries : p = CanonicalPrefix(entries[i].ip_prefix)
  BY <1>1, ReadEffect DEF SeenIsRead
<1>5. Key(e) = Key(entries[i])
  BY <1>1, <1>4, ReadEffect DEF SeenIsRead, Key
<1>6. VoteKeys(entries') = VoteKeys(entries)
  BY <1>5, ReadEffect DEF VoteKeys
<1>7. LoopComputesVoteKeys'
  BY <1>1, <1>3, <1>6 DEF IInv, LoopComputesVoteKeys
<1>8. SeenIsRead'
  BY <1>1, ReadEffect DEF SeenIsRead
<1> QED BY <1>2, <1>7, <1>8 DEF IInv

(***************************************************************************)
(* A new prefix is stored, and its key is pushed.                          *)
(***************************************************************************)
LEMMA PushStep ==
    ASSUME IInv, NEW e \in Entry, Read(e), PushKey(e, CanonicalPrefix(e.ip_prefix))
    PROVE  IInv'
<1> DEFINE p == CanonicalPrefix(e.ip_prefix)
<1>1. /\ EntryViolation(e) = Ok /\ p \notin DOMAIN seen
      /\ Insert(p, e.asn) /\ keys' = Append(keys, Key(e))
      /\ verdict' = verdict /\ verdict = Ok
  BY DEF PushKey, Read, Key
<1>2. /\ DOMAIN seen' = DOMAIN seen \cup {p}
      /\ seen'[p] = e.asn
      /\ \A q \in DOMAIN seen : q # p => seen'[q] = seen[q]
      /\ DOMAIN seen' \subseteq Prefix /\ seen' \in [DOMAIN seen' -> Asn]
  BY <1>1, ReadEffect, InsertType
<1>3. Key(e) \in VoteKey /\ keys \in Seq(VoteKey)
  BY <1>1, OkEntryKey, ReadEffect DEF TypeOK
<1>4. /\ keys' \in Seq(VoteKey)
      /\ DOMAIN keys' = DOMAIN keys \cup {Len(keys) + 1}
      /\ keys'[Len(keys) + 1] = Key(e)
      /\ \A i \in DOMAIN keys : keys'[i] = keys[i]
  BY <1>1, <1>3, AppendedList
<1>5. TypeOK'
  BY <1>2, <1>4, ReadEffect DEF TypeOK
<1>6. EntriesViolation(entries') = Ok
  BY <1>1, ReadEffect DEF ViolationAt
<1>7. Key(e) \notin VoteKeys(entries)
  <2>1. \A i \in DOMAIN entries : CanonicalPrefix(entries[i].ip_prefix) # p
    BY <1>1, ReadEffect DEF SeenIsRead
  <2> QED BY <2>1 DEF VoteKeys, Key
<1>8. /\ {keys[i] : i \in DOMAIN keys} = VoteKeys(entries)
      /\ \A i, j \in DOMAIN keys : keys[i] = keys[j] => i = j
  BY <1>1 DEF IInv, LoopComputesVoteKeys
<1>9. {keys'[i] : i \in DOMAIN keys'} = VoteKeys(entries')
  BY <1>4, <1>8, ReadEffect
<1>10. \A i, j \in DOMAIN keys' : keys'[i] = keys'[j] => i = j
  BY <1>4, <1>7, <1>8
<1>11. LoopComputesVoteKeys'
  BY <1>1, <1>6, <1>9, <1>10 DEF LoopComputesVoteKeys
<1>12. SeenIsRead'
  BY SMTT(30), <1>1, <1>2, ReadEffect DEF SeenIsRead
<1> QED BY <1>5, <1>11, <1>12 DEF IInv

(***************************************************************************)
(* Every iteration keeps the invariant.                                    *)
(***************************************************************************)
LEMMA NextInvariant == IInv /\ [Next]_vars => IInv'
<1> SUFFICES ASSUME IInv, [Next]_vars PROVE IInv'
  OBVIOUS
<1>1. CASE Next
  BY <1>1, ViolationStep, ConflictStep, RepeatStep, PushStep DEF Next
<1>2. CASE UNCHANGED vars
  BY <1>2 DEF vars, IInv, TypeOK, LoopComputesVoteKeys, SeenIsRead
<1> QED BY <1>1, <1>2

(***************************************************************************)
(* The invariant holds of every run of the loop.                           *)
(***************************************************************************)
THEOREM Invariant == Spec => []IInv
<1> QED BY InitInvariant, NextInvariant, PTL DEF Spec

(***************************************************************************)
(* The loop's map and vector keep their types: what it stores are          *)
(* canonical prefixes and ASNs the codec can encode, whatever the claim.   *)
(***************************************************************************)
THEOREM TypeCorrect == Spec => []TypeOK
<1>1. IInv => TypeOK
  BY DEF IInv
<1> QED BY <1>1, Invariant, PTL

(***************************************************************************)
(* validated_vote_keys computes the definition: the reason of the first    *)
(* bad entry, or every vote key of the claim once.                         *)
(***************************************************************************)
THEOREM LoopIsDefinition == Spec => []LoopComputesVoteKeys
<1>1. IInv => LoopComputesVoteKeys
  BY DEF IInv
<1> QED BY <1>1, Invariant, PTL

(***************************************************************************)
(* The trie path of a clear prefix leaves the mapped range: it goes below  *)
(* the range's boundary or parts from it on the way.                       *)
(***************************************************************************)
LEMMA ClearPathLeavesMappedRange ==
    ASSUME NEW p, ClearPrefix(p)
    PROVE  \E i \in DOMAIN IpToBits(p) : i > MappedBits \/ IpToBits(p)[i] # MappedRange[i]
<1> USE WidthAssumption
<1>1. p.fam \in {"v4", "v6"} /\ p.len \in Nat /\ p.bits \in [1 .. p.len -> Bit]
  BY DEF ClearPrefix, Prefix, PrefixOf, V6Bits
<1>2. CASE p.fam = "v6"
  <2>1. PICK i \in 1 .. MappedBits : i <= p.len /\ p.bits[i] # MappedRange[i]
    BY <1>2 DEF ClearPrefix, TouchesMappedRange
  <2>2. IpToBits(p) = p.bits /\ i \in DOMAIN p.bits
    BY <1>1, <1>2, <2>1 DEF IpToBits
  <2> QED BY <2>1, <2>2
<1>3. CASE p.fam = "v4"
  <2>1. p.len # 0
    BY DEF ClearPrefix
  <2>2. MappedBits + 1 \in 1 .. MappedBits + p.len /\ MappedBits + 1 > MappedBits
    BY <1>1, <2>1
  <2>3. DOMAIN IpToBits(p) = 1 .. MappedBits + p.len
    BY <1>3 DEF IpToBits
  <2> QED BY <2>2, <2>3
<1> QED BY <1>1, <1>2, <1>3

(***************************************************************************)
(* No claim that passes votes for one stretch of address space twice, nor  *)
(* for the root of the trie or for the whole of IPv4.                      *)
(***************************************************************************)
THEOREM DistinctPaths == Spec => []KeysAddressDistinctPaths
<1>1. IInv => KeysAddressDistinctPaths
  <2> SUFFICES ASSUME IInv, verdict = Ok
               PROVE  /\ \A j, k \in VoteKeys(entries) :
                            IpToBits(j[1]) = IpToBits(k[1]) => j = k
                      /\ \A k \in VoteKeys(entries) : \E i \in DOMAIN IpToBits(k[1]) :
                            i > MappedBits \/ IpToBits(k[1])[i] # MappedRange[i]
    BY DEF KeysAddressDistinctPaths
  <2>1. IsEntryList(entries) /\ EntriesViolation(entries) = Ok
    BY DEF IInv, TypeOK, LoopComputesVoteKeys, IsEntryList
  <2> QED BY <2>1, VoteKeysDistinct, ClearPathLeavesMappedRange
<1> QED BY <1>1, Invariant, PTL


---------------------------------------------------------------------------
(* The order of candidates.                                                *)

(***************************************************************************)
(* Of two candidates with different ASNs exactly one beats the other.      *)
(***************************************************************************)
LEMMA OneOfTwoWins ==
    ASSUME NEW a \in Nat, NEW n \in Nat, NEW b \in Nat, NEW m \in Nat
    PROVE  /\ ~(Beats(a, n, b, m) /\ Beats(b, m, a, n))
           /\ a # b => Beats(a, n, b, m) \/ Beats(b, m, a, n)
BY DEF Beats

---------------------------------------------------------------------------
(* The invariant of the walk.                                              *)

Visited == DOMAIN votes \ pending

(* Key k is the winner for its prefix among the keys visited. *)
Leads(k, visited) ==
    /\ k \in visited
    /\ votes[k] >= Threshold
    /\ \A rival \in visited :
          rival[1] = k[1] /\ rival # k => Beats(k[2], votes[k], rival[2], votes[rival])

(***************************************************************************)
(* What best_by_prefix holds is a leader with its own count, and a prefix  *)
(* is missing only if none of its keys yielded so far has enough votes.    *)
(***************************************************************************)
FinalizeIInv ==
    /\ FinalizeTypeOK
    /\ \A p \in DOMAIN best_by_prefix :
          LET k == <<p, best_by_prefix[p][1]>>
          IN  Leads(k, Visited) /\ best_by_prefix[p][2] = votes[k]
    /\ \A k \in Visited : votes[k] >= Threshold => k[1] \in DOMAIN best_by_prefix

(***************************************************************************)
(* The keys of the vote map are pairs with an ASN, their counts naturals.  *)
(***************************************************************************)
LEMMA VoteTypes ==
    ASSUME FinalizeTypeOK, NEW k \in DOMAIN votes
    PROVE  /\ k = <<k[1], k[2]>>
           /\ k[1] \in Voted /\ k[2] \in VotedAsn /\ k[2] \in Nat
           /\ votes[k] \in Nat
BY VotedAssumption DEF FinalizeTypeOK, Candidate

(***************************************************************************)
(* The invariant says what the run checks.                                 *)
(***************************************************************************)
LEMMA InvariantImpliesElected ==
    ASSUME FinalizeIInv
    PROVE  BestIsElectedAmongVisited
<1> DEFINE visited == [k \in Visited |-> votes[k]]
<1>1. FinalizeTypeOK
  BY DEF FinalizeIInv
<1>2. \A k : Elected(visited, Threshold, k) <=> Leads(k, Visited)
  BY DEF Elected, Leads
<1> HIDE DEF visited
<1>3. ASSUME NEW e \in Entries(best_by_prefix)
      PROVE  e \in FinalEntries(visited, Threshold)
  <2>1. PICK p \in DOMAIN best_by_prefix :
           e = [ip_prefix |-> p, asn |-> best_by_prefix[p][1], votes |-> best_by_prefix[p][2]]
    BY DEF Entries
  <2> DEFINE k == <<p, best_by_prefix[p][1]>>
  <2>2. Leads(k, Visited) /\ best_by_prefix[p][2] = votes[k]
    BY DEF FinalizeIInv
  <2>3. k \in DOMAIN visited /\ visited[k] = votes[k]
    BY <2>2 DEF visited, Leads
  <2> QED BY <1>2, <2>1, <2>2, <2>3 DEF FinalEntries
<1>4. ASSUME NEW e \in FinalEntries(visited, Threshold)
      PROVE  e \in Entries(best_by_prefix)
  <2>1. PICK k \in DOMAIN visited :
           /\ Elected(visited, Threshold, k)
           /\ e = [ip_prefix |-> k[1], asn |-> k[2], votes |-> visited[k]]
    BY DEF FinalEntries
  <2>2. Leads(k, Visited) /\ k \in Visited /\ visited[k] = votes[k]
    BY <1>2, <2>1 DEF visited
  <2>3. k[1] \in DOMAIN best_by_prefix
    BY <2>2 DEF FinalizeIInv, Leads
  <2> DEFINE j == <<k[1], best_by_prefix[k[1]][1]>>
  <2>4. Leads(j, Visited) /\ best_by_prefix[k[1]][2] = votes[j]
    BY <2>3 DEF FinalizeIInv
  <2>5. ASSUME j # k PROVE FALSE
    <3>1. k \in DOMAIN votes /\ j \in DOMAIN votes /\ j \in Visited
      BY <2>2, <2>4 DEF Visited, Leads
    <3>2. Beats(k[2], votes[k], j[2], votes[j]) /\ Beats(j[2], votes[j], k[2], votes[k])
      BY <2>2, <2>4, <2>5, <3>1 DEF Leads
    <3> QED BY <1>1, <3>1, <3>2, VoteTypes, OneOfTwoWins
  <2>6. e = [ip_prefix |-> k[1], asn |-> best_by_prefix[k[1]][1],
             votes |-> best_by_prefix[k[1]][2]]
    BY <2>1, <2>2, <2>4, <2>5
  <2> QED BY <2>3, <2>6 DEF Entries
<1>5. visited = [k \in DOMAIN votes \ pending |-> votes[k]]
  BY DEF visited, Visited
<1> QED BY <1>3, <1>4, <1>5 DEF BestIsElectedAmongVisited

(***************************************************************************)
(* Before the first key nothing is visited and no best is known.           *)
(***************************************************************************)
LEMMA FinalizeInitInvariant == FinalizeInit => FinalizeIInv
<1> SUFFICES ASSUME FinalizeInit PROVE FinalizeIInv
  OBVIOUS
<1>1. DOMAIN best_by_prefix = {} /\ Visited = {}
  BY DEF FinalizeInit, Visited
<1>2. FinalizeTypeOK
  BY <1>1 DEF FinalizeInit, FinalizeTypeOK
<1> QED BY <1>1, <1>2 DEF FinalizeIInv

---------------------------------------------------------------------------
(* One iteration.                                                          *)

(***************************************************************************)
(* Yielding k moves just k to the visited keys.                            *)
(***************************************************************************)
LEMMA YieldVisits ==
    ASSUME FinalizeIInv, NEW k \in pending, pending' = pending \ {k}, UNCHANGED votes
    PROVE  /\ k \in DOMAIN votes /\ k \notin Visited
           /\ Visited' = Visited \cup {k}
           /\ \A j \in Visited : votes[j] >= Threshold => j[1] \in DOMAIN best_by_prefix
BY DEF FinalizeIInv, FinalizeTypeOK, Visited

(***************************************************************************)
(* The invariant after a step, said with the votes of before it.           *)
(***************************************************************************)
LEMMA InvariantAfterStep ==
    ASSUME UNCHANGED votes, FinalizeTypeOK',
           \A p \in DOMAIN best_by_prefix' :
              LET j == <<p, best_by_prefix'[p][1]>>
              IN  Leads(j, Visited') /\ best_by_prefix'[p][2] = votes[j],
           \A j \in Visited' : votes[j] >= Threshold => j[1] \in DOMAIN best_by_prefix'
    PROVE  FinalizeIInv'
BY DEF FinalizeIInv, Leads

(***************************************************************************)
(* A leader of another prefix still leads after k has been yielded.        *)
(***************************************************************************)
LEMMA OtherLeadersStay ==
    ASSUME FinalizeIInv, NEW k \in pending, pending' = pending \ {k}, UNCHANGED votes,
           NEW p \in DOMAIN best_by_prefix, p # k[1]
    PROVE  LET j == <<p, best_by_prefix[p][1]>>
           IN  Leads(j, Visited') /\ best_by_prefix[p][2] = votes[j]
<1> DEFINE j == <<p, best_by_prefix[p][1]>>
<1>1. Leads(j, Visited) /\ best_by_prefix[p][2] = votes[j]
  BY DEF FinalizeIInv
<1>2. j[1] = p
  OBVIOUS
<1> QED BY <1>1, <1>2, YieldVisits DEF Leads

(***************************************************************************)
(* count < threshold: k can neither lead nor displace the leader, who has  *)
(* more votes.                                                             *)
(***************************************************************************)
LEMMA SkipKeepsInvariant ==
    ASSUME FinalizeIInv, NEW k \in pending, pending' = pending \ {k}, UNCHANGED votes,
           SkipBelowThreshold(k)
    PROVE  FinalizeIInv'
<1>1. best_by_prefix' = best_by_prefix /\ ~(votes[k] >= Threshold)
  BY VoteTypes, YieldVisits, VotedAssumption DEF SkipBelowThreshold, FinalizeIInv
<1>2. FinalizeTypeOK'
  BY <1>1 DEF FinalizeIInv, FinalizeTypeOK
<1>3. ASSUME NEW p \in DOMAIN best_by_prefix
      PROVE  LET j == <<p, best_by_prefix[p][1]>>
             IN  Leads(j, Visited') /\ best_by_prefix[p][2] = votes[j]
  <2> DEFINE j == <<p, best_by_prefix[p][1]>>
  <2>1. Leads(j, Visited) /\ best_by_prefix[p][2] = votes[j]
    BY DEF FinalizeIInv
  <2>2. votes[j] \in Nat /\ votes[k] \in Nat /\ votes[j] > votes[k]
    BY <1>1, <2>1, VoteTypes, YieldVisits, VotedAssumption DEF FinalizeIInv, Leads, Visited
  <2>3. Beats(j[2], votes[j], k[2], votes[k])
    BY <2>2 DEF Beats
  <2> QED BY <2>1, <2>3, YieldVisits DEF Leads
<1>4. \A j \in Visited' : votes[j] >= Threshold => j[1] \in DOMAIN best_by_prefix
  BY <1>1, YieldVisits
<1> QED BY <1>1, <1>2, <1>3, <1>4, InvariantAfterStep

(***************************************************************************)
(* or_insert and the replacing and_modify: a key with enough votes that    *)
(* beats every visited key of its prefix takes its prefix over.            *)
(***************************************************************************)
LEMMA InsertKeepsInvariant ==
    ASSUME FinalizeIInv, NEW k \in pending, pending' = pending \ {k}, UNCHANGED votes,
           votes[k] >= Threshold,
           \A rival \in Visited :
              rival[1] = k[1] => Beats(k[2], votes[k], rival[2], votes[rival]),
           InsertBest(k[1], <<k[2], votes[k]>>)
    PROVE  FinalizeIInv'
<1>1. /\ DOMAIN best_by_prefix' = DOMAIN best_by_prefix \cup {k[1]}
      /\ best_by_prefix'[k[1]] = <<k[2], votes[k]>>
      /\ \A p \in DOMAIN best_by_prefix : p # k[1] => best_by_prefix'[p] = best_by_prefix[p]
      /\ best_by_prefix' = [p \in DOMAIN best_by_prefix' |-> best_by_prefix'[p]]
  BY DEF InsertBest
<1>2. k \in DOMAIN votes /\ FinalizeTypeOK
  BY YieldVisits DEF FinalizeIInv
<1>3. k = <<k[1], k[2]>> /\ k[1] \in Voted /\ k[2] \in VotedAsn /\ votes[k] \in Nat
  BY <1>2, VoteTypes
<1>4. FinalizeTypeOK'
  <2>1. \A p \in DOMAIN best_by_prefix' : p \in Voted /\ best_by_prefix'[p] \in VotedAsn \X Nat
    BY <1>1, <1>2, <1>3 DEF FinalizeTypeOK
  <2>2. best_by_prefix' \in [DOMAIN best_by_prefix' -> VotedAsn \X Nat]
    BY <1>1, <2>1
  <2> QED BY <1>2, <2>1, <2>2 DEF FinalizeTypeOK
<1>5. Leads(k, Visited')
  BY YieldVisits DEF Leads
<1>6. ASSUME NEW p \in DOMAIN best_by_prefix'
      PROVE  LET j == <<p, best_by_prefix'[p][1]>>
             IN  Leads(j, Visited') /\ best_by_prefix'[p][2] = votes[j]
  <2>1. CASE p = k[1]
    BY <1>1, <1>3, <1>5, <2>1
  <2>2. CASE p # k[1]
    BY <1>1, <2>2, OtherLeadersStay
  <2> QED BY <2>1, <2>2
<1>7. \A j \in Visited' : votes[j] >= Threshold => j[1] \in DOMAIN best_by_prefix'
  BY <1>1, YieldVisits
<1> QED BY <1>4, <1>6, <1>7, InvariantAfterStep

(***************************************************************************)
(* or_insert: a prefix without a best has no visited key with enough       *)
(* votes, so its first such key beats them all.                            *)
(***************************************************************************)
LEMMA FirstCandidateKeepsInvariant ==
    ASSUME FinalizeIInv, NEW k \in pending, pending' = pending \ {k}, UNCHANGED votes,
           FirstCandidate(k)
    PROVE  FinalizeIInv'
<1>1. ASSUME NEW rival \in Visited, rival[1] = k[1]
      PROVE  Beats(k[2], votes[k], rival[2], votes[rival])
  <2>1. ~(votes[rival] >= Threshold)
    BY <1>1, YieldVisits DEF FirstCandidate
  <2>2. votes[rival] \in Nat /\ votes[k] \in Nat
    BY VoteTypes, YieldVisits DEF FinalizeIInv, Visited
  <2> QED BY <2>1, <2>2, VotedAssumption DEF Beats, FirstCandidate
<1> QED BY <1>1, InsertKeepsInvariant DEF FirstCandidate

(***************************************************************************)
(* and_modify: a key that beats the best beats all the best has beaten,    *)
(* one that does not is beaten by it.                                      *)
(***************************************************************************)
LEMMA LaterCandidateKeepsInvariant ==
    ASSUME FinalizeIInv, NEW k \in pending, pending' = pending \ {k}, UNCHANGED votes,
           LaterCandidate(k)
    PROVE  FinalizeIInv'
<1> DEFINE j == <<k[1], best_by_prefix[k[1]][1]>>
<1>1. votes[k] >= Threshold /\ k[1] \in DOMAIN best_by_prefix
  BY DEF LaterCandidate
<1>2. Leads(j, Visited) /\ best_by_prefix[k[1]][2] = votes[j]
  BY <1>1 DEF FinalizeIInv
<1>3. /\ j \in Visited /\ j \in DOMAIN votes /\ j # k
      /\ k \in DOMAIN votes /\ FinalizeTypeOK
  BY <1>2, YieldVisits DEF Leads, Visited, FinalizeIInv
<1>4. /\ j[2] \in Nat /\ votes[j] \in Nat /\ k[2] \in Nat /\ votes[k] \in Nat
      /\ k = <<k[1], k[2]>>
  BY <1>3, VoteTypes
<1>5. CASE Beats(k[2], votes[k], j[2], votes[j])
  <2>1. ASSUME NEW rival \in Visited, rival[1] = k[1]
        PROVE  Beats(k[2], votes[k], rival[2], votes[rival])
    <3>1. CASE rival = j
      BY <1>5, <3>1
    <3>2. CASE rival # j
      <4>1. Beats(j[2], votes[j], rival[2], votes[rival])
        BY <1>2, <2>1, <3>2 DEF Leads
      <4>2. rival[2] \in Nat /\ votes[rival] \in Nat
        BY <1>3, VoteTypes DEF Visited
      <4> HIDE DEF j
      <4> QED BY <1>4, <1>5, <4>1, <4>2 DEF Beats
    <3> QED BY <3>1, <3>2
  <2>2. InsertBest(k[1], <<k[2], votes[k]>>)
    BY <1>2, <1>5 DEF LaterCandidate
  <2> QED BY <1>1, <2>1, <2>2, InsertKeepsInvariant
<1>6. CASE ~Beats(k[2], votes[k], j[2], votes[j])
  <2>1. best_by_prefix' = best_by_prefix
    BY <1>2, <1>6 DEF LaterCandidate
  <2>2. k[2] # j[2]
    BY <1>3, <1>4
  <2>3. Beats(j[2], votes[j], k[2], votes[k])
    BY <1>4, <1>6, <2>2, OneOfTwoWins
  <2>4. FinalizeTypeOK'
    BY <1>3, <2>1 DEF FinalizeTypeOK
  <2>5. Leads(j, Visited') /\ best_by_prefix[k[1]][2] = votes[j]
    BY <1>2, <2>3, YieldVisits DEF Leads
  <2>6. \A p \in DOMAIN best_by_prefix :
           LET i == <<p, best_by_prefix[p][1]>>
           IN  Leads(i, Visited') /\ best_by_prefix[p][2] = votes[i]
    BY <2>5, OtherLeadersStay
  <2>7. \A i \in Visited' : votes[i] >= Threshold => i[1] \in DOMAIN best_by_prefix
    BY <1>1, YieldVisits
  <2> QED BY <2>1, <2>4, <2>6, <2>7, InvariantAfterStep
<1> QED BY <1>5, <1>6

(***************************************************************************)
(* Every iteration keeps the invariant.                                    *)
(***************************************************************************)
LEMMA FinalizeNextInvariant == FinalizeIInv /\ [FinalizeNext]_finalize_vars => FinalizeIInv'
<1> SUFFICES ASSUME FinalizeIInv, [FinalizeNext]_finalize_vars PROVE FinalizeIInv'
  OBVIOUS
<1>1. CASE FinalizeNext
  <2>1. PICK k \in pending : Yield(k)
    BY <1>1 DEF FinalizeNext
  <2>2. pending' = pending \ {k} /\ UNCHANGED votes
    BY <2>1 DEF Yield
  <2>3. CASE SkipBelowThreshold(k)
    BY <2>2, <2>3, SkipKeepsInvariant
  <2>4. CASE FirstCandidate(k)
    BY <2>2, <2>4, FirstCandidateKeepsInvariant
  <2>5. CASE LaterCandidate(k)
    BY <2>2, <2>5, LaterCandidateKeepsInvariant
  <2> QED BY <2>1, <2>3, <2>4, <2>5 DEF Yield
<1>2. CASE UNCHANGED finalize_vars
  BY <1>2 DEF finalize_vars, FinalizeIInv, FinalizeTypeOK, Leads, Visited
<1> QED BY <1>1, <1>2

(***************************************************************************)
(* The invariant holds of every run of the loop.                           *)
(***************************************************************************)
THEOREM FinalizeInvariant == FinalizeSpec => []FinalizeIInv
<1> QED BY FinalizeInitInvariant, FinalizeNextInvariant, PTL DEF FinalizeSpec

(***************************************************************************)
(* The loop keeps its types: what it stores are pairs of an ASN voted to   *)
(* and a count, on prefixes voted on.                                      *)
(***************************************************************************)
THEOREM FinalizeTypes == FinalizeSpec => []FinalizeTypeOK
<1>1. FinalizeIInv => FinalizeTypeOK
  BY DEF FinalizeIInv
<1> QED BY <1>1, FinalizeInvariant, PTL

(***************************************************************************)
(* At every point of every walk the best candidates are the winners among  *)
(* the keys walked so far.                                                 *)
(***************************************************************************)
THEOREM BestIsElected == FinalizeSpec => []BestIsElectedAmongVisited
<1>1. FinalizeIInv => BestIsElectedAmongVisited
  BY InvariantImpliesElected
<1> QED BY <1>1, FinalizeInvariant, PTL

=============================================================================
