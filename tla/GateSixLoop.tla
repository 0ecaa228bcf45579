---------------------------- MODULE GateSixLoop ----------------------------
(***************************************************************************)
(* The loop of QuorumEngine::validated_vote_keys, one entry per step: the  *)
(* map `seen` from prefix to ASN, the vector `keys`, and the early returns.*)
(* The claim is chosen as it is read, so a behaviour of the loop is a      *)
(* claim of up to MaxEntries entries.                                      *)
(***************************************************************************)
EXTENDS EntryGate

CONSTANTS
    EntryText,    \* what the ip_prefix of an entry may say
    EntryAsn,     \* what the asn of an entry may be
    MaxEntries    \* bound: entries of one claim

ASSUME EntryAssumption == EntryAsn \subseteq Nat /\ MaxEntries \in Nat

VARIABLES
    entries,   \* the part of claim.entries read so far
    seen,      \* prefix -> ASN, on the prefixes seen
    keys,      \* the vector of vote keys to return
    verdict    \* Ok while the loop runs, or the reason it returned

vars == <<entries, seen, keys, verdict>>

Entry == [ip_prefix : EntryText, asn : EntryAsn]

Init ==
    /\ entries = << >>
    /\ seen = [p \in {} |-> 0]
    /\ keys = << >>
    /\ verdict = Ok

Read(e) ==
    /\ verdict = Ok
    /\ Len(entries) < MaxEntries
    /\ entries' = Append(entries, e)

Insert(p, asn) ==
    seen' = [q \in DOMAIN seen \cup {p} |-> IF q = p THEN asn ELSE seen[q]]

(* The entry is bad whatever came before it. *)
ReturnViolation(e) ==
    /\ EntryViolation(e) # Ok
    /\ verdict' = EntryViolation(e)
    /\ UNCHANGED <<seen, keys>>

(* seen.insert returned another ASN: it has been overwritten by then. *)
ReturnConflict(e, p) ==
    /\ EntryViolation(e) = Ok
    /\ p \in DOMAIN seen
    /\ seen[p] # e.asn
    /\ verdict' = "conflicting_entry"
    /\ Insert(p, e.asn)
    /\ UNCHANGED keys

(* Mutant: a repeated entry is pushed again. *)
PushRepeat(e, p) ==
    /\ EntryViolation(e) = Ok
    /\ p \in DOMAIN seen
    /\ seen[p] = e.asn
    /\ keys' = Append(keys, <<p, e.asn>>)
    /\ UNCHANGED <<seen, verdict>>

SkipRepeat(e, p) ==
    /\ EntryViolation(e) = Ok
    /\ p \in DOMAIN seen
    /\ seen[p] = e.asn
    /\ UNCHANGED <<seen, keys, verdict>>

PushKey(e, p) ==
    /\ EntryViolation(e) = Ok
    /\ p \notin DOMAIN seen
    /\ Insert(p, e.asn)
    /\ keys' = Append(keys, <<p, e.asn>>)
    /\ UNCHANGED verdict

Next ==
    \E e \in Entry :
        /\ Read(e)
        /\ \/ ReturnViolation(e)
           \/ ReturnConflict(e, CanonicalPrefix(e.ip_prefix))
           \/ SkipRepeat(e, CanonicalPrefix(e.ip_prefix))
           \/ PushKey(e, CanonicalPrefix(e.ip_prefix))

Spec == Init /\ [][Next]_vars

---------------------------------------------------------------------------

TypeOK ==
    /\ entries \in Seq(Entry)
    /\ seen \in [DOMAIN seen -> Asn] /\ DOMAIN seen \subseteq Prefix
    /\ keys \in Seq(VoteKey)

(***************************************************************************)
(* The loop computes what the engine modules use in its place: the reason  *)
(* of the first bad entry, or the set of keys of all entries with no key   *)
(* repeated.                                                               *)
(***************************************************************************)
LoopComputesVoteKeys ==
    /\ verdict = EntriesViolation(entries)
    /\ verdict = Ok =>
          /\ {keys[i] : i \in DOMAIN keys} = VoteKeys(entries)
          /\ \A i, j \in DOMAIN keys : keys[i] = keys[j] => i = j

(***************************************************************************)
(* A claim that passes cannot vote for one stretch of address space twice: *)
(* its keys have pairwise distinct trie paths, and none of them is the     *)
(* root or covers all of IPv4.                                             *)
(***************************************************************************)
KeysAddressDistinctPaths ==
    verdict = Ok =>
        /\ \A j, k \in VoteKeys(entries) : IpToBits(j[1]) = IpToBits(k[1]) => j = k
        /\ \A k \in VoteKeys(entries) : \E i \in DOMAIN IpToBits(k[1]) :
              i > MappedBits \/ IpToBits(k[1])[i] # MappedRange[i]

=============================================================================
