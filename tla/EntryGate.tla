----------------------------- MODULE EntryGate -----------------------------
(***************************************************************************)
(* Gate 6 of the claim validation: QuorumEngine::validated_vote_keys.      *)
(* Every entry is checked on its own and against the entries before it;    *)
(* the first bad entry rejects the claim, and a good claim yields one vote *)
(* key per network.                                                        *)
(***************************************************************************)
EXTENDS NetworkPrefix, Sequences

CONSTANTS
    ASN_MIN,   \* smallest ASN the codec encodes (1)
    ASN_MAX    \* largest ASN the codec encodes (33_521_664)

ASSUME AsnAssumption == ASN_MIN \in Nat /\ ASN_MAX \in Nat /\ 1 <= ASN_MIN

Asn == ASN_MIN .. ASN_MAX

VoteKey == Prefix \X Asn

Ok == "ok"

(* Vec<AsmapEntry>; Len is only known to be a number on sequences. *)
IsEntryList(entries) ==
    Len(entries) \in Nat /\ DOMAIN entries = 1 .. Len(entries)

(* Mutant: the codec's upper bound is not checked. *)
EntryViolationUncapped(e) ==
    IF e.asn < ASN_MIN THEN "unassigned_asn"
    ELSE IF e.ip_prefix \notin Network THEN "invalid_prefix"
    ELSE IF e.ip_prefix.len = 0 THEN "default_route_prefix"
    ELSE IF TouchesMappedRange(CanonicalPrefix(e.ip_prefix)) THEN "ipv4_mapped_prefix"
    ELSE Ok

(***************************************************************************)
(* The reasons one entry is refused for, in the order the code tries them. *)
(***************************************************************************)
EntryViolation(e) ==
    IF e.asn = 0 THEN "unassigned_asn"
    ELSE IF e.asn \notin Asn THEN "asn_out_of_range"
    ELSE IF e.ip_prefix \notin Network THEN "invalid_prefix"
    ELSE IF e.ip_prefix.len = 0 THEN "default_route_prefix"
    ELSE IF TouchesMappedRange(CanonicalPrefix(e.ip_prefix)) THEN "ipv4_mapped_prefix"
    ELSE Ok

Key(e) == <<CanonicalPrefix(e.ip_prefix), e.asn>>

(* Mutant: prefixes are compared as they are written, host bits and all. *)
ConflictsAsWritten(entries, i) ==
    \E j \in 1 .. i - 1 :
        /\ EntryViolation(entries[j]) = Ok
        /\ entries[j].ip_prefix = entries[i].ip_prefix
        /\ entries[j].asn # entries[i].asn

(***************************************************************************)
(* Entry i gives a network another AS than an earlier entry gave it.       *)
(***************************************************************************)
ConflictsWithEarlier(entries, i) ==
    \E j \in 1 .. i - 1 :
        /\ EntryViolation(entries[j]) = Ok
        /\ CanonicalPrefix(entries[j].ip_prefix) = CanonicalPrefix(entries[i].ip_prefix)
        /\ entries[j].asn # entries[i].asn

ViolationAt(entries, i) ==
    IF EntryViolation(entries[i]) # Ok THEN EntryViolation(entries[i])
    ELSE IF ConflictsWithEarlier(entries, i) THEN "conflicting_entry"
    ELSE Ok

(***************************************************************************)
(* The verdict on all entries is the verdict on the first bad one.         *)
(***************************************************************************)
EntriesViolation(entries) ==
    IF \A i \in DOMAIN entries : ViolationAt(entries, i) = Ok
    THEN Ok
    ELSE LET first == CHOOSE i \in DOMAIN entries :
                          /\ ViolationAt(entries, i) # Ok
                          /\ \A j \in 1 .. i - 1 : ViolationAt(entries, j) = Ok
         IN  ViolationAt(entries, first)

(***************************************************************************)
(* The vote keys of a claim that passes: a set, since repeats are dropped. *)
(***************************************************************************)
VoteKeys(entries) == {Key(entries[i]) : i \in DOMAIN entries}

=============================================================================
