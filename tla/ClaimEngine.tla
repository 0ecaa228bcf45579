---------------------------- MODULE ClaimEngine ----------------------------
(***************************************************************************)
(* struct QuorumEngine of bitcoin-asmap-quorum/src/lib.rs as a record, and *)
(* each of its methods as an operator from a record to the next one.  The  *)
(* modules that run an engine (QuorumEngine, OfflineReplay, ServeMesh)     *)
(* hold such records in their variables.                                   *)
(*                                                                         *)
(* A claim is [epoch, sender_id, claim_hash, entries], an entry is         *)
(* [ip_prefix, asn].  Texts are kept apart only as far as the code does:   *)
(* a sender_id is a PeerId, too long, or neither; a claim_hash is the      *)
(* digest of some claim or is not a digest at all.                         *)
(***************************************************************************)
EXTENDS EntryGate, FiniteSets

CONSTANTS
    PeerId,                \* the texts that parse as a libp2p PeerId
    OverlongId,            \* the texts longer than max_sender_id_len
    MalformedHash,         \* any text that is not 64 lower-case hex digits
    Threshold,             \* QuorumEngine.threshold
    MIN_CLAIM_ENTRIES,     \* limits.min_entries
    MAX_CLAIM_ENTRIES,     \* limits.max_entries
    MAX_SENDERS,           \* limits.max_senders as configured
    MAX_REJECTION_OBSERVATIONS,
    MAX_EPOCH_SKEW,
    EPOCH_ABSOLUTE_MAX,
    U64_MAX                \* u64::MAX, where saturating_add stops

ASSUME LimitAssumption ==
    /\ Threshold \in Nat
    /\ MIN_CLAIM_ENTRIES \in Nat /\ MAX_CLAIM_ENTRIES \in Nat
    /\ MAX_SENDERS \in Nat
    /\ MAX_REJECTION_OBSERVATIONS \in Nat
    /\ MAX_EPOCH_SKEW \in Nat
    /\ EPOCH_ABSOLUTE_MAX \in Nat /\ U64_MAX \in Nat
    /\ EPOCH_ABSOLUTE_MAX <= U64_MAX

ASSUME PeerIdAssumption == PeerId \cap OverlongId = {}

Epoch == 0 .. U64_MAX

Greater(m, n) == IF m >= n THEN m ELSE n
Lesser(m, n) == IF m <= n THEN m ELSE n
SaturatingAdd(m, n) == Lesser(m + n, U64_MAX)

(***************************************************************************)
(* The fixed reasons of CLAIM-VALIDATION.md section 3, split by whether    *)
(* the code keeps an observation of the claim or only counts it.           *)
(***************************************************************************)
CountedReason ==
    {"oversize_claim", "malformed_claim", "invalid_sender_id", "unparsable_sender",
     "malformed_claim_hash", "empty_claim", "too_many_entries", "epoch_out_of_range",
     "source_mismatch"}

RecordedReason ==
    {"claim_hash_mismatch", "stale_epoch", "epoch_jump_too_large", "unassigned_asn",
     "asn_out_of_range", "invalid_prefix", "default_route_prefix", "ipv4_mapped_prefix",
     "conflicting_entry", "sender_limit_exceeded", "duplicate_sender"}

Reason == CountedReason \cup RecordedReason

(***************************************************************************)
(* claim_hash: SHA-256 over the epoch, the sender and the sorted entries,  *)
(* taken to be collision-free.  Sorting makes it a function of the bag.    *)
(***************************************************************************)
ClaimHash(epoch, sender, entries) ==
    [epoch |-> epoch, sender |-> sender,
     bag |-> [e \in {entries[i] : i \in DOMAIN entries} |->
                 Cardinality({i \in DOMAIN entries : entries[i] = e})]]

---------------------------------------------------------------------------
(* Limits and construction.                                                *)

(* Mutant: max_senders is not widened to at least one. *)
MaxSendersAsGiven == Greater(MAX_SENDERS, Threshold)

MaxSenders == Greater(Greater(MAX_SENDERS, Threshold), 1)

AtUnixTime(now) == Lesser(SaturatingAdd(now, MAX_EPOCH_SKEW), EPOCH_ABSOLUTE_MAX)

(* Mutant: the raise is not capped. *)
UncappedCeiling(ceiling, epoch) ==
    Greater(ceiling, SaturatingAdd(epoch, MAX_EPOCH_SKEW))

RaisedCeiling(ceiling, epoch) ==
    Greater(ceiling, Lesser(SaturatingAdd(epoch, MAX_EPOCH_SKEW), EPOCH_ABSOLUTE_MAX))

EmptyRound(epoch, ceiling) ==
    [epoch           |-> epoch,
     max_epoch       |-> ceiling,
     seen_senders    |-> {},
     votes           |-> [k \in {} |-> 0],
     observations    |-> << >>,
     rejections_seen |-> 0,
     accepted_claims |-> 0,
     rejected_claims |-> [r \in Reason |-> 0]]

WithLimits(epoch, ceiling) == EmptyRound(epoch, RaisedCeiling(ceiling, epoch))

---------------------------------------------------------------------------
(* Epochs.                                                                 *)

(* Mutant: the votes of the round before are kept. *)
ResetKeepingVotes(eng, epoch) == [EmptyRound(epoch, eng.max_epoch) EXCEPT !.votes = eng.votes]

ResetForEpoch(eng, epoch) == EmptyRound(epoch, eng.max_epoch)

(* Mutant: the epoch it is given is taken for the current one. *)
AdvancePast(eng, epoch) == EmptyRound(SaturatingAdd(epoch, 1), RaisedCeiling(eng.max_epoch, epoch))

AdvanceEpoch(eng, epoch) == EmptyRound(epoch, RaisedCeiling(eng.max_epoch, epoch))

(* Mutant: a claim of the engine's own epoch restarts it. *)
AdoptOwnEpoch(eng, claim) ==
    IF claim.epoch >= eng.epoch THEN ResetForEpoch(eng, claim.epoch) ELSE eng

AdoptEpoch(eng, claim) ==
    IF claim.epoch > eng.epoch THEN ResetForEpoch(eng, claim.epoch) ELSE eng

---------------------------------------------------------------------------
(* The rejection ledger.                                                   *)

Observation(epoch, sender, reason) ==
    [epoch |-> epoch, sender_id |-> sender, accepted |-> reason = "accepted",
     reason |-> reason]

Counted(ledger, reason) == [ledger EXCEPT ![reason] = @ + 1]

CountRejection(eng, reason) ==
    [eng EXCEPT !.rejected_claims = Counted(@, reason)]

RecordRejection(eng, claim, reason) ==
    LET retained == eng.rejections_seen < MAX_REJECTION_OBSERVATIONS
    IN  [eng EXCEPT
            !.rejections_seen = @ + 1,
            !.observations = IF retained
                             THEN Append(@, Observation(claim.epoch, claim.sender_id, reason))
                             ELSE @,
            !.rejected_claims = Counted(@, reason)]

---------------------------------------------------------------------------
(* The gates.                                                              *)

(* Gate 1. *)
ShapeViolation(eng, claim) ==
    IF claim.sender_id \in OverlongId THEN "invalid_sender_id"
    ELSE IF claim.claim_hash = MalformedHash THEN "malformed_claim_hash"
    ELSE IF Len(claim.entries) < MIN_CLAIM_ENTRIES THEN "empty_claim"
    ELSE IF Len(claim.entries) > MAX_CLAIM_ENTRIES THEN "too_many_entries"
    ELSE IF claim.epoch > eng.max_epoch THEN "epoch_out_of_range"
    ELSE Ok

(* Gates 1 to 6: everything that is decided before the engine may change. *)
ClaimViolation(eng, claim, source) ==
    IF ShapeViolation(eng, claim) # Ok THEN ShapeViolation(eng, claim)
    ELSE IF claim.sender_id # source THEN "source_mismatch"
    ELSE IF claim.claim_hash # ClaimHash(claim.epoch, claim.sender_id, claim.entries)
         THEN "claim_hash_mismatch"
    ELSE IF claim.epoch < eng.epoch THEN "stale_epoch"
    ELSE IF claim.epoch > SaturatingAdd(eng.epoch, MAX_EPOCH_SKEW) THEN "epoch_jump_too_large"
    ELSE EntriesViolation(claim.entries)

(* Mutant: a sender may vote again. *)
SenderCapOnly(eng, claim) ==
    IF claim.sender_id \notin eng.seen_senders /\ Cardinality(eng.seen_senders) >= MaxSenders
    THEN "sender_limit_exceeded"
    ELSE Ok

(* Gate 8, on the engine that Gate 7 leaves. *)
SenderViolation(eng, claim) ==
    IF claim.sender_id \notin eng.seen_senders /\ Cardinality(eng.seen_senders) >= MaxSenders
    THEN "sender_limit_exceeded"
    ELSE IF claim.sender_id \in eng.seen_senders THEN "duplicate_sender"
    ELSE Ok

(* Gate 9. *)
CountVotes(votes, keys) ==
    [k \in DOMAIN votes \cup keys |->
        (IF k \in DOMAIN votes THEN votes[k] ELSE 0) + (IF k \in keys THEN 1 ELSE 0)]

(* Mutant: accepted claims are logged under the cap for rejections. *)
TallyUnderLogCap(eng, claim) ==
    [eng EXCEPT
        !.seen_senders = @ \cup {claim.sender_id},
        !.votes = CountVotes(@, VoteKeys(claim.entries)),
        !.observations = IF Len(@) < MAX_REJECTION_OBSERVATIONS
                         THEN Append(@, Observation(eng.epoch, claim.sender_id, "accepted"))
                         ELSE @,
        !.accepted_claims = @ + 1]

TallyClaim(eng, claim) ==
    [eng EXCEPT
        !.seen_senders = @ \cup {claim.sender_id},
        !.votes = CountVotes(@, VoteKeys(claim.entries)),
        !.observations = Append(@, Observation(eng.epoch, claim.sender_id, "accepted")),
        !.accepted_claims = @ + 1]

---------------------------------------------------------------------------
(* Entry points.                                                           *)

(* Mutant: a claim of another sender is dropped without a trace. *)
RejectSilently(eng, claim, reason) ==
    IF reason = "source_mismatch" THEN eng
    ELSE IF reason \in CountedReason THEN CountRejection(eng, reason)
    ELSE RecordRejection(eng, claim, reason)

Reject(eng, claim, reason) ==
    IF reason \in CountedReason THEN CountRejection(eng, reason)
    ELSE RecordRejection(eng, claim, reason)

AfterGate7(eng, claim) ==
    LET violation == SenderViolation(eng, claim)
    IN  IF violation # Ok THEN RecordRejection(eng, claim, violation)
        ELSE TallyClaim(eng, claim)

ProcessClaimFromPeer(eng, claim, source) ==
    LET violation == ClaimViolation(eng, claim, source)
    IN  IF violation # Ok THEN Reject(eng, claim, violation)
        ELSE AfterGate7(AdoptEpoch(eng, claim), claim)

Accepts(eng, claim, source) ==
    /\ ClaimViolation(eng, claim, source) = Ok
    /\ SenderViolation(AdoptEpoch(eng, claim), claim) = Ok

(* process_claim, which replay calls: the source is the claim's own sender. *)
ProcessClaim(eng, claim) ==
    IF claim.sender_id \in OverlongId THEN CountRejection(eng, "invalid_sender_id")
    ELSE IF claim.sender_id \notin PeerId THEN CountRejection(eng, "unparsable_sender")
    ELSE ProcessClaimFromPeer(eng, claim, claim.sender_id)

(* The bool that process_claim_from_peer returns for an accepted claim. *)
QuorumReached(eng) == Cardinality(eng.seen_senders) >= Threshold

=============================================================================
