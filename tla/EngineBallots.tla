--------------------------- MODULE EngineBallots ---------------------------
(***************************************************************************)
(* What an engine's fields may hold, and the ballots behind its votes: for *)
(* each sender accepted in a round, the vote keys of its claim.  The code  *)
(* does not keep the ballots, only their counts; QuorumEngine and the      *)
(* proofs about every module that runs an engine speak of them.            *)
(***************************************************************************)
EXTENDS ClaimEngine

LogLine ==
    [epoch : Epoch, sender_id : PeerId, accepted : BOOLEAN,
     reason : RecordedReason \cup {"accepted"}]

EngineField ==
    {"epoch", "max_epoch", "seen_senders", "votes", "observations", "rejections_seen",
     "accepted_claims", "rejected_claims"}

EngineType(eng) ==
    /\ DOMAIN eng = EngineField
    /\ eng.epoch \in Epoch
    /\ eng.max_epoch \in Epoch
    /\ eng.seen_senders \subseteq PeerId
    /\ IsFiniteSet(eng.seen_senders)
    /\ DOMAIN eng.votes \subseteq VoteKey
    /\ eng.votes \in [DOMAIN eng.votes -> Nat]
    /\ eng.observations \in Seq(LogLine)
    /\ eng.rejections_seen \in Nat
    /\ eng.accepted_claims \in Nat
    /\ eng.rejected_claims \in [Reason -> Nat]

BallotsType(bs) ==
    /\ DOMAIN bs \subseteq PeerId
    /\ bs \in [DOMAIN bs -> SUBSET VoteKey]

---------------------------------------------------------------------------

NoBallots == [s \in {} |-> {}]

With(bs, s, keys) == [t \in DOMAIN bs \cup {s} |-> IF t = s THEN keys ELSE bs[t]]

Backers(bs, k) == {s \in DOMAIN bs : k \in bs[s]}

IsTally(votes, bs) ==
    /\ DOMAIN votes = UNION {bs[s] : s \in DOMAIN bs}
    /\ \A k \in DOMAIN votes : votes[k] = Cardinality(Backers(bs, k))

AssertsOnce(keys) ==
    /\ \A k \in keys : ClearPrefix(k[1])
    /\ \A j, k \in keys : IpToBits(j[1]) = IpToBits(k[1]) => j = k

=============================================================================
