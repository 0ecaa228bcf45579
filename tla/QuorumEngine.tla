---------------------------- MODULE QuorumEngine ---------------------------
(***************************************************************************)
(* The engine of one serve or collect node: every claim the gossip network *)
(* can hand it, in any order and any number of times, and the epoch timer. *)
(*                                                                         *)
(* ballots and processed are history variables: the code keeps neither.    *)
(* ballots remembers what each accepted sender voted for, processed counts *)
(* the payloads handed to the engine since its ledger was last cleared.    *)
(***************************************************************************)
EXTENDS EngineBallots, QuorumTally, Functions

CONSTANTS
    Claim,          \* the claims peers may send
    StartEpoch,     \* the --epoch an operator may give
    Clock,          \* the Unix times the node may start at
    MaxProcessed    \* bound: payloads handled per round

ASSUME StartAssumption ==
    StartEpoch \subseteq Epoch /\ Clock \subseteq Nat /\ MaxProcessed \in Nat

ASSUME ClaimAssumption ==
    \A claim \in Claim : claim.epoch \in Epoch /\ IsEntryList(claim.entries)

VARIABLES engine, ballots, processed

vars == <<engine, ballots, processed>>

(* QuorumEngine::new: the ceiling comes from the wall clock. *)
Init ==
    /\ \E epoch \in StartEpoch, now \in Clock :
          engine = WithLimits(epoch, AtUnixTime(now))
    /\ ballots = NoBallots
    /\ processed = 0

(***************************************************************************)
(* process_claim_from_peer, split by its outcome.                          *)
(***************************************************************************)
RejectClaim(claim, source) ==
    /\ processed < MaxProcessed
    /\ ~Accepts(engine, claim, source)
    /\ engine' = ProcessClaimFromPeer(engine, claim, source)
    /\ processed' = processed + 1
    /\ UNCHANGED ballots

JoinRound(claim, source) ==
    /\ processed < MaxProcessed
    /\ Accepts(engine, claim, source)
    /\ claim.epoch = engine.epoch
    /\ engine' = ProcessClaimFromPeer(engine, claim, source)
    /\ ballots' = With(ballots, claim.sender_id, VoteKeys(claim.entries))
    /\ processed' = processed + 1

OpenLaterRound(claim, source) ==
    /\ Accepts(engine, claim, source)
    /\ claim.epoch > engine.epoch
    /\ engine' = ProcessClaimFromPeer(engine, claim, source)
    /\ ballots' = With(NoBallots, claim.sender_id, VoteKeys(claim.entries))
    /\ processed' = 1

(* quorum_from_gossip, on a payload that is no claim. *)
CountPayload(reason) ==
    /\ processed < MaxProcessed
    /\ engine' = CountRejection(engine, reason)
    /\ processed' = processed + 1
    /\ UNCHANGED ballots

RecordOversizeClaim == CountPayload("oversize_claim")

RecordMalformedClaim == CountPayload("malformed_claim")

(* The epoch timer of serve and collect. *)
EpochTimer ==
    /\ engine' = AdvanceEpoch(engine, SaturatingAdd(engine.epoch, 1))
    /\ ballots' = NoBallots
    /\ processed' = 0

Next ==
    \/ \E claim \in Claim, source \in PeerId :
          \/ RejectClaim(claim, source)
          \/ JoinRound(claim, source)
          \/ OpenLaterRound(claim, source)
    \/ RecordOversizeClaim
    \/ RecordMalformedClaim
    \/ EpochTimer

Spec == Init /\ [][Next]_vars

---------------------------------------------------------------------------
(* Types.                                                                  *)

TypeOK == EngineType(engine) /\ BallotsType(ballots) /\ processed \in Nat

---------------------------------------------------------------------------
(* Safety.                                                                 *)

(***************************************************************************)
(* The vote map is the count of the ballots accepted in this round: no     *)
(* vote survives an epoch change, none is counted twice for one sender,    *)
(* and no rejected claim has left one behind.                              *)
(***************************************************************************)
VotesCountBallots == IsTally(engine.votes, ballots)

(***************************************************************************)
(* The artifact's participants and its accepted_claims are the voters of   *)
(* the round, each once, and they never outnumber the sender cap.          *)
(***************************************************************************)
ParticipantsVotedOnce ==
    /\ engine.seen_senders = DOMAIN ballots
    /\ engine.accepted_claims = Cardinality(engine.seen_senders)
    /\ engine.accepted_claims <= MaxSenders

(***************************************************************************)
(* One sender, one assertion per network: no accepted ballot holds a       *)
(* default route or speaks of IPv4 in IPv6 syntax, and none names one trie *)
(* path twice, under whatever spelling.                                    *)
(***************************************************************************)
OneAssertionPerNetwork == \A s \in DOMAIN ballots : AssertsOnce(ballots[s])

(***************************************************************************)
(* The entries finalize would hand to update_multi have distinct trie      *)
(* paths, so the map does not depend on the order it gets them in.         *)
(***************************************************************************)
EntriesHaveDistinctPaths ==
    \A x, y \in FinalEntries(engine.votes, Threshold) :
        IpToBits(x.ip_prefix) = IpToBits(y.ip_prefix) => x = y

(***************************************************************************)
(* The observation log holds one accepted line per participant, whatever   *)
(* the rejections before it, and rejections up to their cap.               *)
(***************************************************************************)
LogKeepsEveryAcceptance ==
    LET lines == engine.observations
        acceptedBy(s) == {i \in DOMAIN lines : lines[i].accepted /\ lines[i].sender_id = s}
    IN  /\ \A s \in engine.seen_senders : Cardinality(acceptedBy(s)) = 1
        /\ Len(lines) = engine.accepted_claims
                          + Lesser(engine.rejections_seen, MAX_REJECTION_OBSERVATIONS)

(***************************************************************************)
(* No payload goes uncounted: within a round the accepted claims and the   *)
(* rejections of every reason add up to the payloads handed in.            *)
(***************************************************************************)
LedgerReconciles ==
    engine.accepted_claims
      + FoldFunction(LAMBDA m, n : m + n, 0, engine.rejected_claims) = processed

(***************************************************************************)
(* A node whose epoch is not past the absolute maximum can accept claims   *)
(* for that epoch, and no sequence of claims and timer ticks raises the    *)
(* ceiling above the absolute maximum.                                     *)
(***************************************************************************)
CeilingCoversEpoch ==
    /\ engine.max_epoch <= EPOCH_ABSOLUTE_MAX
    /\ Lesser(engine.epoch, EPOCH_ABSOLUTE_MAX) <= engine.max_epoch

---------------------------------------------------------------------------
(* Action properties.                                                      *)

Core(eng) == <<eng.epoch, eng.max_epoch, eng.seen_senders, eng.votes, eng.accepted_claims>>

(***************************************************************************)
(* A payload that adds no ballot, because it is rejected for whatever      *)
(* reason, leaves the round as it was: epoch, ceiling, senders, votes and  *)
(* the accepted count.                                                     *)
(***************************************************************************)
RejectionChangesNothing ==
    [][processed' = processed + 1 /\ ballots' = ballots
          => Core(engine') = Core(engine)]_vars

(***************************************************************************)
(* A ballot that was counted stays counted until the engine is at a later  *)
(* epoch: only there may a round be thrown away.  (At u64::MAX the timer   *)
(* saturates and reopens the same epoch.)                                  *)
(***************************************************************************)
BallotsLostOnlyToLaterEpoch ==
    [][ \/ engine'.epoch > engine.epoch
        \/ engine.epoch = U64_MAX
        \/ /\ engine'.epoch = engine.epoch
           /\ \A k \in DOMAIN engine.votes :
                 k \in DOMAIN engine'.votes /\ engine'.votes[k] >= engine.votes[k]
      ]_vars

(***************************************************************************)
(* The engine implements the abstract round.                               *)
(***************************************************************************)
Round == INSTANCE QuorumRound WITH
             Peer      <- PeerId,
             LastEpoch <- U64_MAX,
             epoch     <- engine.epoch,
             voters    <- engine.seen_senders,
             outcome   <- FinalEntries(engine.votes, Threshold)

ImplementsRound == Round!Spec

=============================================================================
