------------------------- MODULE QuorumEngineProofs ------------------------
(***************************************************************************)
(* Theorems about QuorumEngine, for every set of peers and claims, every   *)
(* threshold, every limit and every clock.                                 *)
(***************************************************************************)
EXTENDS QuorumEngine, ClaimEngineProofs

---------------------------------------------------------------------------
(* Sums.                                                                   *)

(* A sum of counts is the number of what was counted. *)
Countings(counts, S) == UNION {{r} \X (1 .. counts[r]) : r \in S}

Total(counts) == FoldFunction(LAMBDA m, n : m + n, 0, counts)

(***************************************************************************)
(* What was counted under one of the keys, and the rest.                   *)
(***************************************************************************)
LEMMA CountingsSplit ==
    ASSUME NEW S, IsFiniteSet(S), NEW counts \in [S -> Nat], NEW r \in S
    PROVE  /\ IsFiniteSet(Countings(counts, S))
           /\ Cardinality(Countings(counts, S))
                = counts[r] + Cardinality(Countings(counts, S \ {r}))
<1>1. ASSUME NEW q \in S
      PROVE  /\ IsFiniteSet({q} \X (1 .. counts[q]))
             /\ Cardinality({q} \X (1 .. counts[q])) = counts[q]
  <2>1. counts[q] \in Nat /\ IsFiniteSet({q}) /\ Cardinality({q}) = 1
    BY FS_Singleton
  <2>2. IsFiniteSet(1 .. counts[q]) /\ Cardinality(1 .. counts[q]) = counts[q]
    BY <2>1, FS_Interval
  <2>3. /\ IsFiniteSet({q} \X (1 .. counts[q]))
        /\ Cardinality({q} \X (1 .. counts[q]))
             = Cardinality({q}) * Cardinality(1 .. counts[q])
    BY <2>1, <2>2, FS_Product
  <2> QED BY <2>1, <2>2, <2>3
<1>2. ASSUME NEW T \in SUBSET S PROVE IsFiniteSet(Countings(counts, T))
  <2> DEFINE g == [q \in T |-> {q} \X (1 .. counts[q])]
             U == {g[q] : q \in T}
  <2>1. IsFiniteSet(T) /\ g \in Surjection(T, U)
    BY FS_Subset DEF Surjection
  <2>2. (\A V \in U : IsFiniteSet(V)) /\ Countings(counts, T) = UNION U
    BY <1>1 DEF Countings
  <2> HIDE DEF g, U
  <2>3. IsFiniteSet(U)
    BY <2>1, FS_Surjection
  <2> QED BY <2>2, <2>3, FS_UNION
<1> DEFINE A == {r} \X (1 .. counts[r])
           B == Countings(counts, S \ {r})
<1>3. Countings(counts, S) = A \cup B /\ A \cap B = {}
  BY DEF Countings
<1>4. IsFiniteSet(A) /\ Cardinality(A) = counts[r] /\ IsFiniteSet(B)
      /\ IsFiniteSet(Countings(counts, S))
  BY <1>1, <1>2
<1> HIDE DEF A, B
<1>5. Cardinality(A \cup B) = Cardinality(A) + Cardinality(B) - Cardinality(A \cap B)
  BY <1>4, FS_Union
<1>6. Cardinality(A \cap B) = 0 /\ Cardinality(A) \in Nat /\ Cardinality(B) \in Nat
  BY <1>3, <1>4, FS_EmptySet, FS_CardinalityType
<1> QED BY <1>3, <1>4, <1>5, <1>6 DEF B

(***************************************************************************)
(* The library's fold adds up: whatever order it takes the keys in, it     *)
(* comes to the number of countings.  By the smallest set it fails on.     *)
(***************************************************************************)
LEMMA TotalIsCardinality ==
    ASSUME NEW S, IsFiniteSet(S), NEW counts \in [S -> Nat]
    PROVE  Total(counts) = Cardinality(Countings(counts, S))
<1> DEFINE pick(s) == CHOOSE x \in s : TRUE
           Folds(h) == h = [s \in SUBSET S |->
                               IF s = {} THEN 0 ELSE counts[pick(s)] + h[s \ {pick(s)}]]
           iter == CHOOSE h : Folds(h)
           size == [s \in SUBSET S |-> Cardinality(Countings(counts, s))]
<1>1. Total(counts) = iter[S]
  <2>1. DOMAIN counts = S
    OBVIOUS
  <2> QED BY <2>1 DEF Total, FoldFunction, FoldFunctionOnSet, MapThenFoldSet
<1>2. \A s \in SUBSET S : s # {} => pick(s) \in s /\ s \ {pick(s)} \in SUBSET S
  OBVIOUS
<1>3. size[{}] = 0
  <2>1. Countings(counts, {}) = {}
    BY DEF Countings
  <2> QED BY <2>1, FS_EmptySet
<1>4. ASSUME NEW s \in SUBSET S, NEW r \in s
      PROVE  size[s] = counts[r] + size[s \ {r}]
  <2> DEFINE g == [q \in s |-> counts[q]]
  <2>1. IsFiniteSet(s) /\ g \in [s -> Nat]
    BY FS_Subset
  <2>2. Cardinality(Countings(g, s)) = g[r] + Cardinality(Countings(g, s \ {r}))
    <3> HIDE DEF g
    <3> QED BY <2>1, CountingsSplit
  <2>3. /\ Countings(g, s) = Countings(counts, s)
        /\ Countings(g, s \ {r}) = Countings(counts, s \ {r})
    BY DEF Countings
  <2> QED BY <2>2, <2>3
<1> HIDE DEF pick
<1>5. Folds(size)
  <2> DEFINE step == [s \in SUBSET S |->
                         IF s = {} THEN 0 ELSE counts[pick(s)] + size[s \ {pick(s)}]]
  <2>1. ASSUME NEW s \in SUBSET S PROVE size[s] = step[s]
    <3>1. CASE s = {}
      BY <1>3, <3>1
    <3>2. CASE s # {}
      <4> HIDE DEF size
      <4> QED BY <1>2, <1>4, <3>2
    <3> QED BY <3>1, <3>2
  <2>2. size = step
    BY <2>1
  <2> QED BY <2>2
<1>6. Folds(iter)
  BY <1>5
<1> HIDE DEF iter, size
<1>7. \A s \in SUBSET S : iter[s] = size[s]
  <2> DEFINE Wrong == {s \in SUBSET S : iter[s] # size[s]}
             Sizes == {Cardinality(s) : s \in Wrong}
  <2> SUFFICES ASSUME Wrong # {} PROVE FALSE
    OBVIOUS
  <2>1. \A s \in SUBSET S : IsFiniteSet(s) /\ Cardinality(s) \in Nat
    BY FS_Subset, FS_CardinalityType
  <2>2. Sizes \in SUBSET Nat /\ Sizes # {}
    BY <2>1
  <2> HIDE DEF Sizes
  <2>3. PICK n \in Sizes : \A m \in Sizes : n <= m
    BY <2>2, LeastElement
  <2>4. PICK s \in Wrong : \A t \in Wrong : Cardinality(s) <= Cardinality(t)
    BY <2>3 DEF Sizes
  <2>5. s # {}
    BY <1>3, <1>6
  <2> DEFINE r == pick(s)
             t == s \ {r}
  <2>6. r \in s /\ t \in SUBSET S
    BY <1>2, <2>5
  <2>7. iter[s] = counts[r] + iter[t]
    BY <1>6, <2>5
  <2>8. size[s] = counts[r] + size[t]
    BY <1>4, <2>6
  <2>9. t \in Wrong
    BY <2>4, <2>6, <2>7, <2>8
  <2>10. Cardinality(t) = Cardinality(s) - 1
    BY <2>1, <2>6, FS_RemoveElement
  <2> HIDE DEF Wrong, r, t
  <2>11. Cardinality(s) \in Nat
    BY <2>1 DEF Wrong
  <2> QED BY <2>4, <2>9, <2>10, <2>11
<1> QED BY <1>1, <1>7 DEF size

(***************************************************************************)
(* The documented reasons are finitely many.                               *)
(***************************************************************************)
LEMMA ReasonsFinite == IsFiniteSet(Reason)
<1>1. IsFiniteSet(1 .. 20)
  <2>1. 1 \in Int /\ 20 \in Int
    OBVIOUS
  <2> QED BY <2>1, FS_Interval
<1> DEFINE listing ==
        <<"oversize_claim", "malformed_claim", "invalid_sender_id", "unparsable_sender",
          "malformed_claim_hash", "empty_claim", "too_many_entries", "epoch_out_of_range",
          "source_mismatch", "claim_hash_mismatch", "stale_epoch", "epoch_jump_too_large",
          "unassigned_asn", "asn_out_of_range", "invalid_prefix", "default_route_prefix",
          "ipv4_mapped_prefix", "conflicting_entry", "sender_limit_exceeded",
          "duplicate_sender">>
<1>2. listing \in Surjection(1 .. 20, Reason)
  BY DEF Surjection, Reason, CountedReason, RecordedReason
<1> HIDE DEF listing
<1> QED BY <1>1, <1>2, FS_Surjection

(***************************************************************************)
(* Counting a rejection raises the total by one, and a cleared ledger      *)
(* totals zero.                                                            *)
(***************************************************************************)
LEMMA LedgerTotals ==
    /\ Total([r \in Reason |-> 0]) = 0
    /\ \A ledger \in [Reason -> Nat], reason \in Reason :
          /\ Total(ledger) \in Nat
          /\ Total(Counted(ledger, reason)) = Total(ledger) + 1
<1>1. Total([r \in Reason |-> 0]) = 0
  <2> DEFINE cleared == [r \in Reason |-> 0]
  <2>1. Countings(cleared, Reason) = {} /\ cleared \in [Reason -> Nat]
    BY DEF Countings
  <2> HIDE DEF cleared
  <2>2. Total(cleared) = 0
    BY <2>1, ReasonsFinite, TotalIsCardinality, FS_EmptySet
  <2> QED BY <2>2 DEF cleared
<1>2. ASSUME NEW ledger \in [Reason -> Nat], NEW reason \in Reason
      PROVE  /\ Total(ledger) \in Nat
             /\ Total(Counted(ledger, reason)) = Total(ledger) + 1
  <2> DEFINE more == Counted(ledger, reason)
             rest == Cardinality(Countings(ledger, Reason \ {reason}))
  <2>1. more \in [Reason -> Nat] /\ more[reason] = ledger[reason] + 1
    BY DEF Counted
  <2>2. Countings(more, Reason \ {reason}) = Countings(ledger, Reason \ {reason})
    BY DEF Countings, Counted
  <2> HIDE DEF more
  <2>3. Total(more) = more[reason] + rest
    BY <2>1, <2>2, ReasonsFinite, CountingsSplit, TotalIsCardinality
  <2>4. /\ Total(ledger) = ledger[reason] + rest
        /\ IsFiniteSet(Countings(ledger, Reason))
        /\ Total(ledger) = Cardinality(Countings(ledger, Reason))
    BY ReasonsFinite, CountingsSplit, TotalIsCardinality
  <2>5. Total(ledger) \in Nat /\ ledger[reason] \in Nat
    BY <2>4, FS_CardinalityType
  <2> HIDE DEF rest
  <2>6. rest = Total(ledger) - ledger[reason]
    <3>1. rest \in Nat
      <4>1. IsFiniteSet(Countings(ledger, Reason \ {reason}))
        BY <2>4, FS_Subset DEF Countings
      <4> QED BY <4>1, FS_CardinalityType DEF rest
    <3> QED BY <2>4, <2>5, <3>1
  <2> QED BY <2>1, <2>3, <2>5, <2>6 DEF more
<1> QED BY <1>1, <1>2

---------------------------------------------------------------------------
(* The inductive invariant.                                                *)

IInv ==
    /\ GoodRound(engine, ballots)
    /\ processed \in Nat
    /\ engine.accepted_claims + Total(engine.rejected_claims) = processed

(***************************************************************************)
(* The safety invariants of the engine are parts of the invariant.         *)
(***************************************************************************)
LEMMA InvariantImpliesSafety ==
    ASSUME IInv
    PROVE  /\ TypeOK /\ VotesCountBallots /\ ParticipantsVotedOnce
           /\ OneAssertionPerNetwork /\ CeilingCoversEpoch /\ LedgerReconciles
BY DEF IInv, GoodRound, TypeOK, VotesCountBallots, ParticipantsVotedOnce,
       OneAssertionPerNetwork, CeilingCoversEpoch, LedgerReconciles, Total

---------------------------------------------------------------------------
(* The invariant along a behaviour.                                        *)

(***************************************************************************)
(* A newly constructed engine is a good round without ballots.             *)
(***************************************************************************)
LEMMA InitInvariant == Init => IInv
<1> SUFFICES ASSUME Init PROVE IInv
  OBVIOUS
<1>1. PICK epoch \in StartEpoch, now \in Clock :
         engine = WithLimits(epoch, AtUnixTime(now))
  BY DEF Init
<1>2. epoch \in Epoch /\ AtUnixTime(now) \in Epoch /\ AtUnixTime(now) <= EPOCH_ABSOLUTE_MAX
  BY StartAssumption, AtUnixTimeBound
<1>3. /\ GoodRound(engine, NoBallots) /\ engine.accepted_claims = 0
      /\ engine.rejected_claims = [r \in Reason |-> 0]
  BY <1>1, <1>2, NewIsGood
<1> QED BY <1>3, LedgerTotals DEF Init, IInv

(***************************************************************************)
(* A rejection is one payload more and one counted rejection more.         *)
(***************************************************************************)
LEMMA LedgerStep ==
    ASSUME IInv, GoodRound(engine', ballots'), SameRound(engine', engine),
           processed' = processed + 1, NEW reason \in Reason,
           engine'.rejected_claims = Counted(engine.rejected_claims, reason)
    PROVE  IInv'
<1>1. /\ engine.rejected_claims \in [Reason -> Nat] /\ engine.accepted_claims \in Nat
      /\ engine'.accepted_claims = engine.accepted_claims
  BY DEF IInv, GoodRound, EngineType, SameRound
<1>2. /\ Total(engine.rejected_claims) \in Nat
      /\ Total(engine'.rejected_claims) = Total(engine.rejected_claims) + 1
  BY <1>1, LedgerTotals
<1> QED BY <1>1, <1>2 DEF IInv

(***************************************************************************)
(* A rejected claim.                                                       *)
(***************************************************************************)
LEMMA RejectClaimStep ==
    ASSUME IInv, NEW claim \in Claim, NEW source \in PeerId, RejectClaim(claim, source)
    PROVE  IInv' /\ SameRound(engine', engine)
<1>1. GoodRound(engine, ballots) /\ claim.epoch \in Epoch
  BY ClaimAssumption DEF IInv
<1>2. GoodRound(engine', ballots) /\ SameRound(engine', engine)
  BY <1>1, RejectedIsGood DEF RejectClaim
<1>3. ballots' = ballots /\ processed' = processed + 1
  BY DEF RejectClaim
<1>4. \E reason \in Reason :
         engine'.rejected_claims = Counted(engine.rejected_claims, reason)
  <2>1. DOMAIN engine = EngineField /\ engine.epoch \in Epoch
    BY <1>1 DEF GoodRound, EngineType
  <2>2. \/ \E reason \in CountedReason : engine' = CountRejection(engine, reason)
        \/ \E reason \in RecordedReason : engine' = RecordRejection(engine, claim, reason)
    BY <1>1, <2>1, RejectedOutcome DEF RejectClaim
  <2> QED BY <2>1, <2>2, CountRejectionFields, RecordRejectionFields DEF Reason
<1> QED BY <1>2, <1>3, <1>4, LedgerStep

(***************************************************************************)
(* A payload refused for its size or its shape leaves the round good.      *)
(***************************************************************************)
LEMMA CountPayloadStep ==
    ASSUME IInv, NEW reason \in CountedReason, CountPayload(reason)
    PROVE  IInv' /\ SameRound(engine', engine)
<1>1. GoodRound(engine, ballots) /\ reason \in Reason
  BY DEF IInv, Reason
<1>2. GoodRound(engine', ballots) /\ SameRound(engine', engine)
  BY <1>1, CountedIsGood DEF CountPayload
<1>3. ballots' = ballots /\ processed' = processed + 1
  BY DEF CountPayload
<1>4. engine'.rejected_claims = Counted(engine.rejected_claims, reason)
  BY <1>1, CountRejectionFields DEF CountPayload, GoodRound, EngineType
<1> QED BY <1>1, <1>2, <1>3, <1>4, LedgerStep

(***************************************************************************)
(* An accepted claim of the engine's own epoch.                            *)
(***************************************************************************)
LEMMA JoinRoundStep ==
    ASSUME IInv, NEW claim \in Claim, NEW source \in PeerId, JoinRound(claim, source)
    PROVE  /\ IInv'
           /\ engine' = TallyClaim(engine, claim)
           /\ claim.sender_id \in PeerId \ DOMAIN ballots
           /\ AssertsOnce(VoteKeys(claim.entries))
           /\ VoteKeys(claim.entries) \subseteq VoteKey
<1> DEFINE keys == VoteKeys(claim.entries)
<1>1. GoodRound(engine, ballots) /\ claim.epoch \in Epoch /\ IsEntryList(claim.entries)
  BY ClaimAssumption DEF IInv
<1>2. /\ engine' = TallyClaim(engine, claim)
      /\ GoodRound(engine', With(ballots, source, keys))
      /\ claim.sender_id = source /\ source \notin DOMAIN ballots
  BY <1>1, JoinedIsGood DEF JoinRound
<1>3. ballots' = With(ballots, source, keys)
  BY <1>2 DEF JoinRound
<1>4. /\ engine'.accepted_claims + Total(engine'.rejected_claims) = processed'
      /\ processed' \in Nat
  <2>1. /\ DOMAIN engine = EngineField /\ engine.accepted_claims \in Nat
        /\ engine.rejected_claims \in [Reason -> Nat]
    BY <1>1 DEF GoodRound, EngineType
  <2>2. /\ engine'.accepted_claims = engine.accepted_claims + 1
        /\ engine'.rejected_claims = engine.rejected_claims
    BY <1>2, <2>1, TallyClaimFields
  <2>3. Total(engine.rejected_claims) \in Nat
    BY <2>1, LedgerTotals DEF Reason, CountedReason
  <2> QED BY <2>1, <2>2, <2>3 DEF JoinRound, IInv
<1> HIDE DEF keys
<1>5. AssertsOnce(keys) /\ keys \subseteq VoteKey
  BY <1>2, NewBallotIsGood
<1>6. IInv'
  BY <1>2, <1>3, <1>4 DEF IInv
<1> QED BY <1>2, <1>5, <1>6 DEF keys

(***************************************************************************)
(* An accepted claim of a later epoch: Gate 7 opens the round, and the     *)
(* claim is its first ballot.                                              *)
(***************************************************************************)
LEMMA OpenLaterRoundStep ==
    ASSUME IInv, NEW claim \in Claim, NEW source \in PeerId, OpenLaterRound(claim, source)
    PROVE  /\ IInv'
           /\ engine'.epoch = claim.epoch
           /\ claim.sender_id \in PeerId
           /\ AssertsOnce(VoteKeys(claim.entries))
           /\ VoteKeys(claim.entries) \subseteq VoteKey
<1> DEFINE keys == VoteKeys(claim.entries)
<1>1. GoodRound(engine, ballots) /\ claim.epoch \in Epoch /\ IsEntryList(claim.entries)
  BY ClaimAssumption DEF IInv
<1>2. /\ GoodRound(engine', With(NoBallots, source, keys))
      /\ claim.sender_id = source
      /\ engine'.epoch = claim.epoch
      /\ engine'.accepted_claims = 1 /\ engine'.rejected_claims = [r \in Reason |-> 0]
  BY <1>1, OpenedIsGood DEF OpenLaterRound
<1>3. ballots' = With(NoBallots, source, keys) /\ processed' = 1
  BY <1>2 DEF OpenLaterRound
<1> HIDE DEF keys
<1>4. AssertsOnce(keys) /\ keys \subseteq VoteKey
  BY <1>2, NewBallotIsGood
<1>5. IInv'
  BY <1>2, <1>3, LedgerTotals DEF IInv
<1> QED BY <1>2, <1>4, <1>5 DEF keys

(***************************************************************************)
(* The epoch timer.                                                        *)
(***************************************************************************)
LEMMA EpochTimerStep ==
    ASSUME IInv, EpochTimer
    PROVE  /\ IInv'
           /\ engine'.epoch = SaturatingAdd(engine.epoch, 1)
<1> DEFINE epoch == SaturatingAdd(engine.epoch, 1)
<1>1. GoodRound(engine, ballots) /\ engine.epoch \in Nat
  BY DEF IInv, GoodRound, EngineType, Epoch
<1>2. epoch \in Epoch
  BY <1>1, SaturatingAddType
<1>3. engine' = AdvanceEpoch(engine, epoch) /\ ballots' = NoBallots /\ processed' = 0
  BY DEF EpochTimer
<1> HIDE DEF epoch
<1>4. /\ GoodRound(engine', NoBallots) /\ engine'.epoch = epoch
      /\ engine'.accepted_claims = 0 /\ engine'.rejected_claims = [r \in Reason |-> 0]
  BY <1>1, <1>2, <1>3, AdvancedIsGood
<1> QED BY <1>3, <1>4, LedgerTotals DEF epoch, IInv

(***************************************************************************)
(* Every step of the engine keeps the round good.                          *)
(***************************************************************************)
LEMMA NextInvariant == IInv /\ [Next]_vars => IInv'
<1> SUFFICES ASSUME IInv, [Next]_vars PROVE IInv'
  OBVIOUS
<1>1. ASSUME NEW claim \in Claim, NEW source \in PeerId, RejectClaim(claim, source)
      PROVE  IInv'
  BY <1>1, RejectClaimStep
<1>2. ASSUME NEW claim \in Claim, NEW source \in PeerId, JoinRound(claim, source)
      PROVE  IInv'
  BY <1>2, JoinRoundStep
<1>3. ASSUME NEW claim \in Claim, NEW source \in PeerId, OpenLaterRound(claim, source)
      PROVE  IInv'
  BY <1>3, OpenLaterRoundStep
<1>4. CASE RecordOversizeClaim
  BY <1>4, CountPayloadStep DEF RecordOversizeClaim, CountedReason
<1>5. CASE RecordMalformedClaim
  BY <1>5, CountPayloadStep DEF RecordMalformedClaim, CountedReason
<1>6. CASE EpochTimer
  BY <1>6, EpochTimerStep
<1>7. CASE UNCHANGED vars
  BY <1>7 DEF vars, IInv
<1> QED BY <1>1, <1>2, <1>3, <1>4, <1>5, <1>6, <1>7 DEF Next

(***************************************************************************)
(* In every reachable state the engine is a good round: its fields have    *)
(* their types, the vote map counts the ballots, the participants are the  *)
(* voters, the ceiling is in its bounds, and no ballot names a network     *)
(* twice. This is what every theorem below rests on                        *)
(* (QuorumEngine::process_claim_from_peer, record_oversize_claim,          *)
(* record_malformed_claim and advance_epoch together).                     *)
(***************************************************************************)
THEOREM Invariant == Spec => []IInv
<1>1. Init => IInv
  BY InitInvariant
<1>2. IInv /\ [Next]_vars => IInv'
  BY NextInvariant
<1> QED BY <1>1, <1>2, PTL DEF Spec

---------------------------------------------------------------------------
(* Safety.                                                                 *)

(***************************************************************************)
(* Whatever claims arrive, every field of the engine keeps its type: no    *)
(* vote key is outside the canonical prefixes and encodable ASNs, and no   *)
(* text that is not a peer id gets into seen_senders or the log.           *)
(***************************************************************************)
THEOREM TypeCorrect == Spec => []TypeOK
<1>1. IInv => TypeOK
  BY InvariantImpliesSafety
<1> QED BY <1>1, Invariant, PTL

(***************************************************************************)
(* The vote map is at all times the count of the ballots accepted since    *)
(* the last epoch change.                                                  *)
(***************************************************************************)
THEOREM TallyCorrect == Spec => []VotesCountBallots
<1>1. IInv => VotesCountBallots
  BY InvariantImpliesSafety
<1> QED BY <1>1, Invariant, PTL

(***************************************************************************)
(* The participants of the artifact have each voted once, accepted_claims  *)
(* is their number, and they are at most max_senders.                      *)
(***************************************************************************)
THEOREM ParticipantsCorrect == Spec => []ParticipantsVotedOnce
<1>1. IInv => ParticipantsVotedOnce
  BY InvariantImpliesSafety
<1> QED BY <1>1, Invariant, PTL

(***************************************************************************)
(* Gate 6 keeps every accepted sender to one assertion per trie path.      *)
(***************************************************************************)
THEOREM OneAssertion == Spec => []OneAssertionPerNetwork
<1>1. IInv => OneAssertionPerNetwork
  BY InvariantImpliesSafety
<1> QED BY <1>1, Invariant, PTL

(***************************************************************************)
(* with_limits and advance_epoch keep the ceiling over the engine's own    *)
(* epoch as far as the absolute maximum allows, and never above that.      *)
(***************************************************************************)
THEOREM CeilingCorrect == Spec => []CeilingCoversEpoch
<1>1. IInv => CeilingCoversEpoch
  BY InvariantImpliesSafety
<1> QED BY <1>1, Invariant, PTL

(***************************************************************************)
(* The entries finalize hands to the trie never collide on a path, so the  *)
(* map does not depend on HashMap order: Gate 6 has made sure of it.       *)
(***************************************************************************)
THEOREM DistinctPaths == Spec => []EntriesHaveDistinctPaths
<1>1. IInv => EntriesHaveDistinctPaths
  BY GoodRoundHasDistinctPaths DEF IInv, EntriesHaveDistinctPaths
<1> QED BY <1>1, Invariant, PTL

(***************************************************************************)
(* No flood of rejections costs a participant its line in the log, no      *)
(* participant gets a second one, and no line is there that neither an     *)
(* acceptance nor a rejection under the cap put there (record_rejection,   *)
(* and the push at the end of process_claim_from_peer).                    *)
(***************************************************************************)
THEOREM LogIsComplete == Spec => []LogKeepsEveryAcceptance
<1>1. IInv => LogKeepsEveryAcceptance
  BY DEF IInv, GoodRound, GoodLog, AcceptedLines, LogKeepsEveryAcceptance
<1> QED BY <1>1, Invariant, PTL

(***************************************************************************)
(* Every payload handed in since the ledger was last cleared is accounted  *)
(* for, under one reason or as an acceptance (record_oversize_claim,       *)
(* record_malformed_claim and both rejection paths of process_claim).      *)
(***************************************************************************)
THEOREM LedgerBalances == Spec => []LedgerReconciles
<1>1. IInv => LedgerReconciles
  BY InvariantImpliesSafety
<1> QED BY <1>1, Invariant, PTL

---------------------------------------------------------------------------
(* What a step may do.                                                     *)

(***************************************************************************)
(* The steps that reject, and only they, add a payload and no ballot; they *)
(* touch the ledger alone.                                                 *)
(***************************************************************************)
THEOREM RejectionIsHarmless == Spec => RejectionChangesNothing
<1>1. IInv /\ [Next]_vars
        => [processed' = processed + 1 /\ ballots' = ballots
              => Core(engine') = Core(engine)]_vars
  <2> SUFFICES ASSUME IInv, Next, processed' = processed + 1, ballots' = ballots
               PROVE  Core(engine') = Core(engine)
    OBVIOUS
  <2>1. SameRound(engine', engine) => Core(engine') = Core(engine)
    BY DEF SameRound, Core
  <2>2. ASSUME NEW claim \in Claim, NEW source \in PeerId, RejectClaim(claim, source)
        PROVE  Core(engine') = Core(engine)
    BY <2>1, <2>2, RejectClaimStep
  <2>3. ASSUME NEW claim \in Claim, NEW source \in PeerId, JoinRound(claim, source)
        PROVE  FALSE
    <3>1. claim.sender_id \in DOMAIN ballots'
      BY <2>3 DEF JoinRound, With
    <3> QED BY <2>3, <3>1, JoinRoundStep
  <2>4. ASSUME NEW claim \in Claim, NEW source \in PeerId, OpenLaterRound(claim, source)
        PROVE  FALSE
    <3>1. DOMAIN ballots' = {claim.sender_id} /\ processed' = 1
      BY <2>4 DEF OpenLaterRound, With, NoBallots
    <3>2. engine.accepted_claims = Cardinality(DOMAIN ballots)
          /\ engine.accepted_claims <= processed /\ processed \in Nat
      <4>1. /\ engine.accepted_claims \in Nat /\ engine.rejected_claims \in [Reason -> Nat]
            /\ engine.accepted_claims = Cardinality(DOMAIN ballots)
        BY DEF IInv, GoodRound, EngineType
      <4>2. Total(engine.rejected_claims) \in Nat
        BY <4>1, LedgerTotals DEF Reason, CountedReason
      <4> QED BY <4>1, <4>2 DEF IInv
    <3>3. engine.accepted_claims = 1
      BY <3>1, <3>2, FS_Singleton
    <3> QED BY <3>1, <3>2, <3>3
  <2>5. CASE RecordOversizeClaim
    BY <2>1, <2>5, CountPayloadStep DEF RecordOversizeClaim, CountedReason
  <2>6. CASE RecordMalformedClaim
    BY <2>1, <2>6, CountPayloadStep DEF RecordMalformedClaim, CountedReason
  <2>7. CASE EpochTimer
    BY <2>7 DEF EpochTimer, IInv
  <2> QED BY <2>2, <2>3, <2>4, <2>5, <2>6, <2>7 DEF Next
<1> QED BY <1>1, Invariant, PTL DEF Spec, RejectionChangesNothing

(***************************************************************************)
(* Counting a ballot takes no vote away.                                   *)
(***************************************************************************)
LEMMA CountVotesGrows ==
    ASSUME NEW votes, NEW keys, \A k \in DOMAIN votes : votes[k] \in Nat
    PROVE  \A k \in DOMAIN votes :
              k \in DOMAIN CountVotes(votes, keys) /\ CountVotes(votes, keys)[k] >= votes[k]
BY DEF CountVotes

(***************************************************************************)
(* Votes are dropped by reset_for_epoch and advance_epoch only, and these  *)
(* are reached only on the way to a later epoch, unless the timer finds    *)
(* the epoch at u64::MAX.                                                  *)
(***************************************************************************)
THEOREM BallotsAreKept == Spec => BallotsLostOnlyToLaterEpoch
<1> DEFINE Kept ==
        \/ engine'.epoch > engine.epoch
        \/ engine.epoch = U64_MAX
        \/ /\ engine'.epoch = engine.epoch
           /\ \A k \in DOMAIN engine.votes :
                 k \in DOMAIN engine'.votes /\ engine'.votes[k] >= engine.votes[k]
<1>1. IInv /\ [Next]_vars => [Kept]_vars
  <2> SUFFICES ASSUME IInv, Next PROVE Kept
    OBVIOUS
  <2>1. /\ engine.epoch \in Epoch /\ U64_MAX \in Nat
        /\ \A k \in DOMAIN engine.votes : engine.votes[k] \in Nat
        /\ DOMAIN engine = EngineField
    BY LimitAssumption DEF IInv, GoodRound, EngineType
  <2>2. SameRound(engine', engine) => Kept
    BY <2>1 DEF SameRound
  <2>3. ASSUME NEW claim \in Claim, NEW source \in PeerId, RejectClaim(claim, source)
        PROVE  Kept
    BY <2>2, <2>3, RejectClaimStep
  <2>4. ASSUME NEW claim \in Claim, NEW source \in PeerId, JoinRound(claim, source)
        PROVE  Kept
    <3>1. engine' = TallyClaim(engine, claim)
      BY <2>4, JoinRoundStep
    <3>2. engine'.epoch = engine.epoch
          /\ engine'.votes = CountVotes(engine.votes, VoteKeys(claim.entries))
      BY <2>1, <3>1, TallyClaimFields
    <3> QED BY <2>1, <3>2, CountVotesGrows
  <2>5. ASSUME NEW claim \in Claim, NEW source \in PeerId, OpenLaterRound(claim, source)
        PROVE  Kept
    BY <2>5, OpenLaterRoundStep DEF OpenLaterRound
  <2>6. CASE RecordOversizeClaim
    BY <2>2, <2>6, CountPayloadStep DEF RecordOversizeClaim, CountedReason
  <2>7. CASE RecordMalformedClaim
    BY <2>2, <2>7, CountPayloadStep DEF RecordMalformedClaim, CountedReason
  <2>8. CASE EpochTimer
    <3>1. engine'.epoch = SaturatingAdd(engine.epoch, 1)
      BY <2>8, EpochTimerStep
    <3> QED BY <2>1, <3>1 DEF SaturatingAdd, Lesser, Epoch
  <2> QED BY <2>3, <2>4, <2>5, <2>6, <2>7, <2>8 DEF Next
<1> QED BY <1>1, Invariant, PTL DEF Spec, BallotsLostOnlyToLaterEpoch

---------------------------------------------------------------------------
(* Refinement.                                                             *)

(***************************************************************************)
(* The abstract round is stated over its own copies of the same helpers.   *)
(***************************************************************************)
LEMMA SameHelpers ==
    /\ \A p : Round!IpToBits(p) = IpToBits(p)
    /\ Round!VoteKey = VoteKey
    /\ Round!NoBallots = NoBallots
    /\ \A bs, s, keys : Round!With(bs, s, keys) = With(bs, s, keys)
    /\ \A bs, k : Round!Backers(bs, k) = Backers(bs, k)
    /\ \A S : Round!Cardinality(S) = Cardinality(S)
<1>1. \A p : Round!IpToBits(p) = IpToBits(p)
  BY DEF Round!IpToBits, IpToBits
<1>2. Round!VoteKey = VoteKey
  BY DEF Round!VoteKey, VoteKey, Round!Prefix, Prefix, Round!PrefixOf, PrefixOf,
         Round!V6Bits, V6Bits, Round!Bit, Bit, Round!Asn, Asn
<1>3. Round!NoBallots = NoBallots
  BY DEF Round!NoBallots, NoBallots
<1>4. \A bs, s, keys : Round!With(bs, s, keys) = With(bs, s, keys)
  BY DEF Round!With, With
<1>5. \A bs, k : Round!Backers(bs, k) = Backers(bs, k)
  BY DEF Round!Backers, Backers
<1>6. \A S : Round!Cardinality(S) = Cardinality(S)
  BY DEF Round!Cardinality, Cardinality
<1> QED BY <1>1, <1>2, <1>3, <1>4, <1>5, <1>6

(***************************************************************************)
(* A consistent set of vote keys is a ballot of the abstract round.        *)
(***************************************************************************)
LEMMA KeysAreBallot ==
    ASSUME NEW keys, keys \subseteq VoteKey, AssertsOnce(keys)
    PROVE  Round!IsBallot(keys)
BY SameHelpers DEF Round!IsBallot, Round!Consistent, AssertsOnce

(***************************************************************************)
(* What finalize makes of the vote map is the outcome of the ballots.      *)
(***************************************************************************)
LEMMA FinalEntriesAreOutcome ==
    ASSUME NEW votes, NEW bs, IsTally(votes, bs)
    PROVE  FinalEntries(votes, Threshold) = Round!Outcome(bs)
<1> DEFINE cast == UNION {bs[p] : p \in DOMAIN bs}
           backing(k) == Cardinality(Round!Backers(bs, k))
           chosen == {k \in cast :
                        /\ backing(k) >= Threshold
                        /\ \A rival \in cast :
                              rival[1] = k[1] /\ rival # k =>
                                 \/ backing(rival) < backing(k)
                                 \/ backing(rival) = backing(k) /\ k[2] < rival[2]}
<1>1. Round!Outcome(bs) =
         {[ip_prefix |-> k[1], asn |-> k[2], votes |-> backing(k)] : k \in chosen}
  BY SameHelpers DEF Round!Outcome
<1>2. DOMAIN votes = cast /\ \A k \in cast : votes[k] = backing(k)
  BY SameHelpers DEF IsTally
<1> HIDE DEF cast, backing
<1>3. chosen = {v \in DOMAIN votes : Elected(votes, Threshold, v)}
  BY <1>2 DEF Elected, Beats
<1> HIDE DEF chosen
<1>4. \A k \in chosen : votes[k] = backing(k)
  BY <1>2, <1>3
<1> QED BY <1>1, <1>3, <1>4 DEF FinalEntries

(***************************************************************************)
(* In a good state the three outputs of the abstract round are functions   *)
(* of the ballots.                                                         *)
(***************************************************************************)
LEMMA GoodStatePublishes ==
    ASSUME IInv
    PROVE  /\ engine.seen_senders = DOMAIN ballots
           /\ FinalEntries(engine.votes, Threshold) = Round!Outcome(ballots)
BY FinalEntriesAreOutcome DEF IInv, GoodRound

LEMMA GoodStepPublishes ==
    ASSUME IInv', NEW bs, ballots' = bs
    PROVE  Round!Publishes(bs)
<1>1. engine'.seen_senders = DOMAIN ballots' /\ IsTally(engine'.votes, ballots')
  BY DEF IInv, GoodRound
<1>2. FinalEntries(engine'.votes, Threshold) = Round!Outcome(ballots')
  BY <1>1, FinalEntriesAreOutcome
<1> QED BY <1>1, <1>2 DEF Round!Publishes

(***************************************************************************)
(* The engine, with its gates, its ledger and its counted votes, does what *)
(* the abstract round does: an accepted claim casts its sender's ballot,   *)
(* Gate 7 or the timer opens a later round, a rejection is a stutter.      *)
(***************************************************************************)
THEOREM Refinement == Spec => ImplementsRound
<1>1. Init => Round!Init
  <2> SUFFICES ASSUME Init PROVE Round!Init
    OBVIOUS
  <2>1. IInv
    BY InitInvariant
  <2>2. engine.epoch \in 0 .. U64_MAX
    BY <2>1 DEF IInv, GoodRound, EngineType, Epoch
  <2>3. ballots = NoBallots /\ DOMAIN ballots = {}
    BY DEF Init, NoBallots
  <2>4. engine.seen_senders = {}
        /\ FinalEntries(engine.votes, Threshold) = Round!Outcome(NoBallots)
    BY <2>1, <2>3, GoodStatePublishes
  <2> QED BY <2>2, <2>3, <2>4, SameHelpers DEF Round!Init
<1>2. IInv /\ IInv' /\ [Next]_vars => [Round!Next]_(Round!roundVars)
  <2> SUFFICES ASSUME IInv, IInv', [Next]_vars
               PROVE  Round!Next \/ UNCHANGED Round!roundVars
    OBVIOUS
  <2>1. ASSUME ballots' = ballots, SameRound(engine', engine)
        PROVE  UNCHANGED Round!roundVars
    BY <2>1 DEF SameRound, Round!roundVars
  <2>2. ASSUME NEW claim \in Claim, NEW source \in PeerId, RejectClaim(claim, source)
        PROVE  UNCHANGED Round!roundVars
    BY <2>1, <2>2, RejectClaimStep DEF RejectClaim
  <2>3. ASSUME NEW claim \in Claim, NEW source \in PeerId, JoinRound(claim, source)
        PROVE  Round!Next
    <3> DEFINE s == claim.sender_id
               keys == VoteKeys(claim.entries)
    <3>1. /\ engine' = TallyClaim(engine, claim)
          /\ s \in PeerId \ DOMAIN ballots
          /\ Round!IsBallot(keys)
      BY <2>3, JoinRoundStep, KeysAreBallot
    <3>2. ballots' = With(ballots, s, keys)
      BY <2>3 DEF JoinRound
    <3>3. DOMAIN engine = EngineField
      BY DEF IInv, GoodRound, EngineType
    <3>4. engine'.epoch = engine.epoch
      BY <3>1, <3>3, TallyClaimFields
    <3> HIDE DEF s, keys
    <3>5. s \in DOMAIN ballots' /\ ballots'[s] = keys
      BY <3>2 DEF With
    <3>6. Round!Publishes(Round!With(ballots, s, ballots'[s]))
      BY <3>2, <3>5, SameHelpers, GoodStepPublishes
    <3>7. Round!Cast(s)
      BY <3>1, <3>4, <3>5, <3>6 DEF Round!Cast
    <3> QED BY <3>1, <3>7 DEF Round!Next
  <2>4. ASSUME NEW claim \in Claim, NEW source \in PeerId, OpenLaterRound(claim, source)
        PROVE  Round!Next
    <3> DEFINE s == claim.sender_id
               keys == VoteKeys(claim.entries)
    <3>1. /\ engine'.epoch = claim.epoch
          /\ s \in PeerId
          /\ Round!IsBallot(keys)
      BY <2>4, OpenLaterRoundStep, KeysAreBallot
    <3>2. ballots' = With(NoBallots, s, keys) /\ claim.epoch > engine.epoch
      BY <2>4 DEF OpenLaterRound
    <3>3. engine'.epoch \in engine.epoch + 1 .. U64_MAX
      <4>1. engine.epoch \in Epoch /\ engine'.epoch \in Epoch
        BY DEF IInv, GoodRound, EngineType
      <4> QED BY <3>1, <3>2, <4>1, LimitAssumption DEF Epoch
    <3> HIDE DEF s, keys
    <3>4. s \in DOMAIN ballots' /\ ballots'[s] = keys
      BY <3>2 DEF With
    <3>5. Round!Publishes(Round!With(Round!NoBallots, s, ballots'[s]))
      BY <3>2, <3>4, SameHelpers, GoodStepPublishes
    <3>6. Round!CastLater(s)
      BY <3>1, <3>3, <3>4, <3>5 DEF Round!CastLater
    <3> QED BY <3>1, <3>6 DEF Round!Next
  <2>5. CASE RecordOversizeClaim
    BY <2>1, <2>5, CountPayloadStep DEF RecordOversizeClaim, CountPayload, CountedReason
  <2>6. CASE RecordMalformedClaim
    BY <2>1, <2>6, CountPayloadStep DEF RecordMalformedClaim, CountPayload, CountedReason
  <2>7. CASE EpochTimer
    <3>1. engine'.epoch = IF engine.epoch < U64_MAX THEN engine.epoch + 1 ELSE engine.epoch
      <4>1. engine.epoch \in Epoch
        BY DEF IInv, GoodRound, EngineType
      <4>2. engine'.epoch = SaturatingAdd(engine.epoch, 1)
        BY <2>7, EpochTimerStep
      <4> QED BY <4>1, <4>2, LimitAssumption DEF SaturatingAdd, Lesser, Epoch
    <3>2. Round!Publishes(Round!NoBallots)
      BY <2>7, SameHelpers, GoodStepPublishes DEF EpochTimer
    <3> QED BY <3>1, <3>2 DEF Round!Open, Round!Next
  <2>8. CASE UNCHANGED vars
    BY <2>8 DEF vars, Round!roundVars
  <2> QED BY <2>2, <2>3, <2>4, <2>5, <2>6, <2>7, <2>8 DEF Next
<1> QED BY <1>1, <1>2, Invariant, PTL DEF Spec, ImplementsRound, Round!Spec

=============================================================================
