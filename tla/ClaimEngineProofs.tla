------------------------- MODULE ClaimEngineProofs -------------------------
(***************************************************************************)
(* Lemmas about the methods of QuorumEngine and the rounds they build, for *)
(* every set of peers, every threshold and every limit.  The proofs about  *)
(* the modules that run an engine rest on them.                            *)
(***************************************************************************)
EXTENDS EngineBallots, QuorumTally, PathProofs, FiniteSetTheorems, SequenceTheorems

---------------------------------------------------------------------------
(* Finite sets.                                                            *)

(***************************************************************************)
(* The values of a function on a finite set are finitely many.             *)
(***************************************************************************)
LEMMA FiniteImage ==
    ASSUME NEW f, IsFiniteSet(DOMAIN f)
    PROVE  LET T == {f[x] : x \in DOMAIN f}
           IN  IsFiniteSet(T) /\ Cardinality(T) <= Cardinality(DOMAIN f)
<1> DEFINE S == DOMAIN f
           T == {f[x] : x \in S}
           g == [x \in S |-> f[x]]
<1>1. g \in Surjection(S, T)
  BY DEF Surjection
<1> HIDE DEF T, g
<1>2. IsFiniteSet(T) /\ Cardinality(T) <= Cardinality(S)
  BY <1>1, FS_Surjection
<1> QED BY <1>2 DEF T

(***************************************************************************)
(* The vote keys of a claim are finitely many.                             *)
(***************************************************************************)
LEMMA VoteKeysFinite ==
    ASSUME NEW entries, IsEntryList(entries)
    PROVE  IsFiniteSet(VoteKeys(entries))
<1> DEFINE f == [i \in DOMAIN entries |-> Key(entries[i])]
<1>1. IsFiniteSet(DOMAIN f)
  BY FS_Interval DEF IsEntryList
<1>2. VoteKeys(entries) = {f[i] : i \in DOMAIN f}
  BY DEF VoteKeys
<1> HIDE DEF f
<1> QED BY <1>1, <1>2, FiniteImage

(***************************************************************************)
(* finalize yields no more entries than the vote map has keys.             *)
(***************************************************************************)
LEMMA FinalEntriesFinite ==
    ASSUME NEW votes, NEW threshold, IsFiniteSet(DOMAIN votes)
    PROVE  IsFiniteSet(FinalEntries(votes, threshold))
<1> DEFINE S == {k \in DOMAIN votes : Elected(votes, threshold, k)}
           f == [k \in S |-> [ip_prefix |-> k[1], asn |-> k[2], votes |-> votes[k]]]
<1>1. IsFiniteSet(DOMAIN f)
  BY FS_Subset
<1>2. FinalEntries(votes, threshold) = {f[k] : k \in DOMAIN f}
  BY DEF FinalEntries
<1> HIDE DEF f, S
<1> QED BY <1>1, <1>2, FiniteImage

---------------------------------------------------------------------------
(* Arithmetic of the limits.                                               *)

(***************************************************************************)
(* The cap with_limits installs is at least one.                           *)
(***************************************************************************)
LEMMA MaxSendersPositive == MaxSenders \in Nat /\ MaxSenders >= 1
BY LimitAssumption DEF MaxSenders, Greater

(***************************************************************************)
(* saturating_add stays within the width of an epoch.                      *)
(***************************************************************************)
LEMMA SaturatingAddType ==
    ASSUME NEW m \in Nat, NEW n \in Nat
    PROVE  SaturatingAdd(m, n) \in Epoch
BY LimitAssumption DEF SaturatingAdd, Lesser, Epoch

(***************************************************************************)
(* raise_epoch_ceiling never lowers the ceiling, covers the epoch as far   *)
(* as the absolute maximum allows, and keeps a ceiling under that maximum  *)
(* there.                                                                  *)
(***************************************************************************)
LEMMA RaisedCeilingBounds ==
    ASSUME NEW ceiling \in Epoch, NEW epoch \in Epoch
    PROVE  /\ RaisedCeiling(ceiling, epoch) \in Epoch
           /\ RaisedCeiling(ceiling, epoch) >= ceiling
           /\ Lesser(epoch, EPOCH_ABSOLUTE_MAX) <= RaisedCeiling(ceiling, epoch)
           /\ ceiling <= EPOCH_ABSOLUTE_MAX
                => RaisedCeiling(ceiling, epoch) <= EPOCH_ABSOLUTE_MAX
BY LimitAssumption DEF RaisedCeiling, SaturatingAdd, Lesser, Greater, Epoch

(***************************************************************************)
(* at_unix_time starts an engine under the absolute maximum.               *)
(***************************************************************************)
LEMMA AtUnixTimeBound ==
    ASSUME NEW now \in Nat
    PROVE  AtUnixTime(now) \in Epoch /\ AtUnixTime(now) <= EPOCH_ABSOLUTE_MAX
BY LimitAssumption DEF AtUnixTime, SaturatingAdd, Lesser, Epoch

---------------------------------------------------------------------------
(* What the gates decide.                                                  *)

(***************************************************************************)
(* Every verdict is a documented reason, and a claim that is more than     *)
(* counted comes from the peer that it names.                              *)
(***************************************************************************)
LEMMA ViolationType ==
    ASSUME NEW eng, NEW claim, NEW source
    PROVE  /\ ClaimViolation(eng, claim, source) \in Reason \cup {Ok}
           /\ ClaimViolation(eng, claim, source) \notin CountedReason
                => claim.sender_id = source
<1>1. EntriesViolation(claim.entries) \in EntryReason \cup {Ok}
  BY VerdictType
<1>2. ShapeViolation(eng, claim) \in CountedReason \cup {Ok}
  BY DEF ShapeViolation, CountedReason, Ok
<1>3. EntryReason \subseteq RecordedReason
  BY DEF EntryReason, RecordedReason
<1>4. ClaimViolation(eng, claim, source) \in Reason \cup {Ok}
  BY <1>1, <1>2, <1>3 DEF ClaimViolation, Reason, CountedReason, RecordedReason
<1>5. claim.sender_id # source => ClaimViolation(eng, claim, source) \in CountedReason
  BY <1>2 DEF ClaimViolation, CountedReason
<1> QED BY <1>4, <1>5

(***************************************************************************)
(* What gates 1 to 6 establish of a claim that they let through.           *)
(***************************************************************************)
LEMMA PassedGates ==
    ASSUME NEW eng, NEW claim, NEW source, ClaimViolation(eng, claim, source) = Ok
    PROVE  /\ claim.sender_id = source
           /\ claim.claim_hash = ClaimHash(claim.epoch, claim.sender_id, claim.entries)
           /\ ~(Len(claim.entries) < MIN_CLAIM_ENTRIES)
           /\ ~(Len(claim.entries) > MAX_CLAIM_ENTRIES)
           /\ ~(claim.epoch > eng.max_epoch)
           /\ ~(claim.epoch < eng.epoch)
           /\ EntriesViolation(claim.entries) = Ok
<1>1. ShapeViolation(eng, claim) = Ok
  BY DEF ClaimViolation
<1>2. /\ ~(claim.epoch > eng.max_epoch)
      /\ ~(Len(claim.entries) < MIN_CLAIM_ENTRIES)
      /\ ~(Len(claim.entries) > MAX_CLAIM_ENTRIES)
  BY <1>1 DEF ShapeViolation, Ok
<1>3. claim.sender_id = source
  BY <1>1 DEF ClaimViolation, Ok
<1>4. claim.claim_hash = ClaimHash(claim.epoch, claim.sender_id, claim.entries)
  BY <1>1 DEF ClaimViolation, Ok
<1>5. ~(claim.epoch < eng.epoch)
  BY <1>1 DEF ClaimViolation, Ok
<1>6. EntriesViolation(claim.entries) = Ok
  BY <1>1 DEF ClaimViolation, Ok
<1> QED BY <1>2, <1>3, <1>4, <1>5, <1>6

(***************************************************************************)
(* Gate 8 cannot fire on an engine that has just adopted an epoch, since   *)
(* max_senders is at least one: a rejection after Gate 7 is a rejection of *)
(* a claim for the epoch the engine was already at.                        *)
(***************************************************************************)
LEMMA AdoptedClaimIsNotRefused ==
    ASSUME NEW eng, NEW claim, claim.epoch > eng.epoch
    PROVE  SenderViolation(AdoptEpoch(eng, claim), claim) = Ok
<1>1. AdoptEpoch(eng, claim).seen_senders = {}
  BY DEF AdoptEpoch, ResetForEpoch, EmptyRound
<1>2. Cardinality({}) = 0
  BY FS_EmptySet
<1> QED BY <1>1, <1>2, MaxSendersPositive DEF SenderViolation

---------------------------------------------------------------------------
(* What the methods do to each field.                                      *)

SameRound(new, old) ==
    /\ DOMAIN new = EngineField
    /\ new.epoch = old.epoch
    /\ new.max_epoch = old.max_epoch
    /\ new.seen_senders = old.seen_senders
    /\ new.votes = old.votes
    /\ new.accepted_claims = old.accepted_claims

(***************************************************************************)
(* A counted rejection changes rejected_claims only.                       *)
(***************************************************************************)
LEMMA CountRejectionFields ==
    ASSUME NEW eng, DOMAIN eng = EngineField, NEW reason
    PROVE  /\ SameRound(CountRejection(eng, reason), eng)
           /\ CountRejection(eng, reason).observations = eng.observations
           /\ CountRejection(eng, reason).rejections_seen = eng.rejections_seen
           /\ CountRejection(eng, reason).rejected_claims =
                 Counted(eng.rejected_claims, reason)
BY DEF CountRejection, SameRound, EngineField

(***************************************************************************)
(* A recorded rejection is counted and may add to the log.                 *)
(***************************************************************************)
LEMMA RecordRejectionFields ==
    ASSUME NEW eng, DOMAIN eng = EngineField, NEW claim, NEW reason
    PROVE  LET new == RecordRejection(eng, claim, reason)
           IN  /\ SameRound(new, eng)
               /\ new.observations =
                     IF eng.rejections_seen < MAX_REJECTION_OBSERVATIONS
                     THEN Append(eng.observations,
                                 Observation(claim.epoch, claim.sender_id, reason))
                     ELSE eng.observations
               /\ new.rejections_seen = eng.rejections_seen + 1
               /\ new.rejected_claims = Counted(eng.rejected_claims, reason)
BY DEF RecordRejection, SameRound, EngineField

(***************************************************************************)
(* The fields that Gates 8 and 9 change, and those they leave.             *)
(***************************************************************************)
LEMMA TallyClaimFields ==
    ASSUME NEW eng, DOMAIN eng = EngineField, NEW claim
    PROVE  LET new == TallyClaim(eng, claim)
           IN  /\ DOMAIN new = EngineField
               /\ new.epoch = eng.epoch
               /\ new.max_epoch = eng.max_epoch
               /\ new.seen_senders = eng.seen_senders \cup {claim.sender_id}
               /\ new.votes = CountVotes(eng.votes, VoteKeys(claim.entries))
               /\ new.observations =
                     Append(eng.observations,
                            Observation(eng.epoch, claim.sender_id, "accepted"))
               /\ new.rejections_seen = eng.rejections_seen
               /\ new.accepted_claims = eng.accepted_claims + 1
               /\ new.rejected_claims = eng.rejected_claims
BY DEF TallyClaim, EngineField

(***************************************************************************)
(* The fields of a round without ballots.                                  *)
(***************************************************************************)
LEMMA EmptyRoundFields ==
    ASSUME NEW epoch, NEW ceiling
    PROVE  LET new == EmptyRound(epoch, ceiling)
           IN  /\ DOMAIN new = EngineField
               /\ new.epoch = epoch
               /\ new.max_epoch = ceiling
               /\ new.seen_senders = {}
               /\ new.votes = [k \in {} |-> 0]
               /\ new.observations = << >>
               /\ new.rejections_seen = 0
               /\ new.accepted_claims = 0
               /\ new.rejected_claims = [r \in Reason |-> 0]
BY DEF EmptyRound, EngineField

(***************************************************************************)
(* process_claim_from_peer either counts a rejection, or records one, or   *)
(* tallies the claim in the round it joins or opens.                       *)
(***************************************************************************)
LEMMA RejectedOutcome ==
    ASSUME NEW eng, NEW claim, NEW source, ~Accepts(eng, claim, source),
           eng.epoch \in Epoch, claim.epoch \in Epoch
    PROVE  LET new == ProcessClaimFromPeer(eng, claim, source)
           IN  \/ \E reason \in CountedReason : new = CountRejection(eng, reason)
               \/ /\ claim.sender_id = source
                  /\ \E reason \in RecordedReason :
                        new = RecordRejection(eng, claim, reason)
<1> DEFINE violation == ClaimViolation(eng, claim, source)
           refusal == SenderViolation(eng, claim)
<1>1. CASE violation # Ok
  <2>1. violation \in Reason /\ (violation \notin CountedReason => claim.sender_id = source)
    BY <1>1, ViolationType
  <2>2. ProcessClaimFromPeer(eng, claim, source) = Reject(eng, claim, violation)
    BY <1>1 DEF ProcessClaimFromPeer
  <2> QED BY <2>1, <2>2 DEF Reject, Reason
<1>2. CASE violation = Ok
  <2>1. claim.sender_id = source /\ ~(claim.epoch < eng.epoch)
    BY <1>2, PassedGates
  <2>2. ~(claim.epoch > eng.epoch)
    BY <1>2, AdoptedClaimIsNotRefused DEF Accepts
  <2>3. AdoptEpoch(eng, claim) = eng
    BY <2>2 DEF AdoptEpoch
  <2>4. refusal # Ok
    BY <1>2, <2>3 DEF Accepts
  <2>5. ProcessClaimFromPeer(eng, claim, source) = RecordRejection(eng, claim, refusal)
    BY <1>2, <2>3, <2>4 DEF ProcessClaimFromPeer, AfterGate7
  <2>6. refusal \in RecordedReason
    BY <2>4 DEF SenderViolation, RecordedReason
  <2> QED BY <2>1, <2>5, <2>6
<1> QED BY <1>1, <1>2

(***************************************************************************)
(* An accepted claim is tallied in the round it joins or opens.            *)
(***************************************************************************)
LEMMA AcceptedOutcome ==
    ASSUME NEW eng, NEW claim, NEW source, Accepts(eng, claim, source)
    PROVE  LET before == AdoptEpoch(eng, claim)
           IN  /\ ProcessClaimFromPeer(eng, claim, source) = TallyClaim(before, claim)
               /\ claim.sender_id = source
               /\ claim.sender_id \notin before.seen_senders
               /\ ~(Cardinality(before.seen_senders) >= MaxSenders)
               /\ ~(claim.epoch > eng.max_epoch)
               /\ EntriesViolation(claim.entries) = Ok
<1> DEFINE before == AdoptEpoch(eng, claim)
<1>1. ClaimViolation(eng, claim, source) = Ok /\ SenderViolation(before, claim) = Ok
  BY DEF Accepts
<1>2. claim.sender_id \notin before.seen_senders
      /\ ~(Cardinality(before.seen_senders) >= MaxSenders)
  BY <1>1 DEF SenderViolation, Ok
<1>3. ProcessClaimFromPeer(eng, claim, source) = TallyClaim(before, claim)
  BY <1>1 DEF ProcessClaimFromPeer, AfterGate7
<1> QED BY <1>1, <1>2, <1>3, PassedGates

---------------------------------------------------------------------------
(* The tally.                                                              *)

(***************************************************************************)
(* Counting the keys of a sender that has not voted yet keeps the vote map *)
(* the tally of the ballots.                                               *)
(***************************************************************************)
LEMMA CountVotesKeepsTally ==
    ASSUME NEW votes, NEW bs, NEW s, NEW keys,
           IsTally(votes, bs), s \notin DOMAIN bs, IsFiniteSet(DOMAIN bs)
    PROVE  IsTally(CountVotes(votes, keys), With(bs, s, keys))
<1> DEFINE new == CountVotes(votes, keys)
           nbs == With(bs, s, keys)
<1>1. /\ DOMAIN nbs = DOMAIN bs \cup {s}
      /\ nbs[s] = keys
      /\ \A t \in DOMAIN bs : nbs[t] = bs[t]
  BY DEF With
<1>2. DOMAIN new = UNION {nbs[t] : t \in DOMAIN nbs}
  <2>1. DOMAIN new = (UNION {bs[t] : t \in DOMAIN bs}) \cup keys
    BY DEF CountVotes, IsTally
  <2>2. UNION {nbs[t] : t \in DOMAIN nbs} = (UNION {bs[t] : t \in DOMAIN bs}) \cup keys
    BY <1>1
  <2> QED BY <2>1, <2>2
<1>3. ASSUME NEW k \in DOMAIN new
      PROVE  new[k] = Cardinality(Backers(nbs, k))
  <2> DEFINE old == IF k \in DOMAIN votes THEN votes[k] ELSE 0
  <2>1. new[k] = old + (IF k \in keys THEN 1 ELSE 0)
    BY <1>3 DEF CountVotes
  <2>2. IsFiniteSet(Backers(bs, k)) /\ s \notin Backers(bs, k)
    BY FS_Subset DEF Backers
  <2>3. Cardinality(Backers(bs, k)) \in Nat
    BY <2>2, FS_CardinalityType
  <2>4. old = Cardinality(Backers(bs, k))
    <3>1. CASE k \in DOMAIN votes
      BY <3>1 DEF IsTally
    <3>2. CASE k \notin DOMAIN votes
      <4>1. Backers(bs, k) = {}
        BY <3>2 DEF IsTally, Backers
      <4> QED BY <3>2, <4>1, FS_EmptySet
    <3> QED BY <3>1, <3>2
  <2>5. CASE k \in keys
    <3>1. Backers(nbs, k) = Backers(bs, k) \cup {s}
      BY <1>1, <2>5 DEF Backers
    <3>2. Cardinality(Backers(nbs, k)) = Cardinality(Backers(bs, k)) + 1
      BY <2>2, <3>1, FS_AddElement
    <3> QED BY <2>1, <2>4, <2>5, <3>2
  <2>6. CASE k \notin keys
    <3>1. Backers(nbs, k) = Backers(bs, k)
      BY <1>1, <2>6 DEF Backers
    <3> HIDE DEF old
    <3> QED BY <2>1, <2>3, <2>4, <2>6, <3>1
  <2> QED BY <2>5, <2>6
<1> QED BY <1>2, <1>3 DEF IsTally

(***************************************************************************)
(* The empty vote map counts no ballots.                                   *)
(***************************************************************************)
LEMMA NoVotesTallyNoBallots == IsTally([k \in {} |-> 0], NoBallots)
BY DEF IsTally, NoBallots

---------------------------------------------------------------------------
(* The observation log.                                                    *)

AcceptedLines(lines, s) ==
    {i \in DOMAIN lines : lines[i].accepted /\ lines[i].sender_id = s}

(***************************************************************************)
(* The log has one accepted line for each participant and none for anyone  *)
(* else, and beside them the rejections up to their cap.                   *)
(***************************************************************************)
GoodLog(eng) ==
    LET lines == eng.observations
    IN  /\ \A s \in eng.seen_senders : Cardinality(AcceptedLines(lines, s)) = 1
        /\ \A i \in DOMAIN lines :
              lines[i].accepted => lines[i].sender_id \in eng.seen_senders
        /\ Len(lines) = eng.accepted_claims
                          + Lesser(eng.rejections_seen, MAX_REJECTION_OBSERVATIONS)

(***************************************************************************)
(* What one more line adds to the accepted lines of a sender.              *)
(***************************************************************************)
LEMMA AppendedLine ==
    ASSUME NEW lines \in Seq(LogLine), NEW line \in LogLine
    PROVE  LET new == Append(lines, line)
           IN  /\ DOMAIN new = DOMAIN lines \cup {Len(lines) + 1}
               /\ Len(lines) + 1 \notin DOMAIN lines
               /\ Len(new) = Len(lines) + 1
               /\ new[Len(lines) + 1] = line
               /\ \A i \in DOMAIN lines : new[i] = lines[i]
BY DEF LogLine

(***************************************************************************)
(* A line that accepts no one leaves the accepted lines as they are.       *)
(***************************************************************************)
LEMMA RejectedLineKeepsLog ==
    ASSUME NEW old, NEW new, EngineType(old), GoodLog(old), NEW line \in LogLine,
           ~line.accepted,
           new.seen_senders = old.seen_senders,
           new.accepted_claims = old.accepted_claims,
           new.rejections_seen = old.rejections_seen + 1,
           new.observations = IF old.rejections_seen < MAX_REJECTION_OBSERVATIONS
                              THEN Append(old.observations, line)
                              ELSE old.observations
    PROVE  GoodLog(new)
<1> DEFINE lines == old.observations
<1>1. /\ lines \in Seq(LogLine) /\ Len(lines) \in Nat
      /\ old.rejections_seen \in Nat /\ old.accepted_claims \in Nat
      /\ MAX_REJECTION_OBSERVATIONS \in Nat
  BY LimitAssumption DEF EngineType
<1>2. CASE old.rejections_seen < MAX_REJECTION_OBSERVATIONS
  <2> DEFINE longer == Append(lines, line)
  <2>1. /\ DOMAIN longer = DOMAIN lines \cup {Len(lines) + 1}
        /\ Len(longer) = Len(lines) + 1
        /\ longer[Len(lines) + 1] = line
        /\ \A i \in DOMAIN lines : longer[i] = lines[i]
    BY <1>1, AppendedLine
  <2>2. new.observations = longer
    BY <1>2
  <2> HIDE DEF longer
  <2>3. \A s : AcceptedLines(longer, s) = AcceptedLines(lines, s)
    BY <2>1 DEF AcceptedLines
  <2>4. \A i \in DOMAIN longer :
           longer[i].accepted => longer[i].sender_id \in old.seen_senders
    BY <2>1 DEF GoodLog
  <2>5. Len(lines) = old.accepted_claims + old.rejections_seen
    BY <1>1, <1>2 DEF GoodLog, Lesser
  <2>6. Len(longer) = old.accepted_claims
                        + Lesser(old.rejections_seen + 1, MAX_REJECTION_OBSERVATIONS)
    BY <1>1, <1>2, <2>1, <2>5 DEF Lesser
  <2> QED BY <2>2, <2>3, <2>4, <2>6 DEF GoodLog
<1>3. CASE ~(old.rejections_seen < MAX_REJECTION_OBSERVATIONS)
  <2>1. new.observations = lines
    BY <1>3
  <2>2. Lesser(old.rejections_seen + 1, MAX_REJECTION_OBSERVATIONS)
          = Lesser(old.rejections_seen, MAX_REJECTION_OBSERVATIONS)
    BY <1>1, <1>3 DEF Lesser
  <2> QED BY <2>1, <2>2 DEF GoodLog
<1> QED BY <1>2, <1>3

(***************************************************************************)
(* The accepted line of a new participant is its only one.                 *)
(***************************************************************************)
LEMMA AcceptedLineKeepsLog ==
    ASSUME NEW old, NEW new, EngineType(old), GoodLog(old), NEW line \in LogLine,
           line.accepted, line.sender_id \notin old.seen_senders,
           new.seen_senders = old.seen_senders \cup {line.sender_id},
           new.accepted_claims = old.accepted_claims + 1,
           new.rejections_seen = old.rejections_seen,
           new.observations = Append(old.observations, line)
    PROVE  GoodLog(new)
<1> DEFINE lines == old.observations
           longer == Append(lines, line)
           kept == Lesser(old.rejections_seen, MAX_REJECTION_OBSERVATIONS)
<1>1. lines \in Seq(LogLine) /\ Len(lines) \in Nat /\ old.accepted_claims \in Nat
  BY DEF EngineType
<1>2. kept \in Nat
  BY LimitAssumption DEF EngineType, Lesser
<1>3. /\ DOMAIN longer = DOMAIN lines \cup {Len(lines) + 1}
      /\ Len(lines) + 1 \notin DOMAIN lines
      /\ Len(longer) = Len(lines) + 1
      /\ longer[Len(lines) + 1] = line
      /\ \A i \in DOMAIN lines : longer[i] = lines[i]
  BY <1>1, AppendedLine
<1>4. Len(lines) = old.accepted_claims + kept
  BY DEF GoodLog
<1>5. new.observations = longer
  OBVIOUS
<1> HIDE DEF longer, kept
<1>6. ASSUME NEW s \in new.seen_senders
      PROVE  Cardinality(AcceptedLines(longer, s)) = 1
  <2>1. CASE s = line.sender_id
    <3>1. AcceptedLines(longer, s) = {Len(lines) + 1}
      BY <1>3, <2>1 DEF AcceptedLines, GoodLog
    <3> QED BY <3>1, FS_Singleton
  <2>2. CASE s # line.sender_id
    <3>1. AcceptedLines(longer, s) = AcceptedLines(lines, s)
      BY <1>3, <2>2 DEF AcceptedLines
    <3> QED BY <1>6, <2>2, <3>1 DEF GoodLog
  <2> QED BY <2>1, <2>2
<1>7. \A i \in DOMAIN longer :
         longer[i].accepted => longer[i].sender_id \in new.seen_senders
  BY <1>3 DEF GoodLog
<1>8. Len(longer) = new.accepted_claims + kept
  BY <1>1, <1>2, <1>3, <1>4
<1> QED BY <1>5, <1>6, <1>7, <1>8 DEF GoodLog, kept

---------------------------------------------------------------------------
(* Good rounds.                                                            *)

(***************************************************************************)
(* What holds of an engine and of the ballots it has accepted.  The parts  *)
(* need one another: a new sender adds one to a count only because senders *)
(* are finite and are the voters, and a ballot is well formed because its  *)
(* claim has passed Gate 6.                                                *)
(***************************************************************************)
GoodRound(eng, bs) ==
    /\ EngineType(eng)
    /\ BallotsType(bs)
    /\ IsTally(eng.votes, bs)
    /\ IsFiniteSet(DOMAIN eng.votes)
    /\ eng.seen_senders = DOMAIN bs
    /\ eng.accepted_claims = Cardinality(eng.seen_senders)
    /\ eng.accepted_claims <= MaxSenders
    /\ \A s \in DOMAIN bs : AssertsOnce(bs[s])
    /\ eng.max_epoch <= EPOCH_ABSOLUTE_MAX
    /\ Lesser(eng.epoch, EPOCH_ABSOLUTE_MAX) <= eng.max_epoch
    /\ GoodLog(eng)

(***************************************************************************)
(* A round starts good, provided its ceiling covers its epoch.             *)
(***************************************************************************)
LEMMA EmptyRoundIsGood ==
    ASSUME NEW epoch \in Epoch, NEW ceiling \in Epoch,
           ceiling <= EPOCH_ABSOLUTE_MAX,
           Lesser(epoch, EPOCH_ABSOLUTE_MAX) <= ceiling
    PROVE  GoodRound(EmptyRound(epoch, ceiling), NoBallots)
<1> DEFINE eng == EmptyRound(epoch, ceiling)
<1>1. /\ DOMAIN eng = EngineField
      /\ eng.epoch = epoch /\ eng.max_epoch = ceiling
      /\ eng.seen_senders = {} /\ eng.votes = [k \in {} |-> 0]
      /\ eng.observations = << >> /\ eng.rejections_seen = 0
      /\ eng.accepted_claims = 0 /\ eng.rejected_claims = [r \in Reason |-> 0]
  BY EmptyRoundFields
<1> HIDE DEF eng
<1>2. DOMAIN NoBallots = {}
  BY DEF NoBallots
<1>3. Cardinality({}) = 0 /\ IsFiniteSet({})
  BY FS_EmptySet
<1>4. EngineType(eng)
  BY <1>1, <1>3 DEF EngineType
<1>5. BallotsType(NoBallots)
  BY DEF BallotsType, NoBallots
<1>6. IsTally(eng.votes, NoBallots) /\ IsFiniteSet(DOMAIN eng.votes)
  BY <1>1, <1>3, NoVotesTallyNoBallots
<1>7. GoodLog(eng)
  <2>1. Lesser(0, MAX_REJECTION_OBSERVATIONS) = 0
    BY LimitAssumption DEF Lesser
  <2> QED BY <1>1, <2>1 DEF GoodLog
<1>8. GoodRound(eng, NoBallots)
  BY <1>1, <1>2, <1>3, <1>4, <1>5, <1>6, <1>7, MaxSendersPositive DEF GoodRound
<1> QED BY <1>8 DEF eng

(***************************************************************************)
(* What leaves the round alone and keeps the ledger sound leaves it good.  *)
(***************************************************************************)
LEMMA SameRoundIsGood ==
    ASSUME NEW eng, NEW bs, GoodRound(eng, bs), NEW new, SameRound(new, eng),
           new.observations \in Seq(LogLine), new.rejections_seen \in Nat,
           new.rejected_claims \in [Reason -> Nat], GoodLog(new)
    PROVE  GoodRound(new, bs)
BY DEF GoodRound, EngineType, SameRound

(***************************************************************************)
(* A rejection that is only counted leaves the round good.                 *)
(***************************************************************************)
LEMMA CountedIsGood ==
    ASSUME NEW eng, NEW bs, GoodRound(eng, bs), NEW reason \in Reason
    PROVE  LET new == CountRejection(eng, reason)
           IN  SameRound(new, eng) /\ GoodRound(new, bs)
<1> DEFINE new == CountRejection(eng, reason)
<1>1. EngineType(eng) /\ GoodLog(eng)
  BY DEF GoodRound
<1>2. /\ SameRound(new, eng)
      /\ new.observations = eng.observations
      /\ new.rejections_seen = eng.rejections_seen
      /\ new.rejected_claims = Counted(eng.rejected_claims, reason)
  BY <1>1, CountRejectionFields DEF EngineType
<1>3. Counted(eng.rejected_claims, reason) \in [Reason -> Nat]
  BY <1>1 DEF EngineType, Counted
<1> HIDE DEF new
<1>4. GoodLog(new)
  BY <1>1, <1>2 DEF GoodLog, SameRound
<1>5. GoodRound(new, bs)
  BY <1>1, <1>2, <1>3, <1>4, SameRoundIsGood DEF EngineType
<1> QED BY <1>2, <1>5 DEF new

(***************************************************************************)
(* So does one that is also recorded.                                      *)
(***************************************************************************)
LEMMA RecordedIsGood ==
    ASSUME NEW eng, NEW bs, GoodRound(eng, bs), NEW reason \in RecordedReason,
           NEW claim, claim.epoch \in Epoch, claim.sender_id \in PeerId
    PROVE  LET new == RecordRejection(eng, claim, reason)
           IN  SameRound(new, eng) /\ GoodRound(new, bs)
<1> DEFINE new == RecordRejection(eng, claim, reason)
           line == Observation(claim.epoch, claim.sender_id, reason)
<1>1. EngineType(eng) /\ GoodLog(eng)
  BY DEF GoodRound
<1>2. line \in LogLine /\ ~line.accepted
  BY DEF Observation, LogLine, RecordedReason
<1>3. Append(eng.observations, line) \in Seq(LogLine)
  BY <1>1, <1>2 DEF EngineType
<1>4. /\ SameRound(new, eng)
      /\ new.observations = IF eng.rejections_seen < MAX_REJECTION_OBSERVATIONS
                            THEN Append(eng.observations, line)
                            ELSE eng.observations
      /\ new.rejections_seen = eng.rejections_seen + 1
      /\ new.rejected_claims = Counted(eng.rejected_claims, reason)
  BY <1>1, RecordRejectionFields DEF EngineType
<1>5. Counted(eng.rejected_claims, reason) \in [Reason -> Nat]
  BY <1>1 DEF EngineType, Counted, Reason
<1> HIDE DEF new, line
<1>6. new.observations \in Seq(LogLine) /\ new.rejections_seen \in Nat
  BY <1>1, <1>3, <1>4 DEF EngineType
<1>7. GoodLog(new)
  BY <1>1, <1>2, <1>4, RejectedLineKeepsLog DEF SameRound
<1>8. GoodRound(new, bs)
  BY <1>4, <1>5, <1>6, <1>7, SameRoundIsGood
<1> QED BY <1>4, <1>8 DEF new

(***************************************************************************)
(* An accepted claim, counted in the round it joins or opens, leaves the   *)
(* round good.                                                             *)
(***************************************************************************)
LEMMA TallyIsGood ==
    ASSUME NEW eng, NEW bs, NEW claim, IsEntryList(claim.entries), GoodRound(eng, bs),
           claim.sender_id \in PeerId,
           claim.sender_id \notin eng.seen_senders,
           ~(Cardinality(eng.seen_senders) >= MaxSenders),
           EntriesViolation(claim.entries) = Ok
    PROVE  GoodRound(TallyClaim(eng, claim),
                     With(bs, claim.sender_id, VoteKeys(claim.entries)))
<1> DEFINE s == claim.sender_id
           keys == VoteKeys(claim.entries)
           new == TallyClaim(eng, claim)
           nbs == With(bs, s, keys)
           line == Observation(eng.epoch, s, "accepted")
<1>1. EngineType(eng) /\ BallotsType(bs) /\ IsTally(eng.votes, bs)
      /\ eng.seen_senders = DOMAIN bs
  BY DEF GoodRound
<1>2. /\ DOMAIN new = EngineField
      /\ new.epoch = eng.epoch /\ new.max_epoch = eng.max_epoch
      /\ new.seen_senders = eng.seen_senders \cup {s}
      /\ new.votes = CountVotes(eng.votes, keys)
      /\ new.observations = Append(eng.observations, line)
      /\ new.rejections_seen = eng.rejections_seen
      /\ new.accepted_claims = eng.accepted_claims + 1
      /\ new.rejected_claims = eng.rejected_claims
  BY <1>1, TallyClaimFields DEF EngineType
<1>3. keys \subseteq VoteKey /\ AssertsOnce(keys)
  <2>1. keys \subseteq {k \in VoteKey : ClearPrefix(k[1])}
        /\ \A j, k \in keys : IpToBits(j[1]) = IpToBits(k[1]) => j = k
    BY VoteKeysDistinct
  <2> QED BY <2>1 DEF AssertsOnce
<1>4. line \in LogLine /\ line.accepted /\ line.sender_id = s
  BY <1>1 DEF EngineType, Observation, LogLine
<1> HIDE DEF s, keys, new, line
<1>5. s \in PeerId /\ s \notin DOMAIN bs
  BY <1>1 DEF s
<1>6. /\ DOMAIN nbs = DOMAIN bs \cup {s}
      /\ nbs[s] = keys
      /\ \A t \in DOMAIN bs : nbs[t] = bs[t]
  BY <1>5 DEF With
<1>7. IsTally(new.votes, nbs)
  <2>1. IsFiniteSet(DOMAIN bs)
    BY <1>1 DEF EngineType
  <2> QED BY <1>1, <1>2, <1>5, <2>1, CountVotesKeepsTally
<1>8. BallotsType(nbs)
  <2>1. nbs = [t \in DOMAIN nbs |-> nbs[t]]
    BY DEF With
  <2>2. \A t \in DOMAIN nbs : t \in PeerId /\ nbs[t] \subseteq VoteKey
    BY <1>1, <1>3, <1>5, <1>6 DEF BallotsType
  <2> QED BY <2>1, <2>2 DEF BallotsType
<1>9. IsFiniteSet(new.seen_senders)
      /\ Cardinality(new.seen_senders) = Cardinality(eng.seen_senders) + 1
  BY <1>1, <1>2, <1>5, FS_AddElement DEF EngineType
<1>10. EngineType(new)
  <2>1. DOMAIN new.votes \subseteq VoteKey
    BY <1>1, <1>2, <1>3 DEF EngineType, CountVotes
  <2>2. new.votes \in [DOMAIN new.votes -> Nat]
    <3>1. \A k \in DOMAIN eng.votes : eng.votes[k] \in Nat
      BY <1>1 DEF EngineType
    <3>2. \A k \in DOMAIN eng.votes \cup keys :
             (IF k \in DOMAIN eng.votes THEN eng.votes[k] ELSE 0)
               + (IF k \in keys THEN 1 ELSE 0) \in Nat
      BY <3>1
    <3> QED BY <1>2, <3>2 DEF CountVotes
  <2>3. new.observations \in Seq(LogLine)
    BY <1>1, <1>2, <1>4 DEF EngineType
  <2> QED BY <1>1, <1>2, <1>5, <1>9, <2>1, <2>2, <2>3 DEF EngineType
<1>11. /\ new.seen_senders = DOMAIN nbs
       /\ new.accepted_claims = Cardinality(new.seen_senders)
       /\ new.accepted_claims <= MaxSenders
  <2>1. eng.accepted_claims = Cardinality(eng.seen_senders) /\ eng.accepted_claims \in Nat
    BY <1>1 DEF GoodRound, EngineType
  <2> QED BY <1>1, <1>2, <1>6, <1>9, <2>1, MaxSendersPositive
<1>12. \A t \in DOMAIN nbs : AssertsOnce(nbs[t])
  BY <1>3, <1>6 DEF GoodRound
<1>13. /\ new.max_epoch <= EPOCH_ABSOLUTE_MAX
       /\ Lesser(new.epoch, EPOCH_ABSOLUTE_MAX) <= new.max_epoch
  BY <1>2 DEF GoodRound
<1>14. GoodLog(new)
  BY <1>1, <1>2, <1>4, <1>5, AcceptedLineKeepsLog DEF GoodRound
<1>15. IsFiniteSet(DOMAIN new.votes)
  <2>1. DOMAIN new.votes = DOMAIN eng.votes \cup keys
    BY <1>2 DEF CountVotes
  <2>2. IsFiniteSet(keys)
    BY VoteKeysFinite DEF keys
  <2> QED BY <2>1, <2>2, FS_Union DEF GoodRound
<1>16. GoodRound(new, nbs)
  <2> HIDE DEF nbs
  <2> QED BY <1>7, <1>8, <1>10, <1>11, <1>12, <1>13, <1>14, <1>15 DEF GoodRound
<1> QED BY <1>16 DEF new, s, keys

---------------------------------------------------------------------------
(* Whole calls.                                                            *)

(***************************************************************************)
(* A claim that is not accepted leaves the round, good as it was, alone.   *)
(***************************************************************************)
LEMMA RejectedIsGood ==
    ASSUME NEW eng, NEW bs, NEW claim, NEW source \in PeerId,
           GoodRound(eng, bs), claim.epoch \in Epoch, ~Accepts(eng, claim, source)
    PROVE  LET new == ProcessClaimFromPeer(eng, claim, source)
           IN  GoodRound(new, bs) /\ SameRound(new, eng)
<1>1. eng.epoch \in Epoch
  BY DEF GoodRound, EngineType
<1>2. LET new == ProcessClaimFromPeer(eng, claim, source)
      IN  \/ \E reason \in CountedReason : new = CountRejection(eng, reason)
          \/ /\ claim.sender_id = source
             /\ \E reason \in RecordedReason : new = RecordRejection(eng, claim, reason)
  BY <1>1, RejectedOutcome
<1> QED BY <1>2, CountedIsGood, RecordedIsGood DEF Reason

(***************************************************************************)
(* A claim accepted for the engine's own epoch adds its sender's ballot.   *)
(***************************************************************************)
LEMMA JoinedIsGood ==
    ASSUME NEW eng, NEW bs, NEW claim, NEW source \in PeerId,
           GoodRound(eng, bs), claim.epoch \in Epoch, IsEntryList(claim.entries),
           Accepts(eng, claim, source), claim.epoch = eng.epoch
    PROVE  LET new == ProcessClaimFromPeer(eng, claim, source)
           IN  /\ new = TallyClaim(eng, claim)
               /\ GoodRound(new, With(bs, source, VoteKeys(claim.entries)))
               /\ claim.sender_id = source /\ source \notin DOMAIN bs
               /\ new.epoch = eng.epoch /\ new.max_epoch = eng.max_epoch
               /\ new.seen_senders = eng.seen_senders \cup {source}
<1>1. AdoptEpoch(eng, claim) = eng
  <2>1. ~(claim.epoch > eng.epoch)
    BY DEF GoodRound, EngineType, Epoch
  <2> QED BY <2>1 DEF AdoptEpoch
<1>2. /\ ProcessClaimFromPeer(eng, claim, source) = TallyClaim(eng, claim)
      /\ claim.sender_id = source
      /\ claim.sender_id \notin eng.seen_senders
      /\ ~(Cardinality(eng.seen_senders) >= MaxSenders)
      /\ EntriesViolation(claim.entries) = Ok
  BY <1>1, AcceptedOutcome
<1>3. DOMAIN eng = EngineField /\ eng.seen_senders = DOMAIN bs
  BY DEF GoodRound, EngineType
<1>4. GoodRound(TallyClaim(eng, claim), With(bs, source, VoteKeys(claim.entries)))
  BY <1>2, TallyIsGood
<1> DEFINE tallied == TallyClaim(eng, claim)
<1>5. /\ tallied.epoch = eng.epoch /\ tallied.max_epoch = eng.max_epoch
      /\ tallied.seen_senders = eng.seen_senders \cup {claim.sender_id}
  BY <1>3, TallyClaimFields
<1> HIDE DEF tallied
<1>6. /\ ProcessClaimFromPeer(eng, claim, source) = tallied
      /\ GoodRound(tallied, With(bs, source, VoteKeys(claim.entries)))
  BY <1>2, <1>4 DEF tallied
<1> QED BY <1>2, <1>3, <1>5, <1>6

(***************************************************************************)
(* A claim accepted for a later epoch opens that round with its sender's   *)
(* ballot, under the ceiling the engine had.                               *)
(***************************************************************************)
LEMMA OpenedIsGood ==
    ASSUME NEW eng, NEW bs, NEW claim, NEW source \in PeerId,
           GoodRound(eng, bs), claim.epoch \in Epoch, IsEntryList(claim.entries),
           Accepts(eng, claim, source), claim.epoch > eng.epoch
    PROVE  LET new == ProcessClaimFromPeer(eng, claim, source)
           IN  /\ GoodRound(new, With(NoBallots, source, VoteKeys(claim.entries)))
               /\ claim.sender_id = source
               /\ new.epoch = claim.epoch /\ new.max_epoch = eng.max_epoch
               /\ new.seen_senders = {source} /\ new.accepted_claims = 1
               /\ new.rejected_claims = [r \in Reason |-> 0]
<1> DEFINE opened == EmptyRound(claim.epoch, eng.max_epoch)
<1>1. AdoptEpoch(eng, claim) = opened
  BY DEF AdoptEpoch, ResetForEpoch
<1>2. /\ ProcessClaimFromPeer(eng, claim, source) = TallyClaim(opened, claim)
      /\ claim.sender_id = source
      /\ claim.sender_id \notin opened.seen_senders
      /\ ~(Cardinality(opened.seen_senders) >= MaxSenders)
      /\ ~(claim.epoch > eng.max_epoch)
      /\ EntriesViolation(claim.entries) = Ok
  BY <1>1, AcceptedOutcome
<1>3. eng.max_epoch \in Epoch /\ eng.max_epoch <= EPOCH_ABSOLUTE_MAX
  BY DEF GoodRound, EngineType
<1>4. Lesser(claim.epoch, EPOCH_ABSOLUTE_MAX) <= eng.max_epoch
  BY <1>2, <1>3, LimitAssumption DEF Lesser, Epoch
<1>5. GoodRound(opened, NoBallots)
  BY <1>3, <1>4, EmptyRoundIsGood
<1>6. /\ DOMAIN opened = EngineField /\ opened.epoch = claim.epoch
      /\ opened.max_epoch = eng.max_epoch /\ opened.seen_senders = {}
      /\ opened.accepted_claims = 0 /\ opened.rejected_claims = [r \in Reason |-> 0]
  BY EmptyRoundFields
<1> HIDE DEF opened
<1>7. GoodRound(TallyClaim(opened, claim), With(NoBallots, source, VoteKeys(claim.entries)))
  BY <1>2, <1>5, TallyIsGood
<1> DEFINE tallied == TallyClaim(opened, claim)
<1>8. /\ tallied.epoch = opened.epoch /\ tallied.max_epoch = opened.max_epoch
      /\ tallied.seen_senders = opened.seen_senders \cup {claim.sender_id}
      /\ tallied.accepted_claims = opened.accepted_claims + 1
      /\ tallied.rejected_claims = opened.rejected_claims
  <2>1. DOMAIN opened = EngineField
    BY <1>6
  <2> QED BY ONLY <2>1, TallyClaimFields
<1> HIDE DEF tallied
<1>9. /\ ProcessClaimFromPeer(eng, claim, source) = tallied
      /\ GoodRound(tallied, With(NoBallots, source, VoteKeys(claim.entries)))
  BY <1>2, <1>7 DEF tallied
<1>10. tallied.seen_senders = {source} /\ tallied.accepted_claims = 1
  BY <1>2, <1>6, <1>8
<1> QED BY <1>2, <1>6, <1>8, <1>9, <1>10

(***************************************************************************)
(* An accepted claim is for the engine's epoch or a later one.             *)
(***************************************************************************)
LEMMA AcceptedIsNotStale ==
    ASSUME NEW eng, NEW claim, NEW source, Accepts(eng, claim, source),
           eng.epoch \in Epoch, claim.epoch \in Epoch
    PROVE  claim.epoch = eng.epoch \/ claim.epoch > eng.epoch
<1>1. ~(claim.epoch < eng.epoch)
  BY PassedGates DEF Accepts
<1> QED BY <1>1, LimitAssumption DEF Epoch

(***************************************************************************)
(* The ballot last added to a good round asserts each network once.        *)
(***************************************************************************)
LEMMA NewBallotIsGood ==
    ASSUME NEW eng, NEW bs, NEW s, NEW keys, GoodRound(eng, With(bs, s, keys))
    PROVE  AssertsOnce(keys) /\ keys \subseteq VoteKey
<1>1. s \in DOMAIN With(bs, s, keys) /\ With(bs, s, keys)[s] = keys
  BY DEF With
<1> QED BY <1>1 DEF GoodRound, BallotsType

(***************************************************************************)
(* The timer opens the next round, under a ceiling that covers it.         *)
(***************************************************************************)
LEMMA AdvancedIsGood ==
    ASSUME NEW eng, NEW bs, NEW epoch \in Epoch, GoodRound(eng, bs)
    PROVE  LET new == AdvanceEpoch(eng, epoch)
           IN  /\ GoodRound(new, NoBallots)
               /\ new.epoch = epoch /\ new.seen_senders = {} /\ new.accepted_claims = 0
               /\ new.rejected_claims = [r \in Reason |-> 0]
<1> DEFINE ceiling == RaisedCeiling(eng.max_epoch, epoch)
<1>1. eng.max_epoch \in Epoch /\ eng.max_epoch <= EPOCH_ABSOLUTE_MAX
  BY DEF GoodRound, EngineType
<1>2. /\ ceiling \in Epoch /\ ceiling <= EPOCH_ABSOLUTE_MAX
      /\ Lesser(epoch, EPOCH_ABSOLUTE_MAX) <= ceiling
  BY <1>1, RaisedCeilingBounds
<1>3. AdvanceEpoch(eng, epoch) = EmptyRound(epoch, ceiling)
  BY DEF AdvanceEpoch
<1> HIDE DEF ceiling
<1> QED BY <1>2, <1>3, EmptyRoundIsGood, EmptyRoundFields

(***************************************************************************)
(* A new engine under a sane ceiling is a good round.                      *)
(***************************************************************************)
LEMMA NewIsGood ==
    ASSUME NEW epoch \in Epoch, NEW ceiling \in Epoch, ceiling <= EPOCH_ABSOLUTE_MAX
    PROVE  LET new == WithLimits(epoch, ceiling)
           IN  /\ GoodRound(new, NoBallots)
               /\ new.epoch = epoch /\ new.seen_senders = {} /\ new.accepted_claims = 0
               /\ new.rejected_claims = [r \in Reason |-> 0]
<1> DEFINE raised == RaisedCeiling(ceiling, epoch)
<1>1. /\ raised \in Epoch /\ raised <= EPOCH_ABSOLUTE_MAX
      /\ Lesser(epoch, EPOCH_ABSOLUTE_MAX) <= raised
  BY RaisedCeilingBounds
<1>2. WithLimits(epoch, ceiling) = EmptyRound(epoch, raised)
  BY DEF WithLimits
<1> HIDE DEF raised
<1> QED BY <1>1, <1>2, EmptyRoundIsGood, EmptyRoundFields

---------------------------------------------------------------------------
(* What finalize makes of a good round.                                    *)

(***************************************************************************)
(* finalize publishes at most one entry per network: the winner of a       *)
(* prefix is unique, whatever the votes.                                   *)
(***************************************************************************)
THEOREM OneWinnerPerPrefix ==
    ASSUME NEW votes, NEW threshold,
           \A k \in DOMAIN votes : k[2] \in Nat /\ votes[k] \in Nat,
           NEW d \in FinalEntries(votes, threshold), NEW e \in FinalEntries(votes, threshold),
           d.ip_prefix = e.ip_prefix
    PROVE  d = e
<1>1. PICK j \in DOMAIN votes :
         /\ Elected(votes, threshold, j)
         /\ d = [ip_prefix |-> j[1], asn |-> j[2], votes |-> votes[j]]
  BY DEF FinalEntries
<1>2. PICK k \in DOMAIN votes :
         /\ Elected(votes, threshold, k)
         /\ e = [ip_prefix |-> k[1], asn |-> k[2], votes |-> votes[k]]
  BY DEF FinalEntries
<1>3. j[1] = k[1]
  BY <1>1, <1>2
<1>4. ASSUME j # k PROVE FALSE
  <2>1. Beats(j[2], votes[j], k[2], votes[k]) /\ Beats(k[2], votes[k], j[2], votes[j])
    BY <1>1, <1>2, <1>3, <1>4 DEF Elected
  <2> QED BY <2>1 DEF Beats
<1> QED BY <1>1, <1>2, <1>4

(***************************************************************************)
(* No network on which some AS reaches the threshold goes unassigned: ties *)
(* and near ties always have a winner.                                     *)
(***************************************************************************)
THEOREM EveryQuorumElects ==
    ASSUME NEW votes, NEW threshold \in Nat, NEW limit \in Nat,
           \A k \in DOMAIN votes : k = <<k[1], k[2]>> /\ k[2] \in Nat /\ votes[k] \in 0 .. limit,
           NEW k0 \in DOMAIN votes, votes[k0] >= threshold
    PROVE  \E e \in FinalEntries(votes, threshold) : e.ip_prefix = k0[1]
<1> DEFINE rivals == {k \in DOMAIN votes : k[1] = k0[1]}
           gaps == {limit - votes[k] : k \in rivals}
<1>1. gaps \in SUBSET Nat /\ limit - votes[k0] \in gaps
  OBVIOUS
<1>2. PICK gap \in gaps : \A g \in gaps : gap <= g
  BY <1>1, LeastElement
<1> DEFINE leaders == {k \in rivals : limit - votes[k] = gap}
           asns == {k[2] : k \in leaders}
<1>3. asns \in SUBSET Nat /\ asns # {}
  BY <1>2
<1>4. PICK asn \in asns : \A a \in asns : asn <= a
  BY <1>3, LeastElement
<1>5. PICK w \in leaders : w[2] = asn
  BY <1>4
<1>6. w \in rivals /\ limit - votes[w] = gap /\ w[1] = k0[1]
  BY <1>5
<1>7. \A k \in rivals : votes[w] >= votes[k]
  <2> SUFFICES ASSUME NEW k \in rivals PROVE votes[w] >= votes[k]
    OBVIOUS
  <2>1. limit - votes[k] \in gaps
    OBVIOUS
  <2>2. limit - votes[w] <= limit - votes[k]
    BY <1>2, <1>6, <2>1
  <2>3. votes[w] \in 0 .. limit /\ votes[k] \in 0 .. limit
    BY <1>6
  <2> QED BY <2>2, <2>3
<1>8. ASSUME NEW k \in DOMAIN votes, k[1] = w[1], k # w
      PROVE  Beats(w[2], votes[w], k[2], votes[k])
  <2>1. k \in rivals /\ votes[w] >= votes[k]
    BY <1>6, <1>7, <1>8
  <2>2. votes[w] \in Nat /\ votes[k] \in Nat /\ w[2] \in Nat /\ k[2] \in Nat
        /\ k = <<k[1], k[2]>> /\ w = <<w[1], w[2]>>
    BY <1>6, <2>1
  <2>3. ASSUME votes[k] = votes[w] PROVE w[2] < k[2]
    <3>1. k \in leaders
      BY <1>6, <2>1, <2>3
    <3>2. w[2] <= k[2]
      BY <1>4, <1>5, <3>1
    <3>3. w[2] # k[2]
      BY <1>8, <2>2
    <3> QED BY <2>2, <3>2, <3>3
  <2> QED BY <2>1, <2>2, <2>3 DEF Beats
<1>9. votes[w] >= threshold
  <2>1. votes[w] >= votes[k0] /\ votes[w] \in Nat /\ votes[k0] \in Nat
    BY <1>6, <1>7
  <2> QED BY <2>1
<1>10. Elected(votes, threshold, w)
  BY <1>6, <1>8, <1>9 DEF Elected
<1>11. w \in DOMAIN votes /\ w[1] = k0[1]
  BY <1>6
<1> HIDE DEF rivals, gaps, leaders, asns
<1> DEFINE e == [ip_prefix |-> w[1], asn |-> w[2], votes |-> votes[w]]
<1>12. e \in FinalEntries(votes, threshold) /\ e.ip_prefix = k0[1]
  BY <1>10, <1>11 DEF FinalEntries
<1> QED BY <1>12

(***************************************************************************)
(* What is known of an entry of the artifact: it is on a clear prefix, and *)
(* its votes are threshold or more ballots of the round.                   *)
(***************************************************************************)
LEMMA WinnerIsBacked ==
    ASSUME NEW eng, NEW bs, GoodRound(eng, bs),
           NEW e \in FinalEntries(eng.votes, Threshold)
    PROVE  LET key == <<e.ip_prefix, e.asn>>
           IN  /\ key \in VoteKey /\ ClearPrefix(e.ip_prefix)
               /\ e = [ip_prefix |-> e.ip_prefix, asn |-> e.asn, votes |-> e.votes]
               /\ e.votes >= Threshold
               /\ e.votes \in Nat
               /\ e.votes = Cardinality(Backers(bs, key))
<1>1. /\ DOMAIN eng.votes \subseteq VoteKey
      /\ \A k \in DOMAIN eng.votes : eng.votes[k] \in Nat
      /\ IsTally(eng.votes, bs)
      /\ \A s \in DOMAIN bs : AssertsOnce(bs[s])
  BY DEF GoodRound, EngineType
<1>2. PICK k \in DOMAIN eng.votes :
         /\ Elected(eng.votes, Threshold, k)
         /\ e = [ip_prefix |-> k[1], asn |-> k[2], votes |-> eng.votes[k]]
  BY DEF FinalEntries
<1>3. ClearPrefix(k[1])
  BY <1>1 DEF IsTally, AssertsOnce
<1>4. k = <<e.ip_prefix, e.asn>> /\ k \in VoteKey
  BY <1>1, <1>2 DEF VoteKey
<1> QED BY <1>1, <1>2, <1>3, <1>4 DEF IsTally, Elected

(***************************************************************************)
(* The keys of the vote map are clear prefixes, since every one of them is *)
(* on some ballot; so two of them on one path are on one prefix, and       *)
(* finalize elects one AS for a prefix.                                    *)
(***************************************************************************)
LEMMA GoodRoundHasDistinctPaths ==
    ASSUME NEW eng, NEW bs, GoodRound(eng, bs)
    PROVE  \A x, y \in FinalEntries(eng.votes, Threshold) :
               IpToBits(x.ip_prefix) = IpToBits(y.ip_prefix) => x = y
<1> SUFFICES ASSUME NEW x \in FinalEntries(eng.votes, Threshold),
                    NEW y \in FinalEntries(eng.votes, Threshold),
                    IpToBits(x.ip_prefix) = IpToBits(y.ip_prefix)
             PROVE  x = y
  OBVIOUS
<1>1. x.ip_prefix = y.ip_prefix
  BY WinnerIsBacked, ClearPathsInjective
<1>2. \A k \in DOMAIN eng.votes : k[2] \in Nat /\ eng.votes[k] \in Nat
  BY AsnAssumption DEF GoodRound, EngineType, VoteKey, Asn
<1> QED BY <1>1, <1>2, OneWinnerPerPrefix

=============================================================================
