------------------------ MODULE OfflineReplayProofs ------------------------
(***************************************************************************)
(* Theorems about OfflineReplay: every claims file of every length, every  *)
(* --epoch, every threshold and every limit.                               *)
(***************************************************************************)
EXTENDS OfflineReplay, ClaimEngineProofs

---------------------------------------------------------------------------
(* The inductive invariant.                                                *)

Phase == {"start", "claims", "save_map", "save_report", "check", "exit"}

(* Every ballot is that of a good claim among the first n, for that epoch. *)
FromFile(bs, file, n, epoch) ==
    \A s \in DOMAIN bs : \E i \in 1 .. n :
        /\ IsGood(file[i])
        /\ file[i].sender_id = s
        /\ file[i].epoch = epoch
        /\ bs[s] = VoteKeys(file[i].entries)

(* After n claims the engine is at the epoch they lead to, no claim before
   led further, and while the cap is no obstacle those in reach are in. *)
NoneLost(file, n, eng, reached) ==
    /\ eng.epoch = reached[n]
    /\ \A i \in 0 .. n : reached[i] \in Nat /\ reached[i] <= eng.epoch
    /\ LET voters == VotersInReach(file, reached, n, eng.epoch)
       IN  Cardinality(voters) <= MaxSenders => eng.seen_senders = voters

Progress ==
    /\ claims \in ClaimsFile
    /\ option \in EpochOption /\ earlier \in EarlierFiles
    /\ next \in 1 .. Len(claims) + 1
    /\ phase \in Phase
    /\ status \in {"none", "success", "failure"}
    /\ status # "none" <=> phase = "exit"
    /\ phase = "start" => engine = Idle /\ next = 1
    /\ phase = "save_map" => next = Len(claims) + 1

RoundOfFile ==
    /\ engine.epoch <= EPOCH_ABSOLUTE_MAX
    /\ \E bs : GoodRound(engine, bs) /\ FromFile(bs, claims, next - 1, engine.epoch)

Complete ==
    phase \in {"claims", "save_map"} =>
        /\ engine.max_epoch = EPOCH_ABSOLUTE_MAX
        /\ StartingEpoch \in Nat
        /\ NoneLost(claims, next - 1, engine, EpochReached(claims, StartingEpoch))

Done(phases) == phase \in phases \/ status = "success"

Finalized(a, eng) ==
    \E order, listing \in Seqs!SetToSeqs(FinalEntries(eng.votes, Threshold)) :
        a = Artifact(eng, order, listing)

Saved ==
    /\ Done({"save_map", "save_report", "check"}) => Finalized(artifact, engine)
    /\ Done({"save_report", "check"}) => map_file = artifact.map
    /\ Done({"check"}) => report_file = ReportOf(artifact)
    /\ status = "success" => artifact.entries # << >>

(* What the report path holds before this run's report is written, and what
   a failed run leaves there. *)
Kept ==
    /\ phase \in {"start", "claims", "save_map", "save_report"} =>
          report_file = earlier.report
    /\ status = "failure" =>
          \/ report_file \in {earlier.report, Truncated}
          \/ report_file.entries = << >>

IInv == Progress /\ RoundOfFile /\ Complete /\ Saved /\ Kept

---------------------------------------------------------------------------
(* One claim of the file.                                                  *)

(***************************************************************************)
(* An accepted claim is good in itself.                                    *)
(***************************************************************************)
LEMMA AcceptedClaimIsGood ==
    ASSUME NEW eng, NEW bs, GoodRound(eng, bs), NEW claim,
           claim.sender_id \in PeerId, claim.epoch \in Epoch, IsEntryList(claim.entries),
           Accepts(eng, claim, claim.sender_id)
    PROVE  IsGood(claim)
<1>1. /\ claim.claim_hash = ClaimHash(claim.epoch, claim.sender_id, claim.entries)
      /\ ~(Len(claim.entries) < MIN_CLAIM_ENTRIES)
      /\ ~(Len(claim.entries) > MAX_CLAIM_ENTRIES)
      /\ ~(claim.epoch > eng.max_epoch)
      /\ EntriesViolation(claim.entries) = Ok
  BY PassedGates DEF Accepts
<1>2. Len(claim.entries) \in MIN_CLAIM_ENTRIES .. MAX_CLAIM_ENTRIES
  BY <1>1, LimitAssumption DEF IsEntryList
<1>3. eng.max_epoch \in Epoch /\ eng.max_epoch <= EPOCH_ABSOLUTE_MAX
  BY DEF GoodRound, EngineType
<1>4. claim.epoch <= EPOCH_ABSOLUTE_MAX
  BY <1>1, <1>3, LimitAssumption DEF Epoch
<1> QED BY <1>1, <1>2, <1>4 DEF IsGood

(***************************************************************************)
(* A good claim that is neither stale nor out of reach of the skew passes  *)
(* gates 1 to 6.                                                           *)
(***************************************************************************)
LEMMA GoodClaimPasses ==
    ASSUME NEW eng, eng.epoch \in Epoch, eng.max_epoch = EPOCH_ABSOLUTE_MAX,
           NEW claim, IsGood(claim), claim.epoch \in Epoch, IsEntryList(claim.entries),
           claim.claim_hash # MalformedHash,
           eng.epoch <= claim.epoch, claim.epoch <= eng.epoch + MAX_EPOCH_SKEW
    PROVE  ClaimViolation(eng, claim, claim.sender_id) = Ok
<1>1. /\ ~(claim.sender_id \in OverlongId)
      /\ claim.claim_hash = ClaimHash(claim.epoch, claim.sender_id, claim.entries)
      /\ claim.epoch <= EPOCH_ABSOLUTE_MAX
      /\ EntriesViolation(claim.entries) = Ok
  BY PeerIdAssumption DEF IsGood
<1>2. ~(Len(claim.entries) < MIN_CLAIM_ENTRIES) /\ ~(Len(claim.entries) > MAX_CLAIM_ENTRIES)
  BY LimitAssumption DEF IsGood, IsEntryList
<1>3. ~(claim.epoch > eng.max_epoch) /\ ~(claim.epoch < eng.epoch)
  BY <1>1, LimitAssumption DEF Epoch
<1>4. ~(claim.epoch > SaturatingAdd(eng.epoch, MAX_EPOCH_SKEW))
  BY LimitAssumption DEF SaturatingAdd, Lesser, Epoch
<1>5. ShapeViolation(eng, claim) = Ok
  BY <1>1, <1>2, <1>3 DEF ShapeViolation
<1> QED BY <1>1, <1>3, <1>4, <1>5 DEF ClaimViolation

(***************************************************************************)
(* What process_claim makes of a round: nothing, one ballot more, or a     *)
(* later round with one ballot.                                            *)
(***************************************************************************)
Ignored(new, eng, bs, claim) ==
    /\ GoodRound(new, bs) /\ SameRound(new, eng)
    /\ ~(claim.sender_id \in PeerId /\ Accepts(eng, claim, claim.sender_id))

Joined(new, eng, bs, claim) ==
    /\ claim.sender_id \in PeerId /\ Accepts(eng, claim, claim.sender_id)
    /\ GoodRound(new, With(bs, claim.sender_id, VoteKeys(claim.entries)))
    /\ claim.epoch = eng.epoch /\ new.epoch = eng.epoch /\ new.max_epoch = eng.max_epoch
    /\ new.seen_senders = eng.seen_senders \cup {claim.sender_id}

Opened(new, eng, claim) ==
    /\ claim.sender_id \in PeerId /\ Accepts(eng, claim, claim.sender_id)
    /\ GoodRound(new, With(NoBallots, claim.sender_id, VoteKeys(claim.entries)))
    /\ claim.epoch > eng.epoch /\ new.epoch = claim.epoch /\ new.max_epoch = eng.max_epoch
    /\ new.seen_senders = {claim.sender_id}

(***************************************************************************)
(* process_claim does one of the three.                                    *)
(***************************************************************************)
LEMMA ProcessClaimOutcome ==
    ASSUME NEW eng, NEW bs, GoodRound(eng, bs),
           NEW claim, claim.epoch \in Epoch, IsEntryList(claim.entries)
    PROVE  LET new == ProcessClaim(eng, claim)
           IN  \/ Ignored(new, eng, bs, claim)
               \/ Joined(new, eng, bs, claim)
               \/ Opened(new, eng, claim)
<1> DEFINE s == claim.sender_id
           new == ProcessClaim(eng, claim)
<1>1. CASE s \in OverlongId \/ s \notin PeerId
  <2>1. s \notin PeerId
    BY <1>1, PeerIdAssumption
  <2>2. \E reason \in Reason : new = CountRejection(eng, reason)
    BY <1>1 DEF ProcessClaim, Reason, CountedReason
  <2>3. GoodRound(new, bs) /\ SameRound(new, eng)
    BY <2>2, CountedIsGood
  <2> QED BY <2>1, <2>3 DEF Ignored
<1>2. CASE ~(s \in OverlongId) /\ s \in PeerId
  <2>1. new = ProcessClaimFromPeer(eng, claim, s)
    BY <1>2 DEF ProcessClaim
  <2>2. CASE ~Accepts(eng, claim, s)
    <3>1. GoodRound(new, bs) /\ SameRound(new, eng)
      BY <1>2, <2>1, <2>2, RejectedIsGood
    <3> QED BY <2>2, <3>1 DEF Ignored
  <2>3. CASE Accepts(eng, claim, s) /\ claim.epoch = eng.epoch
    <3>1. /\ GoodRound(new, With(bs, s, VoteKeys(claim.entries)))
          /\ new.epoch = eng.epoch /\ new.max_epoch = eng.max_epoch
          /\ new.seen_senders = eng.seen_senders \cup {s}
      BY <1>2, <2>1, <2>3, JoinedIsGood
    <3> QED BY <1>2, <2>3, <3>1 DEF Joined
  <2>4. CASE Accepts(eng, claim, s) /\ claim.epoch > eng.epoch
    <3>1. /\ GoodRound(new, With(NoBallots, s, VoteKeys(claim.entries)))
          /\ new.epoch = claim.epoch /\ new.max_epoch = eng.max_epoch
          /\ new.seen_senders = {s}
      BY <1>2, <2>1, <2>4, OpenedIsGood
    <3> QED BY <1>2, <2>4, <3>1 DEF Opened
  <2>5. eng.epoch \in Epoch
    BY DEF GoodRound, EngineType
  <2> QED BY <2>2, <2>3, <2>4, <2>5, AcceptedIsNotStale
<1> QED BY <1>1, <1>2

(***************************************************************************)
(* Processing claim n keeps the ballots those of good claims of the file   *)
(* and the epoch a real one.                                               *)
(***************************************************************************)
LEMMA FromFileStep ==
    ASSUME NEW file, NEW n \in Nat \ {0}, NEW eng, NEW bs,
           file[n].epoch \in Epoch, IsEntryList(file[n].entries),
           GoodRound(eng, bs), eng.epoch <= EPOCH_ABSOLUTE_MAX,
           FromFile(bs, file, n - 1, eng.epoch)
    PROVE  LET new == ProcessClaim(eng, file[n])
           IN  /\ new.epoch <= EPOCH_ABSOLUTE_MAX
               /\ \E nbs : GoodRound(new, nbs) /\ FromFile(nbs, file, n, new.epoch)
<1> DEFINE claim == file[n]
           new == ProcessClaim(eng, claim)
           s == claim.sender_id
           keys == VoteKeys(claim.entries)
<1>1. \/ Ignored(new, eng, bs, claim)
      \/ Joined(new, eng, bs, claim)
      \/ Opened(new, eng, claim)
  BY ProcessClaimOutcome
<1>2. Accepts(eng, claim, s) /\ s \in PeerId => IsGood(claim)
  BY AcceptedClaimIsGood
<1>3. n \in 1 .. n /\ \A i \in 1 .. n - 1 : i \in 1 .. n
  OBVIOUS
<1> HIDE DEF claim, new, s, keys
<1>4. CASE Ignored(new, eng, bs, claim)
  <2>1. GoodRound(new, bs) /\ new.epoch = eng.epoch
    BY <1>4 DEF Ignored, SameRound
  <2>2. FromFile(bs, file, n, new.epoch)
    BY <1>3, <2>1 DEF FromFile
  <2> QED BY <2>1, <2>2 DEF new, claim
<1>5. CASE Joined(new, eng, bs, claim)
  <2>1. /\ GoodRound(new, With(bs, s, keys)) /\ new.epoch = eng.epoch
        /\ IsGood(claim) /\ claim.epoch = new.epoch
    BY <1>2, <1>5 DEF Joined, s, keys
  <2>2. FromFile(With(bs, s, keys), file, n, new.epoch)
    <3> SUFFICES ASSUME NEW t \in DOMAIN bs \cup {s}
                 PROVE  \E i \in 1 .. n :
                           /\ IsGood(file[i]) /\ file[i].sender_id = t
                           /\ file[i].epoch = new.epoch
                           /\ (IF t = s THEN keys ELSE bs[t]) = VoteKeys(file[i].entries)
      BY DEF FromFile, With
    <3>1. CASE t = s
      BY <1>3, <2>1, <3>1 DEF claim, s, keys
    <3>2. CASE t # s
      BY <1>3, <2>1, <3>2 DEF FromFile
    <3> QED BY <3>1, <3>2
  <2> QED BY <2>1, <2>2 DEF new, claim
<1>6. CASE Opened(new, eng, claim)
  <2>1. /\ GoodRound(new, With(NoBallots, s, keys)) /\ new.epoch = claim.epoch
        /\ IsGood(claim)
    BY <1>2, <1>6 DEF Opened, s, keys
  <2>2. FromFile(With(NoBallots, s, keys), file, n, new.epoch)
    BY <1>3, <2>1 DEF FromFile, With, NoBallots, claim, s, keys
  <2>3. new.epoch <= EPOCH_ABSOLUTE_MAX
    BY <2>1 DEF IsGood
  <2> QED BY <2>1, <2>2, <2>3 DEF new, claim
<1> QED BY <1>1, <1>4, <1>5, <1>6

(* The epoch reached once the claim has been read. *)
EpochAfter(claim, epoch) == IF LeadsOn(claim, epoch) THEN claim.epoch ELSE epoch

(***************************************************************************)
(* The recursion of EpochReached has a function that satisfies it: the     *)
(* epoch after a claim is that of the claim if it leads on, and else the   *)
(* one before.                                                             *)
(***************************************************************************)
LEMMA ReachedUnfolds ==
    ASSUME NEW file, Len(file) \in Nat, \A i \in 1 .. Len(file) : file[i].epoch \in Nat,
           NEW start \in Nat
    PROVE  LET reached == EpochReached(file, start)
           IN  /\ reached[0] = start
               /\ \A i \in 1 .. Len(file) : reached[i] = EpochAfter(file[i], reached[i - 1])
<1> DEFINE n == Len(file)
           Is(f) == f = [i \in 0 .. n |-> IF i = 0 THEN start
                                          ELSE IF LeadsOn(file[i], f[i - 1]) THEN file[i].epoch
                                          ELSE f[i - 1]]
           reached == CHOOSE f : Is(f)
           step == [i \in 1 .. n |-> [v \in Nat |-> EpochAfter(file[i], v)]]
<1>1. step \in [1 .. n -> [Nat -> Nat]]
  BY DEF EpochAfter
<1> HIDE DEF step
<1>2. PICK g \in [0 .. n -> Nat] : Unfolds(g, n, start, step)
  BY <1>1, IntervalRecursion
<1>3. g[0] = start
  BY <1>2 DEF Unfolds
<1>4. ASSUME NEW i \in 1 .. n PROVE g[i] = EpochAfter(file[i], g[i - 1])
  <2>1. g[i - 1] \in Nat
    <3>1. i - 1 \in 0 .. n
      OBVIOUS
    <3> QED BY <1>2, <3>1
  <2>2. g[i] = step[i][g[i - 1]]
    BY <1>2 DEF Unfolds
  <2> QED BY <2>1, <2>2 DEF step
<1>5. Is(g)
  <2> DEFINE again == [i \in 0 .. n |-> IF i = 0 THEN start
                                        ELSE IF LeadsOn(file[i], g[i - 1]) THEN file[i].epoch
                                        ELSE g[i - 1]]
  <2>1. ASSUME NEW i \in 0 .. n PROVE g[i] = again[i]
    <3>1. CASE i = 0
      BY <1>3, <3>1
    <3>2. CASE i # 0
      <4>1. i \in 1 .. n
        BY <3>2
      <4> QED BY <1>4, <3>2, <4>1 DEF EpochAfter
    <3> QED BY <3>1, <3>2
  <2>2. g = again
    BY <1>2, <2>1
  <2> QED BY <2>2
<1>6. Is(reached)
  BY <1>5, Zenon DEF reached
<1>7. EpochReached(file, start) = reached
  BY DEF EpochReached
<1> HIDE DEF reached
<1>8. reached[0] = start
  BY <1>6
<1>9. ASSUME NEW i \in 1 .. n PROVE reached[i] = EpochAfter(file[i], reached[i - 1])
  <2>1. i \in 0 .. n /\ i # 0
    OBVIOUS
  <2> QED BY <1>6, <2>1 DEF EpochAfter
<1> QED BY <1>7, <1>8, <1>9

(***************************************************************************)
(* The voters in reach among the first n claims are finitely many.         *)
(***************************************************************************)
LEMMA VotersFinite ==
    ASSUME NEW file, NEW reached, NEW n \in Nat, NEW epoch
    PROVE  IsFiniteSet(VotersInReach(file, reached, n, epoch))
<1> DEFINE S == {m \in 1 .. n : /\ IsGood(file[m]) /\ file[m].epoch = epoch
                                /\ epoch <= reached[m - 1] + MAX_EPOCH_SKEW}
           f == [i \in S |-> file[i].sender_id]
<1>1. IsFiniteSet(1 .. n)
  BY FS_Interval
<1>2. IsFiniteSet(DOMAIN f)
  BY <1>1, FS_Subset
<1>3. VotersInReach(file, reached, n, epoch) = {f[i] : i \in DOMAIN f}
  BY DEF VotersInReach
<1> HIDE DEF f, S
<1> QED BY <1>2, <1>3, FiniteImage

(***************************************************************************)
(* Claim n adds its sender to them, if it is good, of the epoch and in     *)
(* reach.                                                                  *)
(***************************************************************************)
LEMMA VotersStep ==
    ASSUME NEW file, NEW reached, NEW n \in Nat \ {0}, NEW epoch
    PROVE  LET before == VotersInReach(file, reached, n - 1, epoch)
               votes == /\ IsGood(file[n]) /\ file[n].epoch = epoch
                        /\ epoch <= reached[n - 1] + MAX_EPOCH_SKEW
           IN  VotersInReach(file, reached, n, epoch)
                   = before \cup (IF votes THEN {file[n].sender_id} ELSE {})
<1> DEFINE Votes(m) == /\ IsGood(file[m]) /\ file[m].epoch = epoch
                       /\ epoch <= reached[m - 1] + MAX_EPOCH_SKEW
<1>1. /\ VotersInReach(file, reached, n, epoch)
            = {file[i].sender_id : i \in {m \in 1 .. n : Votes(m)}}
      /\ VotersInReach(file, reached, n - 1, epoch)
            = {file[i].sender_id : i \in {m \in 1 .. n - 1 : Votes(m)}}
  BY DEF VotersInReach
<1> HIDE DEF Votes
<1>2. 1 .. n = (1 .. n - 1) \cup {n}
  OBVIOUS
<1>3. VotersInReach(file, reached, n, epoch)
          = VotersInReach(file, reached, n - 1, epoch)
              \cup (IF Votes(n) THEN {file[n].sender_id} ELSE {})
  BY <1>1, <1>2
<1> QED BY <1>3 DEF Votes

(***************************************************************************)
(* Processing claim n loses no claim in reach: one that leads on is        *)
(* adopted, and one that is level is counted while the voters of the epoch *)
(* fit under the cap.                                                      *)
(***************************************************************************)
LEMMA NoneLostStep ==
    ASSUME NEW file, NEW n \in Nat \ {0}, NEW reached,
           \A i \in 1 .. n : file[i].epoch \in Epoch,
           \A i \in 1 .. n : reached[i] = EpochAfter(file[i], reached[i - 1]),
           NEW eng, NEW bs,
           IsEntryList(file[n].entries),
           ClaimHash(file[n].epoch, file[n].sender_id, file[n].entries) # MalformedHash,
           GoodRound(eng, bs), eng.max_epoch = EPOCH_ABSOLUTE_MAX,
           NoneLost(file, n - 1, eng, reached)
    PROVE  LET new == ProcessClaim(eng, file[n])
           IN  /\ NoneLost(file, n, new, reached)
               /\ new.max_epoch = EPOCH_ABSOLUTE_MAX
<1> DEFINE claim == file[n]
           new == ProcessClaim(eng, claim)
           s == claim.sender_id
           before == VotersInReach(file, reached, n - 1, eng.epoch)
           voters == VotersInReach(file, reached, n, eng.epoch)
<1>1. \/ Ignored(new, eng, bs, claim)
      \/ Joined(new, eng, bs, claim)
      \/ Opened(new, eng, claim)
  BY ProcessClaimOutcome
<1>2. /\ eng.epoch \in Epoch /\ eng.epoch \in Nat /\ claim.epoch \in Epoch
      /\ claim.epoch \in Nat /\ MAX_EPOCH_SKEW \in Nat
      /\ IsFiniteSet(eng.seen_senders) /\ U64_MAX \in Nat
  BY LimitAssumption DEF GoodRound, EngineType, Epoch
<1>3. /\ eng.epoch = reached[n - 1]
      /\ \A i \in 0 .. n - 1 : reached[i] \in Nat /\ reached[i] <= eng.epoch
      /\ Cardinality(before) <= MaxSenders => eng.seen_senders = before
  BY DEF NoneLost
<1>4. reached[n] = IF LeadsOn(claim, eng.epoch) THEN claim.epoch ELSE eng.epoch
  BY <1>3 DEF EpochAfter
<1>5. \A i \in 0 .. n : i \in 0 .. n - 1 \/ i = n
  OBVIOUS
<1>6. voters = before \cup (IF IsGood(claim) /\ claim.epoch = eng.epoch THEN {s} ELSE {})
  <2>1. eng.epoch <= reached[n - 1] + MAX_EPOCH_SKEW
    BY <1>2, <1>3
  <2> DEFINE votes == /\ IsGood(claim) /\ claim.epoch = eng.epoch
                      /\ eng.epoch <= reached[n - 1] + MAX_EPOCH_SKEW
  <2>2. voters = before \cup (IF votes THEN {s} ELSE {})
    BY VotersStep
  <2>3. votes <=> IsGood(claim) /\ claim.epoch = eng.epoch
    BY <2>1
  <2> HIDE DEF votes, voters, before
  <2> QED BY <2>2, <2>3
<1>7. /\ IsFiniteSet(voters) /\ IsFiniteSet(before)
      /\ Cardinality(voters) \in Nat /\ Cardinality(before) \in Nat
      /\ Cardinality(before) <= Cardinality(voters)
  <2>1. n - 1 \in Nat /\ n \in Nat
    OBVIOUS
  <2>2. IsFiniteSet(voters) /\ IsFiniteSet(before) /\ before \subseteq voters
    BY <1>6, <2>1, VotersFinite
  <2> QED BY <2>2, FS_Subset, FS_CardinalityType
<1>8. Cardinality(voters) <= MaxSenders => eng.seen_senders = before
  BY <1>3, <1>7, MaxSendersPositive
<1>9. ASSUME IsGood(claim), eng.epoch <= claim.epoch, claim.epoch <= eng.epoch + MAX_EPOCH_SKEW
      PROVE  ClaimViolation(eng, claim, s) = Ok /\ s \in PeerId
  <2>1. claim.claim_hash # MalformedHash
    BY <1>9 DEF IsGood
  <2> QED BY <1>2, <1>9, <2>1, GoodClaimPasses DEF IsGood
<1>10. Accepts(eng, claim, s) /\ s \in PeerId => IsGood(claim)
  BY <1>2, AcceptedClaimIsGood
<1>11. Accepts(eng, claim, s) => claim.epoch <= eng.epoch + MAX_EPOCH_SKEW
  <2> SUFFICES ASSUME Accepts(eng, claim, s)
               PROVE  claim.epoch <= eng.epoch + MAX_EPOCH_SKEW
    OBVIOUS
  <2>1. ~(claim.epoch > SaturatingAdd(eng.epoch, MAX_EPOCH_SKEW))
    BY DEF Accepts, ClaimViolation, Ok
  <2> QED BY <1>2, <2>1 DEF SaturatingAdd, Lesser
<1> HIDE DEF claim, new, s, voters, before
<1>12. CASE Ignored(new, eng, bs, claim)
  <2>1. /\ new.epoch = eng.epoch /\ new.max_epoch = eng.max_epoch
        /\ new.seen_senders = eng.seen_senders
        /\ ~(s \in PeerId /\ Accepts(eng, claim, s))
    BY <1>12 DEF Ignored, SameRound, s
  <2>2. ASSUME LeadsOn(claim, eng.epoch) PROVE FALSE
    <3>1. ClaimViolation(eng, claim, s) = Ok /\ s \in PeerId /\ claim.epoch > eng.epoch
      BY <1>2, <1>9, <2>2 DEF LeadsOn
    <3>2. SenderViolation(AdoptEpoch(eng, claim), claim) = Ok
      BY <3>1, AdoptedClaimIsNotRefused
    <3> QED BY <2>1, <3>1, <3>2 DEF Accepts
  <2>3. ASSUME IsGood(claim), claim.epoch = eng.epoch, Cardinality(voters) <= MaxSenders,
               s \notin eng.seen_senders
        PROVE  FALSE
    <3>1. ClaimViolation(eng, claim, s) = Ok /\ s \in PeerId
      BY <1>2, <1>9, <2>3
    <3>2. ~(claim.epoch > eng.epoch)
      BY <1>2, <2>3
    <3>3. AdoptEpoch(eng, claim) = eng
      BY <3>2 DEF AdoptEpoch
    <3>4. SenderViolation(eng, claim) # Ok
      BY <2>1, <3>1, <3>3 DEF Accepts
    <3>5. Cardinality(eng.seen_senders) >= MaxSenders
      BY <2>3, <3>4 DEF SenderViolation, s
    <3>6. eng.seen_senders \cup {s} = voters
      BY <1>6, <1>8, <2>3
    <3>7. Cardinality(eng.seen_senders \cup {s}) = Cardinality(eng.seen_senders) + 1
      BY <1>2, <2>3, FS_AddElement
    <3>8. Cardinality(eng.seen_senders) \in Nat
      BY <1>2, FS_CardinalityType
    <3>9. Cardinality(voters) = Cardinality(eng.seen_senders) + 1
      BY <3>6, <3>7
    <3>10. Cardinality(voters) <= MaxSenders
      BY <2>3
    <3> QED BY <3>5, <3>8, <3>9, <3>10, MaxSendersPositive
  <2>4. reached[n] = new.epoch
    BY <1>4, <2>1, <2>2
  <2>5. ASSUME NEW i \in 0 .. n PROVE reached[i] \in Nat /\ reached[i] <= new.epoch
    BY <1>2, <1>3, <1>5, <2>1, <2>4
  <2>6. Cardinality(voters) <= MaxSenders => new.seen_senders = voters
    BY <1>6, <1>8, <2>1, <2>3
  <2>7. NoneLost(file, n, new, reached)
    BY <2>1, <2>4, <2>5, <2>6 DEF NoneLost, voters
  <2> QED BY <2>1, <2>7 DEF new, claim
<1>13. CASE Joined(new, eng, bs, claim)
  <2>1. /\ new.epoch = eng.epoch /\ new.max_epoch = eng.max_epoch
        /\ claim.epoch = eng.epoch /\ IsGood(claim)
        /\ new.seen_senders = eng.seen_senders \cup {s}
    BY <1>10, <1>13 DEF Joined, s
  <2>2. reached[n] = new.epoch
    BY <1>4, <2>1
  <2>3. ASSUME NEW i \in 0 .. n PROVE reached[i] \in Nat /\ reached[i] <= new.epoch
    BY <1>2, <1>3, <1>5, <2>1, <2>2
  <2>4. Cardinality(voters) <= MaxSenders => new.seen_senders = voters
    BY <1>6, <1>8, <2>1
  <2>5. NoneLost(file, n, new, reached)
    BY <2>1, <2>2, <2>3, <2>4 DEF NoneLost, voters
  <2> QED BY <2>1, <2>5 DEF new, claim
<1>14. CASE Opened(new, eng, claim)
  <2>1. /\ new.epoch = claim.epoch /\ new.max_epoch = eng.max_epoch
        /\ claim.epoch > eng.epoch /\ IsGood(claim)
        /\ claim.epoch <= eng.epoch + MAX_EPOCH_SKEW
        /\ new.seen_senders = {s}
    BY <1>10, <1>11, <1>14 DEF Opened, s
  <2>2. LeadsOn(claim, eng.epoch)
    BY <1>2, <2>1 DEF LeadsOn
  <2>3. reached[n] = new.epoch
    BY <1>4, <2>1, <2>2
  <2>4. ASSUME NEW i \in 0 .. n PROVE reached[i] \in Nat /\ reached[i] <= new.epoch
    <3>1. CASE i \in 0 .. n - 1
      <4>1. reached[i] \in Nat /\ reached[i] <= eng.epoch
        BY <1>3, <3>1
      <4> QED BY <1>2, <2>1, <4>1
    <3>2. CASE i = n
      BY <1>2, <2>1, <2>3, <3>2
    <3> QED BY <1>5, <3>1, <3>2
  <2>5. ASSUME NEW i \in 1 .. n - 1, IsGood(file[i]), file[i].epoch = claim.epoch,
               claim.epoch <= reached[i - 1] + MAX_EPOCH_SKEW
        PROVE  FALSE
    <3>1. i \in 1 .. n /\ i - 1 \in 0 .. n - 1 /\ i \in 0 .. n - 1
      OBVIOUS
    <3>2. /\ reached[i - 1] \in Nat /\ reached[i - 1] <= eng.epoch
          /\ reached[i] \in Nat /\ reached[i] <= eng.epoch
      BY <1>3, <3>1
    <3>3. LeadsOn(file[i], reached[i - 1])
      BY <1>2, <2>1, <2>5, <3>2 DEF LeadsOn
    <3>4. reached[i] = claim.epoch
      BY <2>5, <3>1, <3>3 DEF EpochAfter
    <3> QED BY <1>2, <2>1, <3>2, <3>4
  <2>6. VotersInReach(file, reached, n - 1, claim.epoch) = {}
    BY <2>5 DEF VotersInReach
  <2>7. claim.epoch <= reached[n - 1] + MAX_EPOCH_SKEW
    BY <1>3, <2>1
  <2>8. VotersInReach(file, reached, n, claim.epoch) = {s}
    BY <2>1, <2>6, <2>7, VotersStep DEF claim, s
  <2>9. NoneLost(file, n, new, reached)
    BY <2>1, <2>3, <2>4, <2>8 DEF NoneLost
  <2> QED BY <2>1, <2>9 DEF new, claim
<1> QED BY <1>1, <1>12, <1>13, <1>14

---------------------------------------------------------------------------
(* The artifact.                                                           *)

DistinctPathsIn(S) ==
    \A x, y \in S : IpToBits(x.ip_prefix) = IpToBits(y.ip_prefix) => x = y

(***************************************************************************)
(* A listing of a finite set runs through the set, each element once.      *)
(***************************************************************************)
LEMMA ListingProperties ==
    ASSUME NEW S, IsFiniteSet(S), NEW s \in Seqs!SetToSeqs(S)
    PROVE  /\ Cardinality(S) \in Nat
           /\ s \in [1 .. Cardinality(S) -> S]
           /\ \A i, j \in DOMAIN s : s[i] = s[j] => i = j
           /\ \A e \in S : \E i \in DOMAIN s : s[i] = e
<1> DEFINE n == Cardinality(S)
<1>1. n \in Nat
  BY FS_CardinalityType
<1>2. Seqs!Cardinality(S) = n
  BY DEF Seqs!Cardinality, Cardinality
<1>3. s \in [1 .. n -> S] /\ \A i, j \in 1 .. n : i # j => s[i] # s[j]
  BY <1>2 DEF Seqs!SetToSeqs
<1>4. s \in Injection(1 .. n, S)
  BY <1>3 DEF Injection, IsInjective
<1>5. Cardinality(1 .. n) = n
  BY <1>1, FS_Interval
<1>6. s \in Surjection(1 .. n, S)
  BY <1>4, <1>5, FS_Injection
<1> QED BY <1>1, <1>3, <1>6 DEF Surjection

(***************************************************************************)
(* The map of entries with distinct paths does not depend on their order:  *)
(* update_multi gives each path the AS of the one entry on it.             *)
(***************************************************************************)
LEMMA MapOfListing ==
    ASSUME NEW S, IsFiniteSet(S), DistinctPathsIn(S), NEW s \in Seqs!SetToSeqs(S)
    PROVE  MapOf(s) = [p \in {IpToBits(e.ip_prefix) : e \in S} |->
                          (CHOOSE e \in S : IpToBits(e.ip_prefix) = p).asn]
<1> DEFINE path(i) == IpToBits(s[i].ip_prefix)
           P == {path(i) : i \in DOMAIN s}
           last(p) == CHOOSE i \in DOMAIN s :
                          path(i) = p /\ \A j \in DOMAIN s : path(j) = p => j <= i
           entry(p) == CHOOSE e \in S : IpToBits(e.ip_prefix) = p
<1>1. /\ Cardinality(S) \in Nat
      /\ DOMAIN s = 1 .. Cardinality(S)
      /\ \A i \in DOMAIN s : s[i] \in S
      /\ \A i, j \in DOMAIN s : s[i] = s[j] => i = j
      /\ \A e \in S : \E i \in DOMAIN s : s[i] = e
  BY ListingProperties
<1>2. MapOf(s) = [p \in P |-> s[last(p)].asn]
  BY DEF MapOf
<1>3. P = {IpToBits(e.ip_prefix) : e \in S}
  BY <1>1
<1>4. ASSUME NEW p \in P PROVE s[last(p)] = entry(p)
  <2>1. PICK i \in DOMAIN s : path(i) = p
    OBVIOUS
  <2>2. ASSUME NEW j \in DOMAIN s, path(j) = p PROVE j <= i
    <3>1. s[j] = s[i]
      BY <1>1, <2>1, <2>2 DEF DistinctPathsIn
    <3>2. j = i /\ i \in Nat
      BY <1>1, <3>1
    <3> QED BY <3>2
  <2>3. last(p) \in DOMAIN s /\ path(last(p)) = p
    BY <2>1, <2>2
  <2>4. s[last(p)] \in S /\ IpToBits(s[last(p)].ip_prefix) = p
    BY <1>1, <2>3
  <2>5. entry(p) \in S /\ IpToBits(entry(p).ip_prefix) = p
    BY <2>4
  <2> QED BY <2>4, <2>5 DEF DistinctPathsIn
<1> HIDE DEF path, P, last, entry
<1>5. MapOf(s) = [p \in P |-> entry(p).asn]
  BY <1>2, <1>4
<1> QED BY <1>3, <1>5 DEF entry

(***************************************************************************)
(* The artifact of a good round: the report is one, and the map does not   *)
(* depend on the order it was built in.                                    *)
(***************************************************************************)
LEMMA FinalizedArtifact ==
    ASSUME NEW eng, NEW bs, GoodRound(eng, bs), NEW a, Finalized(a, eng)
    PROVE  /\ a.epoch = eng.epoch
           /\ a.participants = eng.seen_senders
           /\ ReportOf(a) \in ConsensusReport
           /\ ReportOf(a).epoch = a.epoch
           /\ ReportOf(a).participants = a.participants
           /\ ReportOf(a).entries = a.entries
           /\ a.map = MapOf(a.entries)
           /\ \A i \in DOMAIN a.entries :
                 a.entries[i] \in FinalEntries(eng.votes, Threshold)
<1> DEFINE S == FinalEntries(eng.votes, Threshold)
<1>1. PICK order, listing \in Seqs!SetToSeqs(S) : a = Artifact(eng, order, listing)
  BY DEF Finalized
<1>2. /\ DOMAIN a = {"epoch", "participants", "accepted_claims", "rejected_claims",
                     "entries", "map"}
      /\ a.epoch = eng.epoch /\ a.participants = eng.seen_senders
      /\ a.accepted_claims = eng.accepted_claims
      /\ a.rejected_claims = eng.rejected_claims
      /\ a.entries = listing /\ a.map = MapOf(order)
  BY <1>1 DEF Artifact
<1>3. IsFiniteSet(S) /\ DistinctPathsIn(S)
  BY FinalEntriesFinite, GoodRoundHasDistinctPaths DEF GoodRound, DistinctPathsIn
<1>4. MapOf(order) = MapOf(listing)
  <2> HIDE DEF S
  <2> QED BY <1>3, MapOfListing
<1>5. \A e \in S : e \in [ip_prefix : Prefix, asn : Asn, votes : Nat]
  <2> SUFFICES ASSUME NEW e \in S
               PROVE  e \in [ip_prefix : Prefix, asn : Asn, votes : Nat]
    OBVIOUS
  <2>1. /\ <<e.ip_prefix, e.asn>> \in VoteKey
        /\ e = [ip_prefix |-> e.ip_prefix, asn |-> e.asn, votes |-> e.votes]
        /\ e.votes \in Nat
    BY WinnerIsBacked
  <2>2. e.ip_prefix \in Prefix /\ e.asn \in Asn
    BY <2>1 DEF VoteKey
  <2> QED BY <2>1, <2>2
<1> HIDE DEF S
<1>6. /\ Cardinality(S) \in Nat /\ listing \in [1 .. Cardinality(S) -> S]
  BY <1>3, ListingProperties
<1>7. listing \in Seq([ip_prefix : Prefix, asn : Asn, votes : Nat])
  <2> DEFINE Entry == [ip_prefix : Prefix, asn : Asn, votes : Nat]
  <2>1. \A e \in S : e \in Entry
    BY <1>5
  <2> HIDE DEF Entry
  <2>2. listing \in [1 .. Cardinality(S) -> Entry]
    BY <1>6, <2>1
  <2>3. listing \in Seq(Entry)
    BY <1>6, <2>2
  <2> QED BY <2>3 DEF Entry
<1> DEFINE r == ReportOf(a)
<1>8. r = [epoch |-> eng.epoch, participants |-> eng.seen_senders,
           accepted_claims |-> eng.accepted_claims,
           rejected_claims |-> eng.rejected_claims, entries |-> listing]
  BY <1>2 DEF ReportOf
<1>9. /\ eng.epoch \in Epoch /\ eng.seen_senders \in SUBSET PeerId
      /\ eng.accepted_claims \in Nat /\ eng.rejected_claims \in [Reason -> Nat]
  BY DEF GoodRound, EngineType
<1> HIDE DEF r
<1>10. r \in ConsensusReport
  BY <1>7, <1>8, <1>9 DEF ConsensusReport
<1>11. \A i \in DOMAIN listing : listing[i] \in S
  BY <1>6
<1> QED BY <1>2, <1>4, <1>8, <1>10, <1>11 DEF r, S

---------------------------------------------------------------------------
(* The invariant along a behaviour.                                        *)

(***************************************************************************)
(* What is assumed of the file, at the index that is being read.           *)
(***************************************************************************)
LEMMA FileType ==
    ASSUME NEW file \in ClaimsFile
    PROVE  /\ Len(file) \in Nat /\ DOMAIN file = 1 .. Len(file)
           /\ file # << >> => 1 \in DOMAIN file
           /\ IsFiniteSet(DOMAIN file)
           /\ \A i \in DOMAIN file :
                 /\ file[i].epoch \in Epoch
                 /\ IsEntryList(file[i].entries)
                 /\ ClaimHash(file[i].epoch, file[i].sender_id, file[i].entries)
                       # MalformedHash
<1>1. file \in Seq({file[i] : i \in DOMAIN file})
  BY ClaimsFileAssumption
<1>2. Len(file) \in Nat /\ DOMAIN file = 1 .. Len(file)
  BY <1>1
<1>3. file # << >> => 1 \in DOMAIN file
  BY <1>1
<1>4. IsFiniteSet(DOMAIN file)
  BY <1>2, FS_Interval
<1> QED BY <1>2, <1>3, <1>4, ClaimsFileAssumption

(***************************************************************************)
(* Before the run has started, its engine is an empty round.               *)
(***************************************************************************)
LEMMA InitInvariant == Init => IInv
<1> SUFFICES ASSUME Init PROVE IInv
  OBVIOUS
<1>1. Len(claims) \in Nat
  BY FileType DEF Init
<1>2. Progress /\ Complete /\ Saved /\ Kept
  BY <1>1 DEF Init, Progress, Phase, Complete, Saved, Done, Kept
<1>3. 0 \in Epoch /\ EPOCH_ABSOLUTE_MAX \in Epoch /\ 0 <= EPOCH_ABSOLUTE_MAX
      /\ EPOCH_ABSOLUTE_MAX <= EPOCH_ABSOLUTE_MAX
      /\ Lesser(0, EPOCH_ABSOLUTE_MAX) <= EPOCH_ABSOLUTE_MAX
  BY LimitAssumption DEF Epoch, Lesser
<1>4. GoodRound(Idle, NoBallots) /\ Idle.epoch = 0
  BY <1>3, EmptyRoundIsGood, EmptyRoundFields DEF Idle
<1>5. RoundOfFile
  BY <1>3, <1>4 DEF Init, RoundOfFile, FromFile, NoBallots
<1> QED BY <1>2, <1>5 DEF IInv

(***************************************************************************)
(* A run that may start is started at a real epoch.                        *)
(***************************************************************************)
LEMMA StartingEpochType ==
    ASSUME Progress, Replayable
    PROVE  StartingEpoch \in Epoch /\ StartingEpoch <= EPOCH_ABSOLUTE_MAX
<1>1. claims # << >> /\ StartingEpoch <= EPOCH_ABSOLUTE_MAX
  BY DEF Replayable
<1>2. CASE option # NoEpoch
  <2>1. StartingEpoch \in Nat
    BY <1>2, OptionAssumption DEF Progress, StartingEpoch
  <2> QED BY <1>1, <2>1, LimitAssumption DEF Epoch
<1>3. CASE option = NoEpoch
  BY <1>1, <1>3, FileType DEF Progress, StartingEpoch
<1> QED BY <1>2, <1>3

(***************************************************************************)
(* with_limits makes an engine at the starting epoch, under the absolute   *)
(* maximum, and no claim has been lost yet.                                *)
(***************************************************************************)
LEMMA StartReplayStep ==
    ASSUME IInv, StartReplay
    PROVE  IInv'
<1> DEFINE start == StartingEpoch
<1>1. /\ phase = "start" /\ Replayable
      /\ engine' = WithLimits(start, EPOCH_ABSOLUTE_MAX)
      /\ phase' = "claims"
      /\ claims' = claims /\ option' = option /\ earlier' = earlier /\ next' = next
      /\ artifact' = artifact /\ status' = status
      /\ map_file' = map_file /\ report_file' = report_file
  BY DEF StartReplay
<1>2. start \in Epoch /\ start <= EPOCH_ABSOLUTE_MAX
  BY <1>1, StartingEpochType DEF IInv
<1>3. EPOCH_ABSOLUTE_MAX \in Epoch /\ EPOCH_ABSOLUTE_MAX <= EPOCH_ABSOLUTE_MAX
  BY LimitAssumption DEF Epoch
<1>4. GoodRound(engine', NoBallots) /\ engine'.epoch = start
  BY <1>1, <1>2, <1>3, NewIsGood
<1>5. engine'.max_epoch = EPOCH_ABSOLUTE_MAX
  <2>1. engine' = EmptyRound(start, RaisedCeiling(EPOCH_ABSOLUTE_MAX, start))
    BY <1>1 DEF WithLimits
  <2>2. engine'.max_epoch = RaisedCeiling(EPOCH_ABSOLUTE_MAX, start)
    BY <2>1, EmptyRoundFields
  <2>3. /\ RaisedCeiling(EPOCH_ABSOLUTE_MAX, start) \in Epoch
        /\ RaisedCeiling(EPOCH_ABSOLUTE_MAX, start) >= EPOCH_ABSOLUTE_MAX
        /\ RaisedCeiling(EPOCH_ABSOLUTE_MAX, start) <= EPOCH_ABSOLUTE_MAX
    BY <1>2, <1>3, LimitAssumption, RaisedCeilingBounds
  <2> QED BY <2>2, <2>3, LimitAssumption DEF Epoch
<1>6. StartingEpoch' = start
  BY <1>1 DEF StartingEpoch
<1> HIDE DEF start
<1>7. next = 1
  BY <1>1 DEF IInv, Progress
<1>8. Progress'
  BY <1>1 DEF IInv, Progress, Phase
<1>9. RoundOfFile'
  BY <1>2, <1>4 DEF RoundOfFile, FromFile, NoBallots
<1>10. Complete'
  <2> DEFINE reached == EpochReached(claims, start)
  <2>1. start \in Nat
    BY <1>2, LimitAssumption DEF Epoch
  <2>2. reached[0] = start
    BY <2>1, FileType, ReachedUnfolds DEF IInv, Progress, Epoch
  <2>3. VotersInReach(claims, reached, 0, engine'.epoch) = {}
    BY DEF VotersInReach
  <2>4. engine'.seen_senders = {}
    BY <1>4 DEF GoodRound, NoBallots
  <2> HIDE DEF reached
  <2>5. NoneLost(claims, 0, engine', reached)
    BY <1>4, <2>1, <2>2, <2>3, <2>4 DEF NoneLost
  <2>6. next' - 1 = 0
    BY <1>1, <1>7
  <2>7. NoneLost(claims', next' - 1, engine', EpochReached(claims', StartingEpoch'))
    BY <1>1, <1>6, <2>5, <2>6 DEF reached
  <2> QED BY <1>5, <1>6, <2>1, <2>7 DEF Complete
<1>11. Saved' /\ Kept'
  BY <1>1 DEF IInv, Progress, Saved, Done, Kept
<1> QED BY <1>8, <1>9, <1>10, <1>11 DEF IInv

(***************************************************************************)
(* The claims are processed one by one, in file order.                     *)
(***************************************************************************)
LEMMA ReplayClaimStep ==
    ASSUME IInv, ReplayClaim
    PROVE  IInv'
<1>1. /\ phase = "claims" /\ next <= Len(claims)
      /\ engine' = ProcessClaim(engine, claims[next])
      /\ next' = next + 1
      /\ claims' = claims /\ option' = option /\ earlier' = earlier
      /\ phase' = phase /\ artifact' = artifact
      /\ status' = status /\ map_file' = map_file /\ report_file' = report_file
  BY DEF ReplayClaim
<1>2. /\ Len(claims) \in Nat /\ DOMAIN claims = 1 .. Len(claims)
      /\ IsFiniteSet(DOMAIN claims)
      /\ \A i \in DOMAIN claims :
            /\ claims[i].epoch \in Epoch
            /\ IsEntryList(claims[i].entries)
            /\ ClaimHash(claims[i].epoch, claims[i].sender_id, claims[i].entries)
                  # MalformedHash
  BY FileType DEF IInv, Progress
<1>3. /\ next \in Nat \ {0} /\ next \in DOMAIN claims
      /\ 1 .. next - 1 \subseteq DOMAIN claims
      /\ next' - 1 = next /\ next' \in 1 .. Len(claims) + 1
  BY <1>1, <1>2 DEF IInv, Progress
<1>4. PICK bs : GoodRound(engine, bs) /\ FromFile(bs, claims, next - 1, engine.epoch)
  BY DEF IInv, RoundOfFile
<1>5. engine.epoch <= EPOCH_ABSOLUTE_MAX
  BY DEF IInv, RoundOfFile
<1> DEFINE reached == EpochReached(claims, StartingEpoch)
<1>6. /\ engine.max_epoch = EPOCH_ABSOLUTE_MAX
      /\ StartingEpoch \in Nat
      /\ NoneLost(claims, next - 1, engine, reached)
  BY <1>1 DEF IInv, Complete
<1>7. /\ engine'.epoch <= EPOCH_ABSOLUTE_MAX
      /\ \E nbs : GoodRound(engine', nbs) /\ FromFile(nbs, claims, next, engine'.epoch)
  BY <1>1, <1>2, <1>3, <1>4, <1>5, FromFileStep
<1>8. /\ NoneLost(claims, next, engine', reached)
      /\ engine'.max_epoch = EPOCH_ABSOLUTE_MAX
  <2>1. /\ \A i \in 1 .. Len(claims) : claims[i].epoch \in Nat
        /\ \A i \in 1 .. next : i \in 1 .. Len(claims)
    BY <1>2, <1>3 DEF Epoch
  <2>2. \A i \in 1 .. next : /\ claims[i].epoch \in Epoch
                             /\ reached[i] = EpochAfter(claims[i], reached[i - 1])
    BY <1>2, <1>6, <2>1, ReachedUnfolds
  <2> HIDE DEF reached
  <2> QED BY <1>1, <1>2, <1>3, <1>4, <1>6, <2>2, NoneLostStep
<1>9. StartingEpoch' = StartingEpoch
  BY <1>1 DEF StartingEpoch
<1>10. Progress'
  BY <1>1, <1>3 DEF IInv, Progress
<1>11. RoundOfFile'
  BY <1>1, <1>3, <1>7 DEF RoundOfFile
<1>12. Complete'
  BY <1>1, <1>3, <1>6, <1>8, <1>9 DEF Complete
<1>13. Saved' /\ Kept'
  BY <1>1 DEF IInv, Progress, Saved, Done, Kept
<1> QED BY <1>10, <1>11, <1>12, <1>13 DEF IInv

(***************************************************************************)
(* The other steps leave the engine alone.                                 *)
(***************************************************************************)
LEMMA EngineIsKept ==
    ASSUME IInv, UNCHANGED <<claims, option, next, engine>>,
           phase' \in {"claims", "save_map"} => phase \in {"claims", "save_map"}
    PROVE  RoundOfFile' /\ Complete'
<1>1. RoundOfFile'
  BY DEF IInv, RoundOfFile
<1>2. Complete'
  BY DEF IInv, Complete, StartingEpoch
<1> QED BY <1>1, <1>2

(***************************************************************************)
(* finalize, the two writes and the exit, each with its way to fail.       *)
(***************************************************************************)
LEMMA FileStep ==
    ASSUME IInv,
           RefuseToReplay \/ FinalizeReplay \/ SaveMap \/ SaveReport \/ CheckNotEmpty
    PROVE  IInv'
<1>1. CASE RefuseToReplay
  <2>1. Progress' /\ Saved' /\ Kept'
    BY <1>1 DEF IInv, Progress, Phase, Saved, Done, Kept, RefuseToReplay, Exit
  <2>2. RoundOfFile' /\ Complete'
    BY <1>1, EngineIsKept DEF RefuseToReplay, Exit
  <2> QED BY <2>1, <2>2 DEF IInv
<1>2. CASE FinalizeReplay
  <2>1. next = Len(claims) + 1
    BY <1>2, FileType DEF IInv, Progress, FinalizeReplay
  <2>2. Progress'
    BY <1>2, <2>1 DEF IInv, Progress, Phase, FinalizeReplay
  <2>3. RoundOfFile' /\ Complete'
    BY <1>2, EngineIsKept DEF FinalizeReplay
  <2>4. Finalized(artifact', engine')
    BY <1>2 DEF FinalizeReplay, Finalized
  <2>5. Saved' /\ Kept'
    BY <1>2, <2>4 DEF IInv, Progress, Saved, Done, Kept, FinalizeReplay
  <2> QED BY <2>2, <2>3, <2>5 DEF IInv
<1>3. CASE SaveMap
  <2>1. Progress'
    BY <1>3 DEF IInv, Progress, Phase, SaveMap, Exit
  <2>2. RoundOfFile' /\ Complete'
    BY <1>3, EngineIsKept DEF SaveMap, Exit
  <2>3. Saved'
    BY <1>3 DEF IInv, Progress, Saved, Done, Finalized, SaveMap, Exit
  <2>4. Kept'
    BY <1>3 DEF IInv, Progress, Kept, SaveMap, Exit
  <2> QED BY <2>1, <2>2, <2>3, <2>4 DEF IInv
<1>4. CASE SaveReport
  <2>1. Progress'
    BY <1>4 DEF IInv, Progress, Phase, SaveReport, Exit
  <2>2. RoundOfFile' /\ Complete'
    BY <1>4, EngineIsKept DEF SaveReport, Exit
  <2>3. Saved'
    BY <1>4 DEF IInv, Progress, Saved, Done, Finalized, SaveReport, Exit
  <2>4. Kept'
    BY <1>4 DEF IInv, Progress, Kept, SaveReport, Exit
  <2> QED BY <2>1, <2>2, <2>3, <2>4 DEF IInv
<1>5. CASE CheckNotEmpty
  <2>1. Progress'
    BY <1>5 DEF IInv, Progress, Phase, CheckNotEmpty, Exit
  <2>2. RoundOfFile' /\ Complete'
    BY <1>5, EngineIsKept DEF CheckNotEmpty, Exit
  <2>3. Saved'
    BY <1>5 DEF IInv, Progress, Saved, Done, Finalized, CheckNotEmpty, Exit
  <2>4. report_file.entries = artifact.entries
    <3>1. PICK bs : GoodRound(engine, bs)
      BY DEF IInv, RoundOfFile
    <3>2. Finalized(artifact, engine) /\ report_file = ReportOf(artifact)
      BY <1>5 DEF IInv, Saved, Done, CheckNotEmpty
    <3> QED BY <3>1, <3>2, FinalizedArtifact
  <2>5. Kept'
    BY <1>5, <2>4 DEF Kept, CheckNotEmpty, Exit
  <2> QED BY <2>1, <2>2, <2>3, <2>5 DEF IInv
<1> QED BY <1>1, <1>2, <1>3, <1>4, <1>5

(***************************************************************************)
(* At every point of a replay the engine is a good round whose ballots     *)
(* come from good claims already read, no claim in reach of the skew has   *)
(* been lost, and the files hold what the artifact says or what an earlier *)
(* run left (run_replay).                                                  *)
(***************************************************************************)
THEOREM Invariant == Spec => []IInv
<1>1. Init => IInv
  BY InitInvariant
<1>2. IInv /\ [Next]_vars => IInv'
  <2> SUFFICES ASSUME IInv, [Next]_vars PROVE IInv'
    OBVIOUS
  <2>1. CASE UNCHANGED vars
    BY <2>1 DEF vars, IInv, Progress, RoundOfFile, Complete, StartingEpoch, Saved, Done,
                Finalized, Kept
  <2> QED BY <2>1, StartReplayStep, ReplayClaimStep, FileStep DEF Next
<1> QED BY <1>1, <1>2, PTL DEF Spec

---------------------------------------------------------------------------
(* Safety.                                                                 *)

(***************************************************************************)
(* A replay reads its file once from front to back, ends with a status,    *)
(* and keeps the engine's fields in their types throughout.                *)
(***************************************************************************)
THEOREM TypeCorrect == Spec => []TypeOK
<1>1. IInv => TypeOK
  BY DEF IInv, Progress, RoundOfFile, GoodRound, EngineType, TypeOK
<1> QED BY <1>1, Invariant, PTL

(***************************************************************************)
(* run_replay refuses a starting epoch above the absolute maximum, and     *)
(* Gate 1 refuses every claim that would take the engine there.            *)
(***************************************************************************)
THEOREM EpochIsReal == Spec => []EpochStaysReal
<1>1. IInv => EpochStaysReal
  BY DEF IInv, RoundOfFile, EpochStaysReal
<1> QED BY <1>1, Invariant, PTL

(***************************************************************************)
(* verify accepts the pair of files of every run that wrote both: the      *)
(* winners of a good round have distinct paths, so the map that finalize   *)
(* built in HashMap order is the one verify_report rebuilds.               *)
(***************************************************************************)
THEOREM VerifyAccepts == Spec => []VerifyAcceptsOutput
<1>1. IInv => VerifyAcceptsOutput
  <2> SUFFICES ASSUME IInv, phase = "check" \/ status = "success"
               PROVE  Verifies(report_file, map_file)
    BY DEF VerifyAcceptsOutput
  <2>1. PICK bs : GoodRound(engine, bs)
    BY DEF IInv, RoundOfFile
  <2>2. /\ Finalized(artifact, engine)
        /\ map_file = artifact.map /\ report_file = ReportOf(artifact)
    BY DEF IInv, Saved, Done
  <2>3. /\ report_file \in ConsensusReport
        /\ report_file.entries = artifact.entries
        /\ artifact.map = MapOf(artifact.entries)
    BY <2>1, <2>2, FinalizedArtifact
  <2> QED BY <2>2, <2>3, FileAssumption DEF Verifies
<1> QED BY <1>1, Invariant, PTL

(***************************************************************************)
(* Every entry a successful replay publishes is backed by threshold or     *)
(* more different senders with a good claim for it, in the file, for the   *)
(* epoch of the report.                                                    *)
(***************************************************************************)
THEOREM EntriesAreBacked == Spec => []PublishedEntriesAreBacked
<1>1. IInv => PublishedEntriesAreBacked
  <2> SUFFICES ASSUME IInv, status = "success"
               PROVE  /\ report_file.entries # << >>
                      /\ \A i \in DOMAIN report_file.entries :
                            LET e == report_file.entries[i]
                                backers == GoodBackers(<<e.ip_prefix, e.asn>>, report_file.epoch)
                            IN  /\ Threshold <= e.votes
                                /\ e.votes <= Cardinality(backers)
                                /\ e.votes <= Cardinality(report_file.participants)
    BY DEF PublishedEntriesAreBacked
  <2>1. PICK bs : GoodRound(engine, bs) /\ FromFile(bs, claims, next - 1, engine.epoch)
    BY DEF IInv, RoundOfFile
  <2>2. /\ Finalized(artifact, engine) /\ report_file = ReportOf(artifact)
        /\ artifact.entries # << >>
    BY DEF IInv, Saved, Done
  <2>3. /\ report_file.entries = artifact.entries
        /\ report_file.epoch = engine.epoch
        /\ report_file.participants = engine.seen_senders
        /\ \A i \in DOMAIN artifact.entries :
              artifact.entries[i] \in FinalEntries(engine.votes, Threshold)
    BY <2>1, <2>2, FinalizedArtifact
  <2>4. /\ IsFiniteSet(DOMAIN claims) /\ 1 .. next - 1 \subseteq DOMAIN claims
    BY FileType DEF IInv, Progress
  <2>5. ASSUME NEW e \in FinalEntries(engine.votes, Threshold)
        PROVE  /\ Threshold <= e.votes
               /\ e.votes <= Cardinality(GoodBackers(<<e.ip_prefix, e.asn>>, engine.epoch))
               /\ e.votes <= Cardinality(engine.seen_senders)
    <3> DEFINE key == <<e.ip_prefix, e.asn>>
               S == {n \in DOMAIN claims : /\ IsGood(claims[n])
                                           /\ claims[n].epoch = engine.epoch
                                           /\ key \in VoteKeys(claims[n].entries)}
               f == [n \in S |-> claims[n].sender_id]
    <3>1. /\ e.votes >= Threshold /\ e.votes \in Nat /\ Threshold \in Nat
          /\ e.votes = Cardinality(Backers(bs, key))
      BY <2>1, WinnerIsBacked, LimitAssumption
    <3>2. IsFiniteSet(DOMAIN f)
      BY <2>4, FS_Subset
    <3>3. GoodBackers(key, engine.epoch) = {f[n] : n \in DOMAIN f}
      BY DEF GoodBackers
    <3>4. Backers(bs, key) \subseteq GoodBackers(key, engine.epoch)
      BY <2>1, <2>4 DEF Backers, GoodBackers, FromFile
    <3>5. engine.seen_senders = DOMAIN bs /\ IsFiniteSet(engine.seen_senders)
      BY <2>1 DEF GoodRound, EngineType
    <3>6. Backers(bs, key) \subseteq engine.seen_senders
      BY <3>5 DEF Backers
    <3> HIDE DEF key, f, S
    <3>7. IsFiniteSet(GoodBackers(key, engine.epoch))
      BY <3>2, <3>3, FiniteImage
    <3>8. /\ Cardinality(Backers(bs, key)) <= Cardinality(GoodBackers(key, engine.epoch))
          /\ Cardinality(Backers(bs, key)) <= Cardinality(engine.seen_senders)
      BY <3>4, <3>5, <3>6, <3>7, FS_Subset
    <3> QED BY <3>1, <3>8 DEF key
  <2> QED BY <2>2, <2>3, <2>5
<1> QED BY <1>1, Invariant, PTL

(***************************************************************************)
(* What verify accepts after a run that failed is the pair that was there  *)
(* before, or a report without entries: a report is written only beside    *)
(* its own map, and the map of this run is no match for an earlier report  *)
(* that had a map of its own (save_binary before save_json_report).        *)
(***************************************************************************)
THEOREM FailureIsVisible == Spec => []FailedReplayIsVisible
<1>1. IInv => FailedReplayIsVisible
  <2> SUFFICES ASSUME IInv, status = "failure", Verifies(report_file, map_file),
                      report_file.entries # << >>
               PROVE  /\ report_file = earlier.report
                      /\ Verifies(earlier.report, earlier.map) => map_file = earlier.map
    BY DEF FailedReplayIsVisible
  <2>1. report_file = earlier.report
    BY DEF IInv, Kept, Verifies
  <2>2. Verifies(earlier.report, earlier.map) => map_file = earlier.map
    BY <2>1 DEF Verifies
  <2> QED BY <2>1, <2>2
<1> QED BY <1>1, Invariant, PTL

(***************************************************************************)
(* The participants of a replay are all the senders with a good claim for  *)
(* its final epoch that did not stand too early in the file, in whatever   *)
(* order the file has the claims, as long as they fit under the cap; and   *)
(* the final epoch is the one the file leads to.                           *)
(***************************************************************************)
THEOREM RoundComplete == Spec => []RoundIsComplete
<1>1. IInv => RoundIsComplete
  <2> DEFINE reached == EpochReached(claims, StartingEpoch)
             voters == VotersInReach(claims, reached, Len(claims), artifact.epoch)
  <2> SUFFICES ASSUME IInv, phase = "save_map"
               PROVE  /\ artifact.epoch = reached[Len(claims)]
                      /\ Cardinality(voters) <= MaxSenders => artifact.participants = voters
    BY DEF RoundIsComplete
  <2>1. PICK bs : GoodRound(engine, bs)
    BY DEF IInv, RoundOfFile
  <2>2. Finalized(artifact, engine)
    BY DEF IInv, Saved, Done
  <2>3. artifact.epoch = engine.epoch /\ artifact.participants = engine.seen_senders
    BY <2>1, <2>2, FinalizedArtifact
  <2>4. next - 1 = Len(claims)
    BY FileType DEF IInv, Progress
  <2>5. NoneLost(claims, Len(claims), engine, reached)
    BY <2>4 DEF IInv, Complete
  <2> HIDE DEF reached
  <2> QED BY <2>3, <2>5 DEF NoneLost
<1> QED BY <1>1, Invariant, PTL

=============================================================================
