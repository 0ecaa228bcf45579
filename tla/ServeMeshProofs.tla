--------------------------- MODULE ServeMeshProofs -------------------------
(***************************************************************************)
(* Theorems about ServeMesh: any finite number of nodes, linked in any     *)
(* way, with any maps, thresholds and limits, and any number of restarts.  *)
(***************************************************************************)
EXTENDS ServeMesh, ClaimEngineProofs

---------------------------------------------------------------------------
(* The inductive invariant.                                                *)

(* s is an identity some node has had, and that node is a neighbour of n. *)
IsNeighbour(s, n, began) ==
    /\ s \in PeerId
    /\ s[2] <= began[s[1]]
    /\ <<s[1], n>> \in Link

(* Every ballot was cast at n by a neighbour, in a claim published for the
   epoch. *)
CastAt(bs, n, epoch, published, began) ==
    \A s \in DOMAIN bs :
        /\ IsNeighbour(s, n, began)
        /\ \E claim \in published :
              /\ claim.sender_id = s
              /\ claim.epoch = epoch
              /\ bs[s] = VoteKeys(claim.entries)

(* The engine of n, up to the ledger the model drops, is a good round. *)
RoundAt(eng, n, published, began) ==
    /\ eng.epoch \in FirstEpoch .. LastEpoch
    /\ \E full, bs : /\ GoodRound(full, bs)
                     /\ SameRound(eng, full)
                     /\ CastAt(bs, n, eng.epoch, published, began)

(* A report of n and the ballots its entries count. *)
ReportAt(r, n, published, began) ==
    /\ r.epoch \in FirstEpoch .. LastEpoch
    /\ \E k \in 0 .. began[n] : r.local_peer_id = <<n, k>>
    /\ \E bs :
          /\ r.participants = DOMAIN bs
          /\ IsFiniteSet(DOMAIN bs)
          /\ \A s \in DOMAIN bs : AssertsOnce(bs[s])
          /\ CastAt(bs, n, r.epoch, published, began)
          /\ \A e \in r.entries :
                /\ e.votes \in Nat /\ Threshold <= e.votes
                /\ e.votes = Cardinality(Backers(bs, <<e.ip_prefix, e.asn>>))

Types ==
    /\ starts \in [Node -> 0 .. MaxStarts]
    /\ phase \in [Node -> {"loop", "save_map", "save_report", "down"}]
    /\ local_map \in [Node -> Snapshot]
    /\ consensus_written \in [Node -> BOOLEAN]
    /\ DOMAIN engine = Node /\ DOMAIN map_file = Node /\ DOMAIN report_file = Node

Published ==
    \A claim \in sent :
        /\ claim.epoch \in FirstEpoch .. LastEpoch
        /\ claim.entries \in Snapshot

Rounds == \A n \in Node : RoundAt(engine[n], n, sent, starts)

Reports ==
    \A n \in Node : IsReadable(report_file[n]) => ReportAt(report_file[n], n, sent, starts)

(* Where node n is between its two writes, and what its files then hold. *)
FilesOf(n) ==
    /\ phase[n] \in {"save_map", "save_report"} => ~consensus_written[n]
    /\ phase[n] = "save_report" => map_file[n] = MapFrom(Report(n).entries)
    /\ consensus_written[n] =>
          /\ IsReadable(report_file[n])
          /\ report_file[n].local_peer_id = local_peer_id(n)
          /\ map_file[n] = MapFrom(report_file[n].entries)
    /\ IsReadable(report_file[n]) /\ report_file[n].local_peer_id = local_peer_id(n) =>
          /\ report_file[n].epoch <= engine[n].epoch
          /\ report_file[n].epoch = engine[n].epoch => consensus_written[n]

Files == \A n \in Node : FilesOf(n)

IInv == Types /\ Published /\ Rounds /\ Reports /\ Files

---------------------------------------------------------------------------
(* The ledger the model drops.                                             *)

(***************************************************************************)
(* No method reads the ledger: two engines that are at the same round take *)
(* the same decision on a claim and are at the same round after it.        *)
(***************************************************************************)
LEMMA LedgerIsNotRead ==
    ASSUME NEW a, NEW b, DOMAIN b = EngineField, SameRound(a, b),
           NEW claim, NEW source
    PROVE  /\ Accepts(a, claim, source) <=> Accepts(b, claim, source)
           /\ SameRound(ProcessClaimFromPeer(a, claim, source),
                        ProcessClaimFromPeer(b, claim, source))
<1> DEFINE a1 == AdoptEpoch(a, claim)
           b1 == AdoptEpoch(b, claim)
           violation == ClaimViolation(b, claim, source)
           refusal == SenderViolation(b1, claim)
<1>1. DOMAIN a = EngineField /\ a.epoch = b.epoch /\ a.max_epoch = b.max_epoch
  BY DEF SameRound
<1>2. ClaimViolation(a, claim, source) = violation
  <2>1. ShapeViolation(a, claim) = ShapeViolation(b, claim)
    BY <1>1 DEF ShapeViolation
  <2> QED BY <1>1, <2>1 DEF ClaimViolation
<1>3. SameRound(a1, b1) /\ DOMAIN b1 = EngineField
  <2>1. CASE claim.epoch > b.epoch
    <3>1. a1 = EmptyRound(claim.epoch, b.max_epoch) /\ b1 = a1
      BY <1>1, <2>1 DEF AdoptEpoch, ResetForEpoch
    <3>2. DOMAIN EmptyRound(claim.epoch, b.max_epoch) = EngineField
      BY EmptyRoundFields
    <3> QED BY <3>1, <3>2 DEF SameRound
  <2>2. CASE ~(claim.epoch > b.epoch)
    BY <1>1, <2>2 DEF AdoptEpoch
  <2> QED BY <2>1, <2>2
<1> HIDE DEF a1, b1
<1>4. SenderViolation(a1, claim) = refusal /\ DOMAIN a1 = EngineField
  BY <1>3 DEF SenderViolation, SameRound
<1>5. Accepts(a, claim, source) <=> Accepts(b, claim, source)
  BY <1>2, <1>4 DEF Accepts, a1, b1
<1>6. ASSUME NEW x, NEW y, SameRound(x, y), DOMAIN y = EngineField, NEW reason
      PROVE  /\ SameRound(CountRejection(x, reason), CountRejection(y, reason))
             /\ SameRound(RecordRejection(x, claim, reason),
                          RecordRejection(y, claim, reason))
  <2>1. DOMAIN x = EngineField
    BY <1>6 DEF SameRound
  <2>2. /\ SameRound(CountRejection(x, reason), x) /\ SameRound(CountRejection(y, reason), y)
    BY <1>6, <2>1, CountRejectionFields
  <2>3. /\ SameRound(RecordRejection(x, claim, reason), x)
        /\ SameRound(RecordRejection(y, claim, reason), y)
    BY <1>6, <2>1, RecordRejectionFields
  <2> QED BY <1>6, <2>2, <2>3 DEF SameRound
<1>7. SameRound(TallyClaim(a1, claim), TallyClaim(b1, claim))
  <2> DEFINE x == TallyClaim(a1, claim)
             y == TallyClaim(b1, claim)
  <2>1. /\ DOMAIN x = EngineField
        /\ x.epoch = a1.epoch /\ x.max_epoch = a1.max_epoch
        /\ x.seen_senders = a1.seen_senders \cup {claim.sender_id}
        /\ x.votes = CountVotes(a1.votes, VoteKeys(claim.entries))
        /\ x.accepted_claims = a1.accepted_claims + 1
    BY <1>4, TallyClaimFields
  <2>2. /\ y.epoch = b1.epoch /\ y.max_epoch = b1.max_epoch
        /\ y.seen_senders = b1.seen_senders \cup {claim.sender_id}
        /\ y.votes = CountVotes(b1.votes, VoteKeys(claim.entries))
        /\ y.accepted_claims = b1.accepted_claims + 1
    BY <1>3, TallyClaimFields
  <2> HIDE DEF x, y
  <2>3. SameRound(x, y)
    BY <1>3, <2>1, <2>2 DEF SameRound
  <2> QED BY <2>3 DEF x, y
<1>8. SameRound(ProcessClaimFromPeer(a, claim, source),
                ProcessClaimFromPeer(b, claim, source))
  <2>1. CASE violation # Ok
    <3>1. /\ ProcessClaimFromPeer(a, claim, source) = Reject(a, claim, violation)
          /\ ProcessClaimFromPeer(b, claim, source) = Reject(b, claim, violation)
      BY <1>2, <2>1 DEF ProcessClaimFromPeer
    <3> QED BY <1>6, <3>1 DEF Reject
  <2>2. CASE violation = Ok /\ refusal # Ok
    <3>1. /\ ProcessClaimFromPeer(a, claim, source) = RecordRejection(a1, claim, refusal)
          /\ ProcessClaimFromPeer(b, claim, source) = RecordRejection(b1, claim, refusal)
      BY <1>2, <1>4, <2>2 DEF ProcessClaimFromPeer, AfterGate7, a1, b1
    <3> QED BY <1>3, <1>6, <3>1
  <2>3. CASE violation = Ok /\ refusal = Ok
    <3>1. /\ ProcessClaimFromPeer(a, claim, source) = TallyClaim(a1, claim)
          /\ ProcessClaimFromPeer(b, claim, source) = TallyClaim(b1, claim)
      BY <1>2, <1>4, <2>3 DEF ProcessClaimFromPeer, AfterGate7, a1, b1
    <3> QED BY <1>7, <3>1
  <2> QED BY <2>1, <2>2, <2>3
<1> QED BY <1>5, <1>8

(***************************************************************************)
(* Dropping the ledger leaves the round.                                   *)
(***************************************************************************)
LEMMA WithoutLedgerIsSameRound ==
    ASSUME NEW eng, DOMAIN eng = EngineField
    PROVE  SameRound(WithoutLedger(eng), eng)
BY DEF WithoutLedger, SameRound, EngineField

---------------------------------------------------------------------------
(* What a node knows only grows truer.                                     *)

(***************************************************************************)
(* Ballots stay backed as more claims are published and nodes restart.     *)
(***************************************************************************)
LEMMA CastAtGrows ==
    ASSUME NEW bs, NEW n, NEW epoch, NEW published, NEW more, published \subseteq more,
           NEW began \in [Node -> 0 .. MaxStarts], NEW later \in [Node -> 0 .. MaxStarts],
           \A m \in Node : began[m] <= later[m],
           CastAt(bs, n, epoch, published, began)
    PROVE  CastAt(bs, n, epoch, more, later)
<1> SUFFICES ASSUME NEW s \in DOMAIN bs PROVE IsNeighbour(s, n, later)
  BY DEF CastAt
<1>1. s \in PeerId /\ s[2] <= began[s[1]] /\ <<s[1], n>> \in Link
  BY DEF CastAt, IsNeighbour
<1>2. s[1] \in Node /\ s[2] \in 0 .. MaxStarts /\ MaxStarts \in Nat
  BY <1>1, MeshAssumption
<1>3. s[2] <= later[s[1]]
  BY <1>1, <1>2
<1> QED BY <1>1, <1>3 DEF IsNeighbour

(***************************************************************************)
(* So do the rounds and the reports that rest on them.                     *)
(***************************************************************************)
LEMMA BackingGrows ==
    ASSUME NEW published, NEW more, published \subseteq more,
           NEW began \in [Node -> 0 .. MaxStarts], NEW later \in [Node -> 0 .. MaxStarts],
           \A m \in Node : began[m] <= later[m],
           NEW n \in Node, NEW x
    PROVE  /\ RoundAt(x, n, published, began) => RoundAt(x, n, more, later)
           /\ ReportAt(x, n, published, began) => ReportAt(x, n, more, later)
<1>1. \A bs, epoch : CastAt(bs, n, epoch, published, began) => CastAt(bs, n, epoch, more, later)
  BY CastAtGrows
<1>2. 0 .. began[n] \subseteq 0 .. later[n]
  BY MeshAssumption
<1> QED BY <1>1, <1>2 DEF RoundAt, ReportAt

---------------------------------------------------------------------------
(* Whole handlers on one engine.                                           *)

(***************************************************************************)
(* A new engine at a node.                                                 *)
(***************************************************************************)
LEMMA NewRoundAt ==
    ASSUME NEW n \in Node, NEW published, NEW began
    PROVE  /\ RoundAt(NewEngine, n, published, began)
           /\ NewEngine.epoch = FirstEpoch
<1>1. /\ FirstEpoch \in Epoch /\ FirstEpoch <= LastEpoch /\ LastEpoch \in Epoch
      /\ Now \in Nat
  BY MeshAssumption
<1>2. AtUnixTime(Now) \in Epoch /\ AtUnixTime(Now) <= EPOCH_ABSOLUTE_MAX
  BY <1>1, AtUnixTimeBound
<1>3. GoodRound(NewEngine, NoBallots) /\ NewEngine.epoch = FirstEpoch
  BY <1>1, <1>2, NewIsGood DEF NewEngine
<1>4. NewEngine.epoch \in FirstEpoch .. LastEpoch
  BY <1>1, <1>3, LimitAssumption DEF Epoch
<1>5. SameRound(NewEngine, NewEngine)
  BY <1>3 DEF GoodRound, EngineType, SameRound
<1>6. \A epoch : CastAt(NoBallots, n, epoch, published, began)
  BY DEF CastAt, NoBallots
<1> QED BY <1>3, <1>4, <1>5, <1>6 DEF RoundAt

(***************************************************************************)
(* The epoch timer at a node: the next epoch, and no ballots.              *)
(***************************************************************************)
LEMMA AdvancedRoundAt ==
    ASSUME NEW n \in Node, NEW published, NEW began, NEW eng,
           RoundAt(eng, n, published, began), eng.epoch < LastEpoch
    PROVE  LET new == AdvanceEpoch(eng, SaturatingAdd(eng.epoch, 1))
           IN  /\ RoundAt(new, n, published, began)
               /\ new.epoch = eng.epoch + 1
<1> DEFINE epoch == SaturatingAdd(eng.epoch, 1)
           new == AdvanceEpoch(eng, epoch)
<1>1. PICK full, bs : GoodRound(full, bs) /\ SameRound(eng, full)
  BY DEF RoundAt
<1>2. /\ eng.epoch \in Nat /\ FirstEpoch \in Nat /\ LastEpoch \in Nat /\ U64_MAX \in Nat
      /\ LastEpoch <= U64_MAX /\ FirstEpoch <= eng.epoch
  BY MeshAssumption, LimitAssumption DEF RoundAt, Epoch
<1>3. /\ epoch = eng.epoch + 1 /\ epoch \in Epoch /\ epoch \in FirstEpoch .. LastEpoch
  BY <1>2 DEF SaturatingAdd, Lesser, Epoch
<1>4. new = AdvanceEpoch(full, epoch)
  BY <1>1 DEF AdvanceEpoch, SameRound
<1> HIDE DEF epoch
<1>5. GoodRound(AdvanceEpoch(full, epoch), NoBallots)
      /\ AdvanceEpoch(full, epoch).epoch = epoch
  BY <1>1, <1>3, AdvancedIsGood
<1> HIDE DEF new
<1>6. GoodRound(new, NoBallots) /\ new.epoch = epoch
  BY <1>4, <1>5
<1>7. SameRound(new, new)
  BY <1>6 DEF GoodRound, EngineType, SameRound
<1>8. \A e : CastAt(NoBallots, n, e, published, began)
  BY DEF CastAt, NoBallots
<1>9. RoundAt(new, n, published, began)
  BY <1>3, <1>6, <1>7, <1>8 DEF RoundAt
<1> QED BY <1>3, <1>6, <1>9 DEF new, epoch

(***************************************************************************)
(* A message at a node: if its claim is counted, then as the ballot of the *)
(* neighbour it came from, who published it.                               *)
(***************************************************************************)
LEMMA MessageRoundAt ==
    ASSUME NEW n \in Node, NEW published, NEW began, NEW eng,
           RoundAt(eng, n, published, began),
           NEW source, IsNeighbour(source, n, began),
           NEW claim \in published, claim.epoch \in FirstEpoch .. LastEpoch,
           IsEntryList(claim.entries)
    PROVE  LET new == WithoutLedger(ProcessClaimFromPeer(eng, claim, source))
           IN  /\ RoundAt(new, n, published, began)
               /\ new.epoch >= eng.epoch
<1> DEFINE after == ProcessClaimFromPeer(eng, claim, source)
           new == WithoutLedger(after)
<1>1. PICK full, bs : /\ GoodRound(full, bs) /\ SameRound(eng, full)
                      /\ CastAt(bs, n, eng.epoch, published, began)
  BY DEF RoundAt
<1> DEFINE next == ProcessClaimFromPeer(full, claim, source)
<1>2. DOMAIN full = EngineField /\ full.epoch \in Epoch
  BY <1>1 DEF GoodRound, EngineType
<1>3. SameRound(after, next)
  BY <1>1, <1>2, LedgerIsNotRead
<1>4. source \in PeerId
  BY DEF IsNeighbour
<1>5. /\ claim.epoch \in Epoch /\ eng.epoch = full.epoch
      /\ eng.epoch \in FirstEpoch .. LastEpoch
      /\ FirstEpoch \in Nat /\ LastEpoch \in Nat
  BY <1>1, MeshAssumption, LimitAssumption DEF RoundAt, SameRound, Epoch
<1> HIDE DEF after, next
<1>6. SameRound(new, next)
  <2>1. DOMAIN after = EngineField
    BY <1>3 DEF SameRound
  <2>2. SameRound(new, after)
    BY <2>1, WithoutLedgerIsSameRound
  <2> QED BY <1>3, <2>2 DEF SameRound
<1> HIDE DEF new
<1>7. ASSUME NEW nbs, GoodRound(next, nbs), CastAt(nbs, n, next.epoch, published, began),
             next.epoch \in FirstEpoch .. LastEpoch, next.epoch >= eng.epoch
      PROVE  RoundAt(new, n, published, began) /\ new.epoch >= eng.epoch
  <2>1. new.epoch = next.epoch
    BY <1>6 DEF SameRound
  <2> QED BY <1>6, <1>7, <2>1 DEF RoundAt
<1>8. CASE ~Accepts(full, claim, source)
  <2>1. GoodRound(next, bs) /\ next.epoch = full.epoch
    BY <1>1, <1>4, <1>5, <1>8, RejectedIsGood DEF next, SameRound
  <2>2. next.epoch >= eng.epoch
    BY <1>5, <2>1
  <2> QED BY <1>1, <1>5, <1>7, <2>1, <2>2 DEF new, after
<1>9. CASE Accepts(full, claim, source) /\ claim.epoch = full.epoch
  <2> DEFINE nbs == With(bs, source, VoteKeys(claim.entries))
  <2>1. /\ GoodRound(next, nbs) /\ next.epoch = full.epoch /\ claim.sender_id = source
    BY <1>1, <1>4, <1>5, <1>9, JoinedIsGood DEF next
  <2>2. CastAt(nbs, n, next.epoch, published, began)
    BY <1>1, <1>5, <1>9, <2>1 DEF CastAt, With
  <2> HIDE DEF nbs
  <2>3. next.epoch >= eng.epoch
    BY <1>5, <2>1
  <2> QED BY <1>5, <1>7, <2>1, <2>2, <2>3 DEF new, after
<1>10. CASE Accepts(full, claim, source) /\ claim.epoch > full.epoch
  <2> DEFINE nbs == With(NoBallots, source, VoteKeys(claim.entries))
  <2>1. /\ GoodRound(next, nbs) /\ next.epoch = claim.epoch /\ claim.sender_id = source
    BY <1>1, <1>4, <1>5, <1>10, OpenedIsGood DEF next
  <2>2. CastAt(nbs, n, next.epoch, published, began)
    BY <2>1 DEF CastAt, With, NoBallots
  <2> HIDE DEF nbs
  <2>3. next.epoch >= eng.epoch
    BY <1>5, <1>10, <2>1
  <2> QED BY <1>5, <1>7, <2>1, <2>2, <2>3 DEF new, after
<1> QED BY <1>2, <1>5, <1>8, <1>9, <1>10, AcceptedIsNotStale

(***************************************************************************)
(* The report a node can write is readable, and it is backed by the        *)
(* ballots of the round the node is at.                                    *)
(***************************************************************************)
LEMMA WrittenReport ==
    ASSUME NEW n \in Node, Types, RoundAt(engine[n], n, sent, starts)
    PROVE  IsReadable(Report(n)) /\ ReportAt(Report(n), n, sent, starts)
<1> DEFINE r == Report(n)
           S == FinalEntries(engine[n].votes, Threshold)
<1>1. PICK full, bs : /\ GoodRound(full, bs) /\ SameRound(engine[n], full)
                      /\ CastAt(bs, n, engine[n].epoch, sent, starts)
  BY DEF RoundAt
<1>2. /\ r.epoch = engine[n].epoch /\ r.local_peer_id = <<n, starts[n]>>
      /\ r.participants = engine[n].seen_senders /\ r.entries = S
      /\ r = [epoch |-> r.epoch, local_peer_id |-> r.local_peer_id,
              participants |-> r.participants, entries |-> r.entries]
  BY DEF Report, local_peer_id
<1>3. S = FinalEntries(full.votes, Threshold) /\ engine[n].seen_senders = DOMAIN bs
      /\ engine[n].epoch = full.epoch /\ full.epoch \in Epoch
      /\ DOMAIN bs \subseteq PeerId /\ IsFiniteSet(DOMAIN bs)
      /\ \A s \in DOMAIN bs : AssertsOnce(bs[s])
  BY <1>1 DEF SameRound, GoodRound, EngineType
<1>4. /\ starts[n] \in 0 .. MaxStarts /\ starts[n] \in 0 .. starts[n]
      /\ <<n, starts[n]>> \in PeerId
  BY MeshAssumption DEF Types
<1> HIDE DEF r, S
<1>5. \A e \in S : /\ e \in [ip_prefix : Prefix, asn : Asn, votes : Nat]
                   /\ e.votes \in Nat /\ Threshold <= e.votes
                   /\ e.votes = Cardinality(Backers(bs, <<e.ip_prefix, e.asn>>))
  <2> SUFFICES ASSUME NEW e \in S
               PROVE  /\ e \in [ip_prefix : Prefix, asn : Asn, votes : Nat]
                      /\ e.votes \in Nat /\ Threshold <= e.votes
                      /\ e.votes = Cardinality(Backers(bs, <<e.ip_prefix, e.asn>>))
    OBVIOUS
  <2>1. /\ <<e.ip_prefix, e.asn>> \in VoteKey
        /\ e = [ip_prefix |-> e.ip_prefix, asn |-> e.asn, votes |-> e.votes]
        /\ e.votes >= Threshold /\ e.votes \in Nat
        /\ e.votes = Cardinality(Backers(bs, <<e.ip_prefix, e.asn>>))
    BY <1>1, <1>3, WinnerIsBacked
  <2>2. e.ip_prefix \in Prefix /\ e.asn \in Asn
    BY <2>1 DEF VoteKey
  <2> QED BY <2>1, <2>2, LimitAssumption
<1>6. r \in ConsensusReport
  <2>1. /\ r.epoch \in Epoch /\ r.local_peer_id \in PeerId /\ r.participants \subseteq PeerId
        /\ r.entries \subseteq [ip_prefix : Prefix, asn : Asn, votes : Nat]
    BY <1>2, <1>3, <1>4, <1>5
  <2> QED BY <1>2, <2>1 DEF ConsensusReport
<1>7. IsReadable(r)
  BY <1>6, FileAssumption DEF IsReadable
<1>8. ReportAt(r, n, sent, starts)
  <2>1. \E k \in 0 .. starts[n] : r.local_peer_id = <<n, k>>
    BY <1>2, <1>4
  <2>2. r.epoch \in FirstEpoch .. LastEpoch
    BY <1>2 DEF RoundAt
  <2>3. /\ r.participants = DOMAIN bs
        /\ IsFiniteSet(DOMAIN bs)
        /\ \A s \in DOMAIN bs : AssertsOnce(bs[s])
        /\ CastAt(bs, n, r.epoch, sent, starts)
        /\ \A e \in r.entries :
              /\ e.votes \in Nat /\ Threshold <= e.votes
              /\ e.votes = Cardinality(Backers(bs, <<e.ip_prefix, e.asn>>))
    BY <1>1, <1>2, <1>3, <1>5
  <2> QED BY <2>1, <2>2, <2>3 DEF ReportAt
<1> QED BY <1>7, <1>8 DEF r

---------------------------------------------------------------------------
(* The invariant along a behaviour.                                        *)

(* One step of node n. *)
NodeStep(n) ==
    \/ PublishTimer(n)
    \/ EpochTimer(n)
    \/ RefreshTimer(n)
    \/ \E claim \in sent, via \in Node : \E k \in 0 .. starts[via] :
          Message(n, claim, via, <<via, k>>)
    \/ SaveMap(n)
    \/ SaveReport(n)
    \/ Kill(n)
    \/ Restart(n)

(***************************************************************************)
(* A node changes nothing of another node.                                 *)
(***************************************************************************)
LEMMA OthersAreLeftAlone ==
    ASSUME Types, NEW n \in Node, NodeStep(n), NEW p \in Node, p # n
    PROVE  /\ starts'[p] = starts[p] /\ phase'[p] = phase[p]
           /\ engine'[p] = engine[p] /\ consensus_written'[p] = consensus_written[p]
           /\ map_file'[p] = map_file[p] /\ report_file'[p] = report_file[p]
<1>1. CASE PublishTimer(n) \/ RefreshTimer(n)
  BY <1>1 DEF PublishTimer, RefreshTimer
<1>2. CASE EpochTimer(n)
  BY <1>2 DEF EpochTimer
<1>3. ASSUME NEW claim, NEW via, NEW source, Message(n, claim, via, source)
      PROVE  /\ starts'[p] = starts[p] /\ phase'[p] = phase[p]
             /\ engine'[p] = engine[p] /\ consensus_written'[p] = consensus_written[p]
             /\ map_file'[p] = map_file[p] /\ report_file'[p] = report_file[p]
  BY <1>3 DEF Message
<1>4. CASE SaveMap(n)
  <2>1. UNCHANGED <<starts, engine, consensus_written, report_file>>
    BY <1>4 DEF SaveMap
  <2>2. CASE /\ map_file' = [map_file EXCEPT ![n] = MapFrom(Report(n).entries)]
             /\ phase' = [phase EXCEPT ![n] = "save_report"]
    BY <2>1, <2>2 DEF Types
  <2>3. CASE /\ map_file' = map_file \/ map_file' = [map_file EXCEPT ![n] = Truncated]
             /\ phase' = [phase EXCEPT ![n] = "down"]
    BY <2>1, <2>3 DEF Types
  <2> QED BY <1>4, <2>2, <2>3, Zenon DEF SaveMap
<1>5. CASE SaveReport(n)
  <2>1. UNCHANGED <<starts, engine, map_file>>
    BY <1>5 DEF SaveReport
  <2>2. CASE /\ report_file' = [report_file EXCEPT ![n] = Report(n)]
             /\ phase' = [phase EXCEPT ![n] = "loop"]
             /\ consensus_written' = [consensus_written EXCEPT ![n] = TRUE]
    BY <2>1, <2>2 DEF Types
  <2>3. CASE /\ report_file' = report_file \/ report_file' = [report_file EXCEPT ![n] = Truncated]
             /\ phase' = [phase EXCEPT ![n] = "down"]
             /\ consensus_written' = consensus_written
    BY <2>1, <2>3 DEF Types
  <2> QED BY <1>5, <2>2, <2>3, Zenon DEF SaveReport
<1>6. CASE Kill(n)
  BY <1>6 DEF Kill
<1>7. CASE Restart(n)
  BY <1>7 DEF Restart
<1> QED BY <1>1, <1>2, <1>3, <1>4, <1>5, <1>6, <1>7 DEF NodeStep

(***************************************************************************)
(* What a node that reads its map again may hold is a snapshot.            *)
(***************************************************************************)
LEMMA ReadingsAreSnapshots ==
    ASSUME Types, NEW n \in Node
    PROVE  \A s \in Readings(n) : [local_map EXCEPT ![n] = s] \in [Node -> Snapshot]
BY DEF Types, Readings

(***************************************************************************)
(* Types, and what is said of every claim that was published.              *)
(***************************************************************************)
LEMMA TypesStep ==
    ASSUME IInv, NEW n \in Node, NodeStep(n)
    PROVE  /\ Types' /\ Published'
           /\ sent \subseteq sent'
           /\ \A m \in Node : starts[m] <= starts'[m]
<1> USE DEF IInv
<1>1. \A m \in Node : starts[m] \in Nat /\ starts[m] <= starts[m]
  BY MeshAssumption DEF Types
<1>2. CASE PublishTimer(n)
  <2>1. /\ LocalClaim(n).epoch \in FirstEpoch .. LastEpoch
        /\ LocalClaim(n).entries \in Snapshot
    BY DEF LocalClaim, Types, Rounds, RoundAt
  <2>2. Types' /\ sent' = sent \cup {LocalClaim(n)} /\ starts' = starts
    BY <1>2 DEF PublishTimer, Types
  <2> QED BY <1>1, <2>1, <2>2 DEF Published
<1>3. CASE EpochTimer(n)
  BY <1>1, <1>3, ReadingsAreSnapshots DEF EpochTimer, Types, Published
<1>4. CASE RefreshTimer(n)
  BY <1>1, <1>4, ReadingsAreSnapshots DEF RefreshTimer, Types, Published
<1>5. ASSUME NEW claim, NEW via, NEW source, Message(n, claim, via, source)
      PROVE  /\ Types' /\ sent' = sent /\ starts' = starts
  BY <1>5 DEF Message, Types
<1>6. CASE SaveMap(n)
  BY <1>1, <1>6 DEF SaveMap, Types, Published
<1>7. CASE SaveReport(n)
  BY <1>1, <1>7 DEF SaveReport, Types, Published
<1>8. CASE Kill(n)
  BY <1>1, <1>8 DEF Kill, Types, Published
<1>9. CASE Restart(n)
  <2>1. starts' \in [Node -> 0 .. MaxStarts] /\ \A m \in Node : starts[m] <= starts'[m]
    BY <1>1, <1>9, MeshAssumption DEF Restart, Types
  <2>2. /\ phase' \in [Node -> {"loop", "save_map", "save_report", "down"}]
        /\ local_map' \in [Node -> Snapshot]
        /\ consensus_written' \in [Node -> BOOLEAN]
        /\ DOMAIN engine' = Node /\ DOMAIN map_file' = Node /\ DOMAIN report_file' = Node
        /\ sent' = sent
    BY <1>9, ReadingsAreSnapshots DEF Restart, Types
  <2> QED BY <2>1, <2>2 DEF Types, Published
<1> QED
  BY <1>1, <1>2, <1>3, <1>4, <1>5, <1>6, <1>7, <1>8, <1>9 DEF NodeStep, Published

(***************************************************************************)
(* Every engine stays at a good round that its neighbours' published       *)
(* claims account for.                                                     *)
(***************************************************************************)
LEMMA RoundsStep ==
    ASSUME IInv, NEW n \in Node, NodeStep(n)
    PROVE  Rounds'
<1> USE DEF IInv
<1>1. /\ starts \in [Node -> 0 .. MaxStarts] /\ starts' \in [Node -> 0 .. MaxStarts]
      /\ sent \subseteq sent' /\ \A m \in Node : starts[m] <= starts'[m]
  BY TypesStep DEF Types
<1>2. \A eng : \A p \in Node : RoundAt(eng, p, sent, starts) => RoundAt(eng, p, sent', starts')
  BY <1>1, BackingGrows
<1>3. RoundAt(engine[n], n, sent, starts) /\ n \in DOMAIN engine
  BY DEF Rounds, Types
<1>4. RoundAt(engine'[n], n, sent', starts')
  <2>1. CASE engine' = engine
    BY <1>2, <1>3, <2>1
  <2>2. CASE EpochTimer(n)
    <3>1. engine'[n] = AdvanceEpoch(engine[n], SaturatingAdd(engine[n].epoch, 1))
          /\ engine[n].epoch < LastEpoch
      BY <1>3, <2>2 DEF EpochTimer
    <3>2. RoundAt(AdvanceEpoch(engine[n], SaturatingAdd(engine[n].epoch, 1)), n, sent, starts)
      BY <1>3, <3>1, AdvancedRoundAt
    <3> QED BY <1>2, <3>1, <3>2
  <2>3. ASSUME NEW claim \in sent, NEW via \in Node, NEW k \in 0 .. starts[via],
               Message(n, claim, via, <<via, k>>)
        PROVE  RoundAt(engine'[n], n, sent', starts')
    <3>1. engine'[n] = WithoutLedger(ProcessClaimFromPeer(engine[n], claim, <<via, k>>))
          /\ <<via, n>> \in Link
      BY <1>3, <2>3 DEF Message
    <3>2. claim.epoch \in FirstEpoch .. LastEpoch /\ IsEntryList(claim.entries)
      BY MeshAssumption DEF Published
    <3>3. IsNeighbour(<<via, k>>, n, starts)
      BY <1>1, <3>1, MeshAssumption DEF IsNeighbour
    <3>4. RoundAt(WithoutLedger(ProcessClaimFromPeer(engine[n], claim, <<via, k>>)),
                  n, sent, starts)
      BY <1>3, <3>2, <3>3, MessageRoundAt
    <3> QED BY <1>2, <3>1, <3>4
  <2>4. CASE Restart(n)
    BY <1>3, <2>4, NewRoundAt DEF Restart
  <2>5. PublishTimer(n) \/ RefreshTimer(n) \/ SaveMap(n) \/ SaveReport(n) \/ Kill(n)
          => engine' = engine
    BY DEF PublishTimer, RefreshTimer, SaveMap, SaveReport, Kill
  <2> QED BY <2>1, <2>2, <2>3, <2>4, <2>5 DEF NodeStep
<1>5. ASSUME NEW p \in Node PROVE RoundAt(engine'[p], p, sent', starts')
  <2>1. CASE p = n
    BY <1>4, <2>1
  <2>2. CASE p # n
    BY <1>2, <2>2, OthersAreLeftAlone DEF Rounds
  <2> QED BY <2>1, <2>2
<1> QED BY <1>5 DEF Rounds

(***************************************************************************)
(* A report file only ever changes to what is cut short or to the report   *)
(* the node is about to write.                                             *)
(***************************************************************************)
LEMMA ReportFileStep ==
    ASSUME Types, NEW n \in Node, NodeStep(n)
    PROVE  \/ report_file' = report_file
           \/ report_file'[n] = Truncated
           \/ /\ phase[n] = "save_report" /\ report_file'[n] = Report(n)
              /\ starts' = starts /\ sent' = sent /\ engine' = engine
<1>1. CASE SaveReport(n)
  BY <1>1 DEF SaveReport, Types
<1>2. ASSUME NEW claim, NEW via, NEW source, Message(n, claim, via, source)
      PROVE  report_file' = report_file
  BY <1>2 DEF Message
<1>3. PublishTimer(n) \/ EpochTimer(n) \/ RefreshTimer(n) \/ SaveMap(n) \/ Kill(n) \/ Restart(n)
        => report_file' = report_file
  BY DEF PublishTimer, EpochTimer, RefreshTimer, SaveMap, Kill, Restart
<1> QED BY <1>1, <1>2, <1>3 DEF NodeStep

(***************************************************************************)
(* Every readable report stays backed.                                     *)
(***************************************************************************)
LEMMA ReportsStep ==
    ASSUME IInv, NEW n \in Node, NodeStep(n)
    PROVE  Reports'
<1> USE DEF IInv
<1>1. /\ starts \in [Node -> 0 .. MaxStarts] /\ starts' \in [Node -> 0 .. MaxStarts]
      /\ sent \subseteq sent' /\ \A m \in Node : starts[m] <= starts'[m]
  BY TypesStep DEF Types
<1>2. \A r : \A p \in Node : ReportAt(r, p, sent, starts) => ReportAt(r, p, sent', starts')
  BY <1>1, BackingGrows
<1>3. ASSUME NEW p \in Node, report_file'[p] = report_file[p], IsReadable(report_file'[p])
      PROVE  ReportAt(report_file'[p], p, sent', starts')
  BY <1>2, <1>3 DEF Reports
<1>4. ASSUME IsReadable(report_file'[n])
      PROVE  ReportAt(report_file'[n], n, sent', starts')
  <2>1. report_file'[n] # Truncated
    BY <1>4 DEF IsReadable
  <2>2. CASE report_file'[n] = Report(n) /\ starts' = starts /\ sent' = sent
    BY <2>2, WrittenReport DEF Rounds
  <2> QED BY <1>3, <1>4, <2>1, <2>2, ReportFileStep
<1>5. ASSUME NEW p \in Node, IsReadable(report_file'[p])
      PROVE  ReportAt(report_file'[p], p, sent', starts')
  BY <1>3, <1>4, <1>5, OthersAreLeftAlone
<1> QED BY <1>5 DEF Reports, IsReadable

(***************************************************************************)
(* The files of a node and the place it is at stay consistent, whichever   *)
(* step it takes.                                                          *)
(***************************************************************************)
LEMMA FilesStep ==
    ASSUME IInv, NEW n \in Node, NodeStep(n)
    PROVE  FilesOf(n)'
<1> DEFINE r == report_file[n]
           own == IsReadable(r) /\ r.local_peer_id = local_peer_id(n)
<1>1. /\ n \in DOMAIN engine /\ n \in DOMAIN phase /\ n \in DOMAIN consensus_written
      /\ n \in DOMAIN map_file /\ n \in DOMAIN report_file /\ n \in DOMAIN starts
      /\ starts[n] \in Nat
  BY MeshAssumption DEF IInv, Types
<1>2. FilesOf(n)
  BY DEF IInv, Files
<1>3. /\ engine[n].epoch \in Nat
      /\ IsReadable(r) => /\ r.epoch \in Nat
                          /\ \E k \in 0 .. starts[n] : r.local_peer_id = <<n, k>>
  <2>1. \A e \in FirstEpoch .. LastEpoch : e \in Nat
    BY MeshAssumption, LimitAssumption DEF Epoch
  <2> QED BY <2>1 DEF IInv, Rounds, RoundAt, Reports, ReportAt
<1>4. CASE PublishTimer(n) \/ RefreshTimer(n)
  <2>1. UNCHANGED <<starts, phase, engine, consensus_written, map_file, report_file>>
    BY <1>4 DEF PublishTimer, RefreshTimer
  <2> QED BY <1>2, <2>1 DEF FilesOf, Report, local_peer_id
<1>5. CASE EpochTimer(n)
  <2>1. /\ phase'[n] = "loop" /\ consensus_written'[n] = FALSE /\ starts' = starts
        /\ report_file' = report_file
        /\ engine'[n].epoch = engine[n].epoch + 1
    <3>1. /\ RoundAt(engine[n], n, sent, starts) /\ engine[n].epoch < LastEpoch
          /\ engine'[n] = AdvanceEpoch(engine[n], SaturatingAdd(engine[n].epoch, 1))
      BY <1>1, <1>5 DEF EpochTimer, IInv, Rounds
    <3>2. AdvanceEpoch(engine[n], SaturatingAdd(engine[n].epoch, 1)).epoch = engine[n].epoch + 1
      BY <3>1, AdvancedRoundAt
    <3> QED BY <1>1, <1>5, <3>1, <3>2 DEF EpochTimer
  <2>2. own => r.epoch <= engine[n].epoch
    BY <1>2 DEF FilesOf
  <2> HIDE DEF r
  <2>3. own => r.epoch <= engine[n].epoch + 1 /\ r.epoch # engine[n].epoch + 1
    BY <1>3, <2>2
  <2> QED BY <2>1, <2>3 DEF FilesOf, local_peer_id, r
<1>6. ASSUME NEW claim \in sent, NEW via \in Node, NEW k \in 0 .. starts[via],
             Message(n, claim, via, <<via, k>>)
      PROVE  FilesOf(n)'
  <2>1. /\ phase[n] = "loop" /\ phase'[n] \in {"loop", "save_map"}
        /\ phase'[n] = "save_map" => ~consensus_written[n]
        /\ UNCHANGED <<starts, consensus_written, map_file, report_file>>
        /\ <<via, n>> \in Link
        /\ engine'[n] = WithoutLedger(ProcessClaimFromPeer(engine[n], claim, <<via, k>>))
    BY <1>1, <1>6 DEF Message
  <2>2. engine'[n].epoch >= engine[n].epoch
    <3>1. claim.epoch \in FirstEpoch .. LastEpoch /\ IsEntryList(claim.entries)
      BY MeshAssumption DEF IInv, Published
    <3>2. IsNeighbour(<<via, k>>, n, starts) /\ RoundAt(engine[n], n, sent, starts)
      BY <2>1, MeshAssumption DEF IsNeighbour, IInv, Types, Rounds
    <3>3. WithoutLedger(ProcessClaimFromPeer(engine[n], claim, <<via, k>>)).epoch
            >= engine[n].epoch
      BY <3>1, <3>2, MessageRoundAt
    <3> QED BY <2>1, <3>3
  <2>3. engine'[n].epoch \in Nat
    <3>1. RoundAt(engine[n], n, sent, starts)' /\ FirstEpoch \in Nat /\ LastEpoch \in Nat
      BY RoundsStep, MeshAssumption DEF Rounds, Epoch
    <3> QED BY <3>1 DEF RoundAt
  <2>4. own => /\ r.epoch <= engine[n].epoch
               /\ r.epoch = engine[n].epoch => consensus_written[n]
    BY <1>2 DEF FilesOf
  <2> DEFINE epoch == engine'[n].epoch
  <2>5. own => r.epoch <= epoch /\ (r.epoch = epoch => consensus_written[n])
    <3> HIDE DEF r, epoch
    <3>1. epoch >= engine[n].epoch /\ epoch \in Nat
      BY <2>2, <2>3 DEF epoch
    <3> QED BY <1>3, <2>4, <3>1
  <2>6. consensus_written[n] =>
          IsReadable(r) /\ r.local_peer_id = local_peer_id(n) /\ map_file[n] = MapFrom(r.entries)
    BY <1>2 DEF FilesOf
  <2> QED BY <2>1, <2>5, <2>6 DEF FilesOf, local_peer_id
<1>7. CASE SaveMap(n)
  <2>1. /\ phase[n] = "save_map"
        /\ UNCHANGED <<starts, engine, consensus_written, report_file>>
        /\ \/ phase'[n] = "save_report" /\ map_file'[n] = MapFrom(Report(n).entries)
           \/ phase'[n] = "down"
    BY <1>1, <1>7 DEF SaveMap
  <2>2. ~consensus_written[n]
    BY <1>2, <2>1 DEF FilesOf
  <2>3. Report(n)' = Report(n)
    BY <2>1 DEF Report, local_peer_id
  <2> QED BY <1>2, <2>1, <2>2, <2>3 DEF FilesOf, local_peer_id
<1>8. CASE SaveReport(n)
  <2>1. /\ phase[n] = "save_report"
        /\ UNCHANGED <<starts, engine, map_file>>
        /\ \/ /\ report_file'[n] = Report(n) /\ phase'[n] = "loop"
              /\ consensus_written'[n] = TRUE
           \/ /\ report_file'[n] = r \/ report_file'[n] = Truncated
              /\ phase'[n] = "down" /\ consensus_written' = consensus_written
    BY <1>1, <1>8 DEF SaveReport
  <2>2. ~consensus_written[n] /\ map_file[n] = MapFrom(Report(n).entries)
    BY <1>2, <2>1 DEF FilesOf
  <2>3. /\ IsReadable(Report(n)) /\ Report(n).local_peer_id = local_peer_id(n)
        /\ Report(n).epoch = engine[n].epoch
    BY WrittenReport DEF IInv, Rounds, Report
  <2>4. engine[n].epoch <= engine[n].epoch
    BY <1>3
  <2>5. CASE report_file'[n] = Report(n) /\ phase'[n] = "loop" /\ consensus_written'[n] = TRUE
    BY <2>1, <2>2, <2>3, <2>4, <2>5 DEF FilesOf, local_peer_id
  <2>6. CASE report_file'[n] = r /\ phase'[n] = "down" /\ consensus_written' = consensus_written
    BY <1>2, <2>1, <2>2, <2>6 DEF FilesOf, local_peer_id
  <2>7. CASE report_file'[n] = Truncated /\ phase'[n] = "down"
             /\ consensus_written' = consensus_written
    BY <2>1, <2>2, <2>7 DEF FilesOf, IsReadable
  <2> QED BY <2>1, <2>5, <2>6, <2>7
<1>9. CASE Kill(n)
  <2>1. /\ phase'[n] = "down"
        /\ UNCHANGED <<starts, engine, consensus_written, map_file, report_file>>
    BY <1>1, <1>9 DEF Kill
  <2> QED BY <1>2, <2>1 DEF FilesOf, local_peer_id
<1>10. CASE Restart(n)
  <2>1. /\ phase'[n] = "loop" /\ consensus_written'[n] = FALSE /\ report_file' = report_file
        /\ starts'[n] = starts[n] + 1
    BY <1>1, <1>10 DEF Restart
  <2>2. IsReadable(r) => r.local_peer_id # <<n, starts[n] + 1>>
    <3> HIDE DEF r
    <3> QED BY <1>1, <1>3
  <2> QED BY <2>1, <2>2 DEF FilesOf, local_peer_id, IsReadable
<1> QED BY <1>4, <1>5, <1>6, <1>7, <1>8, <1>9, <1>10 DEF NodeStep

(***************************************************************************)
(* The invariant holds at the start: no claims, no files, new engines.     *)
(***************************************************************************)
LEMMA InitInvariant == Init => IInv
<1> SUFFICES ASSUME Init PROVE IInv
  OBVIOUS
<1>1. Types
  BY MeshAssumption DEF Init, Types
<1>2. Published
  BY DEF Init, Published
<1>3. Rounds
  BY NewRoundAt DEF Init, Rounds
<1>4. Reports /\ Files
  BY DEF Init, Reports, Files, FilesOf, IsReadable
<1> QED BY <1>1, <1>2, <1>3, <1>4 DEF IInv

(***************************************************************************)
(* Whatever a node does, the invariant is kept at every node.              *)
(***************************************************************************)
LEMMA NextInvariant == IInv /\ [Next]_vars => IInv'
<1> SUFFICES ASSUME IInv, [Next]_vars PROVE IInv'
  OBVIOUS
<1>1. CASE UNCHANGED vars
  BY <1>1 DEF vars, IInv, Types, Published, Rounds, Reports, Files, FilesOf, Report,
              local_peer_id
<1>2. CASE Next
  <2>1. PICK n \in Node : NodeStep(n)
    BY <1>2 DEF Next, NodeStep
  <2>2. ASSUME NEW p \in Node PROVE FilesOf(p)'
    <3>1. CASE p = n
      BY <2>1, <3>1, FilesStep
    <3>2. CASE p # n
      <4>1. /\ starts'[p] = starts[p] /\ phase'[p] = phase[p] /\ engine'[p] = engine[p]
            /\ consensus_written'[p] = consensus_written[p]
            /\ map_file'[p] = map_file[p] /\ report_file'[p] = report_file[p]
        BY <2>1, <3>2, OthersAreLeftAlone DEF IInv
      <4>2. FilesOf(p) /\ Report(p)' = Report(p) /\ local_peer_id(p)' = local_peer_id(p)
        BY <4>1 DEF IInv, Files, Report, local_peer_id
      <4> QED BY <4>1, <4>2 DEF FilesOf, IsReadable
    <3> QED BY <3>1, <3>2
  <2>3. Files'
    BY <2>2 DEF Files
  <2> QED BY <2>1, <2>3, TypesStep, RoundsStep, ReportsStep DEF IInv
<1> QED BY <1>1, <1>2

(***************************************************************************)
(* Every behaviour of the mesh keeps the invariant.                        *)
(***************************************************************************)
THEOREM Invariant == Spec => []IInv
BY InitInvariant, NextInvariant, PTL DEF Spec

---------------------------------------------------------------------------
(* Safety.                                                                 *)

(***************************************************************************)
(* The loops keep their variables in their types, no engine counts the     *)
(* node it runs at, and no epoch is outside those the timers reach.        *)
(***************************************************************************)
THEOREM TypeCorrect == Spec => []TypeOK
<1>1. IInv => TypeOK
  <2> SUFFICES ASSUME IInv, NEW n \in Node
               PROVE  /\ engine[n].epoch \in FirstEpoch .. LastEpoch
                      /\ engine[n].seen_senders \subseteq PeerId \ {local_peer_id(n)}
                      /\ IsReadable(report_file[n])
                           => report_file[n].participants \subseteq PeerId
    BY DEF IInv, Types, TypeOK
  <2>1. \A s : IsNeighbour(s, n, starts) => s \in PeerId \ {local_peer_id(n)}
    BY MeshAssumption DEF IsNeighbour, local_peer_id
  <2>2. RoundAt(engine[n], n, sent, starts)
    BY DEF IInv, Rounds
  <2>3. PICK full, bs : /\ GoodRound(full, bs) /\ SameRound(engine[n], full)
                        /\ CastAt(bs, n, engine[n].epoch, sent, starts)
    BY <2>2 DEF RoundAt
  <2>4. engine[n].seen_senders = DOMAIN bs
    BY <2>3 DEF GoodRound, SameRound
  <2>5. engine[n].seen_senders \subseteq PeerId \ {local_peer_id(n)}
    BY <2>1, <2>3, <2>4 DEF CastAt
  <2>6. ASSUME IsReadable(report_file[n])
        PROVE  report_file[n].participants \subseteq PeerId
    BY <2>1, <2>6 DEF IInv, Reports, ReportAt, CastAt
  <2> QED BY <2>2, <2>5, <2>6 DEF RoundAt
<1> QED BY <1>1, Invariant, PTL

(***************************************************************************)
(* A run of the program that holds its consensus for written has it in     *)
(* both files, whatever an earlier run left there.                         *)
(***************************************************************************)
THEOREM FilesAgree == Spec => []WrittenFilesAgree
<1>1. IInv => WrittenFilesAgree
  BY DEF IInv, Files, FilesOf, WrittenFilesAgree
<1> QED BY <1>1, Invariant, PTL

(***************************************************************************)
(* A report counts only what neighbours published for its epoch, with at   *)
(* least the threshold behind each entry.                                  *)
(***************************************************************************)
THEOREM ReportsBacked == Spec => []ReportsCountNeighboursClaims
<1>1. IInv => ReportsCountNeighboursClaims
  <2> SUFFICES ASSUME IInv, NEW n \in Node, IsReadable(report_file[n])
               PROVE  /\ \A id \in report_file[n].participants : <<id[1], n>> \in Link
                      /\ \A e \in report_file[n].entries :
                            /\ Threshold <= e.votes
                            /\ e.votes <= Cardinality({id \in report_file[n].participants :
                                  Asserts(id, report_file[n].epoch, <<e.ip_prefix, e.asn>>)})
    BY DEF ReportsCountNeighboursClaims
  <2> DEFINE r == report_file[n]
  <2>1. ReportAt(r, n, sent, starts)
    BY DEF IInv, Reports
  <2>2. PICK bs : /\ r.participants = DOMAIN bs /\ IsFiniteSet(DOMAIN bs)
                  /\ CastAt(bs, n, r.epoch, sent, starts)
                  /\ \A e \in r.entries :
                        /\ e.votes \in Nat /\ Threshold <= e.votes
                        /\ e.votes = Cardinality(Backers(bs, <<e.ip_prefix, e.asn>>))
    BY <2>1 DEF ReportAt
  <2> HIDE DEF r
  <2>3. \A id \in r.participants : <<id[1], n>> \in Link
    BY <2>2 DEF CastAt, IsNeighbour
  <2>4. ASSUME NEW e \in r.entries
        PROVE  e.votes <= Cardinality({id \in r.participants :
                              Asserts(id, r.epoch, <<e.ip_prefix, e.asn>>)})
    <3> DEFINE key == <<e.ip_prefix, e.asn>>
               asserters == {id \in r.participants : Asserts(id, r.epoch, key)}
    <3>1. Backers(bs, key) \subseteq asserters
      BY <2>2 DEF Backers, CastAt, Asserts
    <3>2. IsFiniteSet(asserters)
      BY <2>2, FS_Subset
    <3> HIDE DEF asserters
    <3>3. Cardinality(Backers(bs, key)) <= Cardinality(asserters)
      BY <3>1, <3>2, FS_Subset
    <3> QED BY <2>2, <3>3 DEF asserters
  <2> QED BY <2>2, <2>3, <2>4 DEF r
<1> QED BY <1>1, Invariant, PTL

(***************************************************************************)
(* Identities are finitely many.                                           *)
(***************************************************************************)
LEMMA IdentitiesFinite == IsFiniteSet(Identity)
<1>1. IsFiniteSet(0 .. MaxStarts) /\ IsFiniteSet(Node)
  BY FS_Interval, MeshAssumption
<1>2. IsFiniteSet(PeerId)
  BY <1>1, FS_Product, MeshAssumption
<1> QED BY <1>2, FS_Subset DEF Identity

(***************************************************************************)
(* Two reports of one epoch can only name different ASes for one stretch   *)
(* of addresses through an identity that took part in both with two        *)
(* different claims, while fewer than 2 * threshold identities exist.      *)
(***************************************************************************)
THEOREM NoSplitWithoutEquivocation == Spec => []ContradictionNeedsEquivocation
<1>1. IInv => ContradictionNeedsEquivocation
  <2> SUFFICES ASSUME IInv, NEW m \in Node, NEW n \in Node,
                      Cardinality(Identity) < 2 * Threshold,
                      IsReadable(report_file[m]), IsReadable(report_file[n]),
                      report_file[m].epoch = report_file[n].epoch,
                      NEW x \in report_file[m].entries, NEW y \in report_file[n].entries,
                      IpToBits(x.ip_prefix) = IpToBits(y.ip_prefix), x.asn # y.asn
               PROVE  \E id \in report_file[m].participants \cap report_file[n].participants :
                         Equivocates(id, report_file[m].epoch)
    BY DEF ContradictionNeedsEquivocation
  <2> DEFINE r == report_file[m]
             q == report_file[n]
             j == <<x.ip_prefix, x.asn>>
             k == <<y.ip_prefix, y.asn>>
  <2>1. ReportAt(r, m, sent, starts) /\ ReportAt(q, n, sent, starts)
    BY DEF IInv, Reports
  <2>2. PICK bs : /\ r.participants = DOMAIN bs
                  /\ \A s \in DOMAIN bs : AssertsOnce(bs[s])
                  /\ CastAt(bs, m, r.epoch, sent, starts)
                  /\ x.votes \in Nat /\ Threshold <= x.votes
                  /\ x.votes = Cardinality(Backers(bs, j))
    BY <2>1 DEF ReportAt
  <2>3. PICK cs : /\ q.participants = DOMAIN cs
                  /\ CastAt(cs, n, q.epoch, sent, starts)
                  /\ y.votes \in Nat /\ Threshold <= y.votes
                  /\ y.votes = Cardinality(Backers(cs, k))
    BY <2>1 DEF ReportAt
  <2> HIDE DEF r, q
  <2>4. Backers(bs, j) \subseteq Identity /\ Backers(cs, k) \subseteq Identity
    BY <2>2, <2>3 DEF Backers, CastAt, IsNeighbour, Identity
  <2>5. Backers(bs, j) \cap Backers(cs, k) # {}
    <3> HIDE DEF j, k
    <3>1. IsFiniteSet(Identity) /\ Cardinality(Identity) \in Nat
      BY IdentitiesFinite, FS_CardinalityType
    <3>2. Cardinality(Backers(bs, j)) + Cardinality(Backers(cs, k)) > Cardinality(Identity)
      BY <2>2, <2>3, <3>1, LimitAssumption
    <3> QED BY <2>4, <3>1, <3>2, FS_MajoritiesIntersect
  <2>6. PICK id \in Backers(bs, j) : id \in Backers(cs, k)
    BY <2>5
  <2>7. id \in DOMAIN bs /\ id \in DOMAIN cs /\ j \in bs[id] /\ k \in cs[id]
    BY <2>6 DEF Backers
  <2>8. PICK c \in sent : c.sender_id = id /\ c.epoch = r.epoch /\ bs[id] = VoteKeys(c.entries)
    BY <2>2, <2>7 DEF CastAt
  <2>9. PICK d \in sent : d.sender_id = id /\ d.epoch = q.epoch /\ cs[id] = VoteKeys(d.entries)
    BY <2>3, <2>7 DEF CastAt
  <2>10. c.entries # d.entries
    <3> SUFFICES ASSUME c.entries = d.entries PROVE FALSE
      OBVIOUS
    <3>1. j \in bs[id] /\ k \in bs[id] /\ AssertsOnce(bs[id])
      BY <2>2, <2>7, <2>8, <2>9
    <3>2. j = k
      BY <3>1 DEF AssertsOnce
    <3> QED BY <3>2
  <2>11. r.epoch = q.epoch
    BY DEF r, q
  <2> QED BY <2>2, <2>3, <2>7, <2>8, <2>9, <2>10, <2>11 DEF Equivocates, r, q
<1> QED BY <1>1, Invariant, PTL

(***************************************************************************)
(* No run of the program writes two reports of one epoch, or a report of   *)
(* an epoch before that of the report it wrote last.                       *)
(***************************************************************************)
THEOREM OneReport == Spec => OneReportPerEpoch
<1> DEFINE Moves(n) ==
             LET old == report_file[n]
                 new == report_file'[n]
             IN  IsReadable(old) /\ IsReadable(new) /\ new # old
                   /\ new.local_peer_id = old.local_peer_id
                 => new.epoch > old.epoch
<1>1. IInv /\ [Next]_vars => [\A n \in Node : Moves(n)]_vars
  <2> SUFFICES ASSUME IInv, NEW n \in Node, NodeStep(n), NEW p \in Node PROVE Moves(p)
    BY DEF Next, NodeStep
  <2>1. CASE report_file'[p] = report_file[p]
    BY <2>1
  <2>2. CASE report_file'[p] = Truncated
    BY <2>2 DEF IsReadable
  <2>3. CASE p = n /\ phase[n] = "save_report" /\ report_file'[n] = Report(n)
    <3> DEFINE old == report_file[n]
    <3> SUFFICES ASSUME IsReadable(old), Report(n).local_peer_id = old.local_peer_id
                 PROVE  Report(n).epoch > old.epoch
      BY <2>3
    <3>1. FilesOf(n) /\ ReportAt(old, n, sent, starts) /\ RoundAt(engine[n], n, sent, starts)
      BY DEF IInv, Files, Reports, Rounds
    <3>2. Report(n).epoch = engine[n].epoch /\ Report(n).local_peer_id = local_peer_id(n)
      BY DEF Report
    <3>3. old.epoch <= engine[n].epoch /\ old.epoch # engine[n].epoch
      BY <2>3, <3>1, <3>2 DEF FilesOf
    <3>4. \A e \in FirstEpoch .. LastEpoch : e \in Nat
      BY MeshAssumption, LimitAssumption DEF Epoch
    <3>5. old.epoch \in Nat /\ engine[n].epoch \in Nat
      BY <3>1, <3>4 DEF ReportAt, RoundAt
    <3> HIDE DEF old
    <3> QED BY <3>2, <3>3, <3>5
  <2> QED BY <2>1, <2>2, <2>3, ReportFileStep, OthersAreLeftAlone DEF IInv
<1> QED BY <1>1, Invariant, PTL DEF Spec, OneReportPerEpoch

=============================================================================
