----------------------------- MODULE ServeMesh -----------------------------
(***************************************************************************)
(* Nodes running `serve` or `collect`: the event loops of run_serve_async  *)
(* and run_collect_async around one engine each, the claims they publish,  *)
(* the files they write at quorum, and the crashes in between.             *)
(*                                                                         *)
(* A node is an operator's machine.  Each start of the program makes a new *)
(* libp2p identity, so a peer id is <<node, number of earlier starts>>.    *)
(* One arm of select! runs to its end before the next: a handler is one    *)
(* step, but for the two file writes, which can fail or be cut short.      *)
(***************************************************************************)
EXTENDS ClaimEngine, QuorumTally

CONSTANTS
    Node,
    Collecting,     \* the nodes that run `collect`
    Ticking,        \* bound: the nodes whose epoch timer fires
    Failing,        \* bound: the nodes that may crash or meet a write error
    Link,           \* pairs of nodes that are gossip neighbours
    Snapshot,       \* the entry lists a local map may yield
    StartMaps,      \* which snapshots the nodes may start with
    FirstEpoch,     \* --epoch
    LastEpoch,      \* bound: timers stop here
    MaxStarts,      \* bound: restarts of one node
    Now,            \* Unix time
    NoFile,
    Truncated       \* created or half written

ASSUME MeshAssumption ==
    /\ IsFiniteSet(Node)
    /\ Collecting \subseteq Node /\ Ticking \subseteq Node /\ Failing \subseteq Node
    /\ Link \subseteq Node \X Node
    /\ \A m, n \in Node : <<m, n>> \in Link => m # n /\ <<n, m>> \in Link
    /\ \A entries \in Snapshot : IsEntryList(entries)
    /\ StartMaps \subseteq [Node -> Snapshot]
    /\ FirstEpoch \in Epoch /\ LastEpoch \in Epoch /\ FirstEpoch <= LastEpoch
    /\ MaxStarts \in Nat /\ Now \in Nat
    /\ PeerId = Node \X (0 .. MaxStarts)

ConsensusReport ==
    [epoch : Epoch, local_peer_id : PeerId, participants : SUBSET PeerId,
     entries : SUBSET [ip_prefix : Prefix, asn : Asn, votes : Nat]]

(* What is not there or was cut short does not parse as a report. *)
ASSUME FileAssumption == NoFile \notin ConsensusReport /\ Truncated \notin ConsensusReport

VARIABLES
    starts,             \* earlier starts of each node
    phase,              \* "loop", "save_map", "save_report" or "down"
    local_map,          \* the entries of local_claim
    engine,
    consensus_written,
    map_file,
    report_file,
    sent                \* every claim published so far

vars == <<starts, phase, local_map, engine, consensus_written, map_file, report_file, sent>>

local_peer_id(n) == <<n, starts[n]>>

NoRejections == [r \in Reason |-> 0]

(* The ledger grows with every message and no loop reads it back. *)
WithoutLedger(eng) ==
    [eng EXCEPT !.observations = << >>, !.rejections_seen = 0,
                !.rejected_claims = NoRejections]

NewEngine == WithLimits(FirstEpoch, AtUnixTime(Now))

(* Mutant: the local claim keeps the epoch it was built for. *)
ClaimNotRestamped(n) ==
    [epoch      |-> FirstEpoch,
     sender_id  |-> local_peer_id(n),
     claim_hash |-> ClaimHash(FirstEpoch, local_peer_id(n), local_map[n]),
     entries    |-> local_map[n]]

(* local_claim as the publish timer stamps it. *)
LocalClaim(n) ==
    [epoch      |-> engine[n].epoch,
     sender_id  |-> local_peer_id(n),
     claim_hash |-> ClaimHash(engine[n].epoch, local_peer_id(n), local_map[n]),
     entries    |-> local_map[n]]

(* What a (re)build of the claim may read: serve has its map for good, a
   failed collect keeps what it had, which is one of the snapshots. *)
Readings(n) == IF n \in Collecting THEN Snapshot ELSE {local_map[n]}

(* ASMap::from_entries on entries with distinct paths. *)
MapFrom(entries) == {<<IpToBits(e.ip_prefix), e.asn>> : e \in entries}

Report(n) ==
    [epoch         |-> engine[n].epoch,
     local_peer_id |-> local_peer_id(n),
     participants  |-> engine[n].seen_senders,
     entries       |-> FinalEntries(engine[n].votes, Threshold)]

---------------------------------------------------------------------------

Init ==
    /\ starts = [n \in Node |-> 0]
    /\ phase = [n \in Node |-> "loop"]
    /\ local_map \in StartMaps
    /\ engine = [n \in Node |-> NewEngine]
    /\ consensus_written = [n \in Node |-> FALSE]
    /\ map_file = [n \in Node |-> NoFile]
    /\ report_file = [n \in Node |-> NoFile]
    /\ sent = {}

(* A publish that fails is ignored: a step that is not taken. *)
PublishTimer(n) ==
    /\ phase[n] = "loop"
    /\ sent' = sent \cup {LocalClaim(n)}
    /\ UNCHANGED <<starts, phase, local_map, engine, consensus_written, map_file, report_file>>

EpochTimer(n) ==
    /\ n \in Ticking
    /\ phase[n] = "loop"
    /\ engine[n].epoch < LastEpoch
    /\ engine' = [engine EXCEPT ![n] = AdvanceEpoch(@, SaturatingAdd(@.epoch, 1))]
    /\ consensus_written' = [consensus_written EXCEPT ![n] = FALSE]
    /\ local_map' \in {[local_map EXCEPT ![n] = s] : s \in Readings(n)}
    /\ UNCHANGED <<starts, phase, map_file, report_file, sent>>

(* collect only: a new snapshot in the middle of an epoch. *)
RefreshTimer(n) ==
    /\ phase[n] = "loop"
    /\ n \in Collecting
    /\ local_map' \in {[local_map EXCEPT ![n] = s] : s \in Readings(n)}
    /\ UNCHANGED <<starts, phase, engine, consensus_written, map_file, report_file, sent>>

(***************************************************************************)
(* A gossip message: the copy of a claim that neighbour via hands over, as *)
(* its publisher or forwarding it, under the identity via had when it sent *)
(* it.  propagation_source, the identity of via, is what the engine gets.  *)
(***************************************************************************)
Message(n, claim, via, source) ==
    /\ phase[n] = "loop"
    /\ claim \in sent
    /\ <<via, n>> \in Link
    /\ claim.sender_id # local_peer_id(n)
    /\ LET after == ProcessClaimFromPeer(engine[n], claim, source)
           write == /\ ~consensus_written[n]
                    /\ QuorumReached(after)
                    /\ Accepts(engine[n], claim, source)
       IN  /\ engine' = [engine EXCEPT ![n] = WithoutLedger(after)]
           /\ phase' = [phase EXCEPT ![n] = IF write THEN "save_map" ELSE "loop"]
    /\ UNCHANGED <<starts, local_map, consensus_written, map_file, report_file, sent>>

(* finalize and save_binary; an error ends the node. *)
SaveMap(n) ==
    /\ phase[n] = "save_map"
    /\ \/ /\ map_file' = [map_file EXCEPT ![n] = MapFrom(Report(n).entries)]
          /\ phase' = [phase EXCEPT ![n] = "save_report"]
       \/ /\ n \in Failing
          /\ map_file' \in {map_file, [map_file EXCEPT ![n] = Truncated]}
          /\ phase' = [phase EXCEPT ![n] = "down"]
    /\ UNCHANGED <<starts, local_map, engine, consensus_written, report_file, sent>>

(* Mutant: the result of save_json_report is dropped. *)
SaveReportUnchecked(n) ==
    /\ phase[n] = "save_report"
    /\ report_file' \in {[report_file EXCEPT ![n] = r] :
                            r \in IF n \in Failing THEN {Report(n), report_file[n], Truncated}
                                  ELSE {Report(n)}}
    /\ phase' = [phase EXCEPT ![n] = "loop"]
    /\ consensus_written' = [consensus_written EXCEPT ![n] = TRUE]
    /\ UNCHANGED <<starts, local_map, engine, map_file, sent>>

(* Mutant: consensus_written is not set. *)
SaveReportForgetsFlag(n) ==
    /\ phase[n] = "save_report"
    /\ report_file' = [report_file EXCEPT ![n] = Report(n)]
    /\ phase' = [phase EXCEPT ![n] = "loop"]
    /\ UNCHANGED <<starts, local_map, engine, consensus_written, map_file, sent>>

SaveReport(n) ==
    /\ phase[n] = "save_report"
    /\ \/ /\ report_file' = [report_file EXCEPT ![n] = Report(n)]
          /\ phase' = [phase EXCEPT ![n] = "loop"]
          /\ consensus_written' = [consensus_written EXCEPT ![n] = TRUE]
       \/ /\ n \in Failing
          /\ report_file' \in {report_file, [report_file EXCEPT ![n] = Truncated]}
          /\ phase' = [phase EXCEPT ![n] = "down"]
          /\ UNCHANGED consensus_written
    /\ UNCHANGED <<starts, local_map, engine, map_file, sent>>

Kill(n) ==
    /\ n \in Failing
    /\ phase[n] = "loop"
    /\ phase' = [phase EXCEPT ![n] = "down"]
    /\ UNCHANGED <<starts, local_map, engine, consensus_written, map_file, report_file, sent>>

(* Only the files outlive the process. *)
Restart(n) ==
    /\ phase[n] = "down"
    /\ starts[n] < MaxStarts
    /\ starts' = [starts EXCEPT ![n] = @ + 1]
    /\ phase' = [phase EXCEPT ![n] = "loop"]
    /\ local_map' \in {[local_map EXCEPT ![n] = s] : s \in Readings(n)}
    /\ engine' = [engine EXCEPT ![n] = NewEngine]
    /\ consensus_written' = [consensus_written EXCEPT ![n] = FALSE]
    /\ UNCHANGED <<map_file, report_file, sent>>

Next ==
    \E n \in Node :
        \/ PublishTimer(n)
        \/ EpochTimer(n)
        \/ RefreshTimer(n)
        \/ \E claim \in sent, via \in Node : \E k \in 0 .. starts[via] :
              Message(n, claim, via, <<via, k>>)
        \/ SaveMap(n)
        \/ SaveReport(n)
        \/ Kill(n)
        \/ Restart(n)

Spec == Init /\ [][Next]_vars

(* A claim of via for the epoch via is at, from via itself. *)
DirectMessage(n, via) ==
    \E claim \in sent :
        /\ claim.sender_id = local_peer_id(via)
        /\ claim.epoch = engine[via].epoch
        /\ Message(n, claim, via, local_peer_id(via))

(***************************************************************************)
(* Fairness.  publish_timer ticks every five seconds while the loop runs,  *)
(* each publish is a new gossip message, and between linked nodes one of   *)
(* them arrives directly; a handler that has begun to write ends.  Nothing *)
(* is assumed of the epoch timer, of crashes or of restarts.               *)
(***************************************************************************)
FairSpec ==
    /\ Spec
    /\ \A n \in Node :
          /\ WF_vars(PublishTimer(n))
          /\ WF_vars(SaveMap(n))
          /\ WF_vars(SaveReport(n))
          /\ \A via \in Node : WF_vars(DirectMessage(n, via))

---------------------------------------------------------------------------

IsReadable(file) == file \notin {NoFile, Truncated}

TypeOK ==
    /\ starts \in [Node -> 0 .. MaxStarts]
    /\ phase \in [Node -> {"loop", "save_map", "save_report", "down"}]
    /\ local_map \in [Node -> Snapshot]
    /\ consensus_written \in [Node -> BOOLEAN]
    /\ \A n \in Node :
          /\ engine[n].epoch \in FirstEpoch .. LastEpoch
          /\ engine[n].seen_senders \subseteq PeerId \ {local_peer_id(n)}
          /\ IsReadable(report_file[n]) => report_file[n].participants \subseteq PeerId

Identity == {id \in PeerId : id[2] <= starts[id[1]]}

Asserts(id, epoch, key) ==
    \E claim \in sent :
        claim.sender_id = id /\ claim.epoch = epoch /\ key \in VoteKeys(claim.entries)

(* Two different claims of one identity for one epoch. *)
Equivocates(id, epoch) ==
    \E c, d \in sent :
        c.sender_id = id /\ d.sender_id = id /\ c.epoch = epoch /\ d.epoch = epoch
          /\ c.entries # d.entries

(***************************************************************************)
(* While fewer than 2 * threshold identities have ever joined, two nodes'  *)
(* reports on one epoch name different ASes for one stretch of addresses   *)
(* only if some identity took part in both and published two claims for    *)
(* that epoch: `serve` nodes cannot split, whatever order claims come in,  *)
(* and a `collect` node that refreshes inside an epoch can split them.     *)
(***************************************************************************)
ContradictionNeedsEquivocation ==
    \A m, n \in Node :
        /\ Cardinality(Identity) < 2 * Threshold
        /\ IsReadable(report_file[m]) /\ IsReadable(report_file[n])
        /\ report_file[m].epoch = report_file[n].epoch
        /\ \E x \in report_file[m].entries, y \in report_file[n].entries :
              IpToBits(x.ip_prefix) = IpToBits(y.ip_prefix) /\ x.asn # y.asn
        => \E id \in report_file[m].participants \cap report_file[n].participants :
              Equivocates(id, report_file[m].epoch)

(***************************************************************************)
(* A report counts only claims that were published for its epoch, by       *)
(* neighbours of the node, never its own and none that was only forwarded; *)
(* no votes are left over from an earlier epoch, by whichever of the two   *)
(* ways the epoch was left.                                                *)
(***************************************************************************)
ReportsCountNeighboursClaims ==
    \A n \in Node :
        IsReadable(report_file[n]) =>
            LET report == report_file[n]
            IN  /\ \A id \in report.participants : <<id[1], n>> \in Link
                /\ \A e \in report.entries :
                      /\ Threshold <= e.votes
                      /\ e.votes <= Cardinality({id \in report.participants :
                                        Asserts(id, report.epoch, <<e.ip_prefix, e.asn>>)})

(***************************************************************************)
(* Once a run of the program holds its consensus for written, its two      *)
(* files are both its own and agree, whatever crash cut an earlier run     *)
(* short between the two writes.                                           *)
(***************************************************************************)
WrittenFilesAgree ==
    \A n \in Node :
        consensus_written[n] =>
            /\ IsReadable(report_file[n])
            /\ report_file[n].local_peer_id = local_peer_id(n)
            /\ map_file[n] = MapFrom(report_file[n].entries)

(***************************************************************************)
(* One run writes one report per epoch and never goes back to an earlier   *)
(* epoch: a report, once it is there, is not changed by late claims.       *)
(***************************************************************************)
OneReportPerEpoch ==
    [][\A n \in Node :
          LET old == report_file[n]
              new == report_file'[n]
          IN  IsReadable(old) /\ IsReadable(new) /\ new # old
                /\ new.local_peer_id = old.local_peer_id
              => new.epoch > old.epoch]_vars

(***************************************************************************)
(* What the README says serve does: at quorum the consensus of the epoch   *)
(* is in the files.                                                        *)
(***************************************************************************)
QuorumIsWritten ==
    \A n \in Node :
        phase[n] = "loop" /\ QuorumReached(engine[n]) =>
            IsReadable(report_file[n]) /\ report_file[n].epoch = engine[n].epoch

(***************************************************************************)
(* However the timers drift apart, linked nodes that stay up come to the   *)
(* same epoch, the laggard led by the other's claim, and end up counting   *)
(* each other, as long as no epoch is past the skew.                       *)
(***************************************************************************)
Counts(m, n) ==
    engine[m].epoch = engine[n].epoch /\ local_peer_id(n) \in engine[m].seen_senders

LinkedNodesCountEachOther ==
    <>[](\A m, n \in Node :
             <<m, n>> \in Link => phase[m] = "down" \/ phase[n] = "down" \/ Counts(m, n))

=============================================================================
