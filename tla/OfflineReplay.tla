--------------------------- MODULE OfflineReplay ---------------------------
(***************************************************************************)
(* One run of `replay` on a claims file: run_replay, from the choice of    *)
(* the starting epoch to the exit status, with the file writes that may    *)
(* fail on the way, and `verify` on what it leaves behind.                 *)
(***************************************************************************)
EXTENDS ClaimEngine, QuorumTally

LOCAL INSTANCE Functions

Seqs == INSTANCE SequencesExt

CONSTANTS
    ClaimsFile,    \* the sequences of claims a claims file may hold
    EpochOption,   \* what --epoch may be, NoEpoch if it is not given
    NoEpoch,
    EarlierFiles,  \* what earlier runs may have left: [map, report]
    NoFile,        \* nothing at that path
    Truncated      \* created or half written, not readable as what it should be

ASSUME OptionAssumption == EpochOption \subseteq Nat \cup {NoEpoch}

(* The file is read line by line into Vec<Claim>; epoch is a u64, and the
   malformed text is no digest. *)
ASSUME ClaimsFileAssumption ==
    \A file \in ClaimsFile :
        /\ file \in Seq({file[i] : i \in DOMAIN file})
        /\ \A i \in DOMAIN file :
              LET claim == file[i]
              IN  /\ claim.epoch \in Epoch
                  /\ IsEntryList(claim.entries)
                  /\ ClaimHash(claim.epoch, claim.sender_id, claim.entries) # MalformedHash

ConsensusReport ==
    [epoch : Epoch, participants : SUBSET PeerId, accepted_claims : Nat,
     rejected_claims : [Reason -> Nat],
     entries : Seq([ip_prefix : Prefix, asn : Asn, votes : Nat])]

(* What is not there or was cut short does not parse as a report. *)
ASSUME FileAssumption == NoFile \notin ConsensusReport /\ Truncated \notin ConsensusReport

VARIABLES
    claims,       \* the file
    option,       \* --epoch
    earlier,      \* what was at --output and --report before the run
    next,         \* index of the claim to process next
    engine,
    artifact,     \* ConsensusArtifact, once finalize has run
    phase,        \* "start", "claims", "save_map", "save_report", "check", "exit"
    status,       \* exit status: "none" while running, "success" or "failure"
    map_file,     \* what is at --output
    report_file   \* what is at --report

vars ==
    <<claims, option, earlier, next, engine, artifact, phase, status, map_file, report_file>>

(***************************************************************************)
(* ASMap::update_multi: entries are applied shorter path first, equal      *)
(* lengths in the order given, so the last entry on a path decides.        *)
(***************************************************************************)
MapOf(entries) ==
    LET path(i) == IpToBits(entries[i].ip_prefix)
        last(p) == CHOOSE i \in DOMAIN entries :
                       path(i) = p /\ \A j \in DOMAIN entries : path(j) = p => j <= i
    IN  [p \in {path(i) : i \in DOMAIN entries} |-> entries[last(p)].asn]

(***************************************************************************)
(* finalize builds the map in the order the HashMap yields the winners and *)
(* lists them in the report by votes; order stands for the one, listing    *)
(* for the other, where the text order among equal votes is not modelled.  *)
(***************************************************************************)
Artifact(eng, order, listing) ==
    [epoch           |-> eng.epoch,
     participants    |-> eng.seen_senders,
     accepted_claims |-> eng.accepted_claims,
     rejected_claims |-> eng.rejected_claims,
     entries         |-> listing,
     map             |-> MapOf(order)]

ByVotes(entries) ==
    \A i, j \in DOMAIN entries : i < j => entries[i].votes >= entries[j].votes

(* ConsensusReport: everything but the map. *)
ReportOf(a) == [field \in DOMAIN a \ {"map"} |-> a[field]]

(* Mutant: the report is held against itself alone. *)
VerifiesReportAlone(report, map) == report \notin {NoFile, Truncated}

(***************************************************************************)
(* verify_report: the report's own map is rebuilt from its entries, so     *)
(* only the map file can disagree with them.                               *)
(***************************************************************************)
Verifies(report, map) ==
    /\ report \notin {NoFile, Truncated}
    /\ map = MapOf(report.entries)

Idle == EmptyRound(0, EPOCH_ABSOLUTE_MAX)

NoArtifact == Artifact(Idle, << >>, << >>)

Init ==
    /\ claims \in ClaimsFile
    /\ option \in EpochOption
    /\ next = 1
    /\ engine = Idle
    /\ artifact = NoArtifact
    /\ phase = "start"
    /\ status = "none"
    /\ earlier \in EarlierFiles
    /\ map_file = earlier.map
    /\ report_file = earlier.report

(* Mutant: a failure is noted but does not end the run. *)
NoteFailure(s) ==
    /\ status' = s
    /\ UNCHANGED phase

Exit(s) ==
    /\ phase' = "exit"
    /\ status' = s

StartingEpoch == IF option # NoEpoch THEN option ELSE claims[1].epoch

Replayable == claims # << >> /\ StartingEpoch <= EPOCH_ABSOLUTE_MAX

RefuseToReplay ==
    /\ phase = "start"
    /\ ~Replayable
    /\ Exit("failure")
    /\ UNCHANGED <<claims, option, earlier, next, engine, artifact, map_file, report_file>>

(* Mutant: the starting epoch is not held to the ceiling. *)
StartReplayAnywhere ==
    /\ phase = "start"
    /\ claims # << >>
    /\ engine' = WithLimits(StartingEpoch, EPOCH_ABSOLUTE_MAX)
    /\ phase' = "claims"
    /\ UNCHANGED <<claims, option, earlier, next, artifact, status, map_file, report_file>>

StartReplay ==
    /\ phase = "start"
    /\ Replayable
    /\ engine' = WithLimits(StartingEpoch, EPOCH_ABSOLUTE_MAX)
    /\ phase' = "claims"
    /\ UNCHANGED <<claims, option, earlier, next, artifact, status, map_file, report_file>>

ReplayClaim ==
    /\ phase = "claims"
    /\ next <= Len(claims)
    /\ engine' = ProcessClaim(engine, claims[next])
    /\ next' = next + 1
    /\ UNCHANGED <<claims, option, earlier, artifact, phase, status, map_file, report_file>>

FinalizeReplay ==
    /\ phase = "claims"
    /\ next > Len(claims)
    /\ \E order, listing \in Seqs!SetToSeqs(FinalEntries(engine.votes, Threshold)) :
          /\ ByVotes(listing)
          /\ artifact' = Artifact(engine, order, listing)
    /\ phase' = "save_map"
    /\ UNCHANGED <<claims, option, earlier, next, engine, status, map_file, report_file>>

(* open_output and save_binary; a failure before the file is created or after. *)
SaveMap ==
    /\ phase = "save_map"
    /\ \/ /\ map_file' = artifact.map
          /\ phase' = "save_report"
          /\ UNCHANGED status
       \/ /\ map_file' \in {map_file, Truncated}
          /\ Exit("failure")
    /\ UNCHANGED <<claims, option, earlier, next, engine, artifact, report_file>>

SaveReport ==
    /\ phase = "save_report"
    /\ \/ /\ report_file' = ReportOf(artifact)
          /\ phase' = "check"
          /\ UNCHANGED status
       \/ /\ report_file' \in {report_file, Truncated}
          /\ Exit("failure")
    /\ UNCHANGED <<claims, option, earlier, next, engine, artifact, map_file>>

CheckNotEmpty ==
    /\ phase = "check"
    /\ Exit(IF artifact.entries = << >> THEN "failure" ELSE "success")
    /\ UNCHANGED <<claims, option, earlier, next, engine, artifact, map_file, report_file>>

Next ==
    \/ RefuseToReplay
    \/ StartReplay
    \/ ReplayClaim
    \/ FinalizeReplay
    \/ SaveMap
    \/ SaveReport
    \/ CheckNotEmpty

Spec == Init /\ [][Next]_vars

---------------------------------------------------------------------------

TypeOK ==
    /\ next \in 1 .. Len(claims) + 1
    /\ engine.epoch \in Epoch /\ engine.max_epoch \in Epoch
    /\ engine.seen_senders \subseteq PeerId
    /\ engine.rejected_claims \in [Reason -> Nat]
    /\ status \in {"none", "success", "failure"}
    /\ status # "none" <=> phase = "exit"

(* A claim that is good in itself, whatever the engine is at. *)
IsGood(claim) ==
    /\ claim.sender_id \in PeerId
    /\ claim.claim_hash = ClaimHash(claim.epoch, claim.sender_id, claim.entries)
    /\ Len(claim.entries) \in MIN_CLAIM_ENTRIES .. MAX_CLAIM_ENTRIES
    /\ claim.epoch <= EPOCH_ABSOLUTE_MAX
    /\ EntriesViolation(claim.entries) = Ok

GoodBackers(key, epoch) ==
    {claims[i].sender_id : i \in {n \in DOMAIN claims :
        IsGood(claims[n]) /\ claims[n].epoch = epoch /\ key \in VoteKeys(claims[n].entries)}}

(***************************************************************************)
(* A run that reports success has written a report that is not empty, and  *)
(* every entry of it has, in the file, at least threshold different        *)
(* senders with a good claim for that entry and for the report's own epoch:*)
(* nothing of an earlier round, of a repeated sender or of a rejected      *)
(* claim is in the count.                                                  *)
(***************************************************************************)
PublishedEntriesAreBacked ==
    status = "success" =>
        /\ report_file.entries # << >>
        /\ \A i \in DOMAIN report_file.entries :
              LET e == report_file.entries[i]
                  backers == GoodBackers(<<e.ip_prefix, e.asn>>, report_file.epoch)
              IN  /\ Threshold <= e.votes
                  /\ e.votes <= Cardinality(backers)
                  /\ e.votes <= Cardinality(report_file.participants)

(***************************************************************************)
(* Whatever pair of files a run leaves that got as far as writing both,    *)
(* `verify` accepts it: the tool can verify a report it just wrote.  That  *)
(* is so only because no two entries share a trie path, since the map is   *)
(* built in HashMap order and rebuilt in report order.                     *)
(***************************************************************************)
VerifyAcceptsOutput ==
    phase = "check" \/ status = "success" => Verifies(report_file, map_file)

(***************************************************************************)
(* No claims file, and no --epoch, takes a replay to an epoch above the    *)
(* absolute maximum, where every honest claim would be stale.              *)
(***************************************************************************)
EpochStaysReal == engine.epoch <= EPOCH_ABSOLUTE_MAX

(***************************************************************************)
(* The files of a run that failed, at whichever write or for an empty      *)
(* consensus, pass for a result only if they are the ones that were there: *)
(* what `verify` accepts is then the earlier pair, untouched or, if it was *)
(* torn before, made whole again, or a report without entries.  A new map  *)
(* beside the earlier report is refused.                                   *)
(***************************************************************************)
FailedReplayIsVisible ==
    status = "failure" /\ Verifies(report_file, map_file) =>
        \/ report_file.entries = << >>
        \/ /\ report_file = earlier.report
           /\ Verifies(earlier.report, earlier.map) => map_file = earlier.map

LeadsOn(claim, epoch) ==
    IsGood(claim) /\ epoch < claim.epoch /\ claim.epoch <= epoch + MAX_EPOCH_SKEW

(* The epoch the good claims of a file lead to, read up to each of them: a
   later one is followed as far as the skew reaches and no further. *)
EpochReached(file, start) ==
    LET reached[n \in 0 .. Len(file)] ==
            IF n = 0 THEN start
            ELSE IF LeadsOn(file[n], reached[n - 1]) THEN file[n].epoch
            ELSE reached[n - 1]
    IN  reached

(* Those with a good claim for epoch among the first n that did not stand too
   early in the file, where the epoch was not yet in reach. *)
VotersInReach(file, reached, n, epoch) ==
    {file[i].sender_id : i \in {m \in 1 .. n :
        /\ IsGood(file[m]) /\ file[m].epoch = epoch
        /\ epoch <= reached[m - 1] + MAX_EPOCH_SKEW}}

(***************************************************************************)
(* The round a replay reports on is the one its file leads to, and it is   *)
(* complete: every sender with a good claim for it is a participant, in    *)
(* whatever order the file has the claims, unless there are more of them   *)
(* than max_senders.  The order costs a claim its vote in one case only,   *)
(* when it stands before the claims that bring its epoch within the skew.  *)
(***************************************************************************)
RoundIsComplete ==
    phase = "save_map" =>
        \A reached \in {EpochReached(claims, StartingEpoch)} :
        \A voters \in {VotersInReach(claims, reached, Len(claims), artifact.epoch)} :
            /\ artifact.epoch = reached[Len(claims)]
            /\ Cardinality(voters) <= MaxSenders => artifact.participants = voters

(***************************************************************************)
(* What the comment on count_rejection says: accepted claims and rejected  *)
(* claims add up to the claims processed.                                  *)
(***************************************************************************)
LedgerCoversFile ==
    phase = "check" =>
        report_file.accepted_claims
          + FoldFunction(LAMBDA m, n : m + n, 0, report_file.rejected_claims) = Len(claims)

(***************************************************************************)
(* What the operator guide says of the state `replayed`: the report is for *)
(* the agreed epoch.                                                       *)
(***************************************************************************)
ReplayedAtAgreedEpoch ==
    status = "success" /\ option # NoEpoch => report_file.epoch = option

=============================================================================
