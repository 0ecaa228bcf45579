# TLA+ models and proofs for bitcoin-asmap-quorum

`bitcoin-asmap-quorum` lets independent operators agree on an ASMap, the file
with which a Bitcoin node groups peers by autonomous system. Every operator
publishes a *claim* (epoch, peer id, hash, prefix-to-ASN entries); an engine
votes over the claims, and what at least `threshold` senders assert becomes the
consensus map and its report. This directory holds TLA+ modules for the parts of
the program that decide what is published, TLC configurations that check them on
small instances, and TLAPS proofs for every value of the constants. Beside the vote
itself it models the two ends of it: how a collector's routing tables become a claim,
and how a map is kept, written and read.

`lib.rs` below is `crates/bitcoin-asmap-quorum/src/lib.rs`; `codec/` is
`crates/asmap-codec/src/`. `PROJECT.json` gives the source lines of every
definition and the code line of every hazard.

## 1. Inventory

| Component | State | Operations | Where | Model |
|---|---|---|---|---|
| Prefix canonicalization, trie paths | none | `canonical_consensus_prefix`, `ip_to_bits` | lib.rs, codec/net.rs | NetworkPrefix |
| Entry validation (Gate 6) | a map of paths while it runs | `validated_vote_keys` | lib.rs | EntryGate, GateSixLoop |
| Quorum engine | epoch, `max_epoch` ceiling, `seen_senders`, `votes`, ledger (`accepted_claims`, `rejected_claims`, `observations`) | `new`, `with_limits`, `process_claim[_from_peer]`, `record_oversize_claim`, `record_malformed_claim`, `advance_epoch`, `quorum_reached` | lib.rs | ClaimEngine, QuorumEngine, QuorumRound |
| finalize | the best candidate per prefix while it runs | `finalize` | lib.rs | QuorumTally, FinalizeLoop |
| Offline replay, verify | engine, two output files, exit status | `run_replay`, `verify_report` | lib.rs | OfflineReplay |
| serve and collect loops | engine, local claim, `consensus_written`, two files, peer identity | publish, epoch and refresh timers, gossip message, writes, restart | lib.rs | ServeMesh |
| Collector assignment | the peers mdns has shown | `assigned_collectors` | lib.rs | CollectorShares |
| RIS bottleneck | the AS paths of each prefix | `AsPathParser`, `parse_mrt`, `find_common_suffix`, `find_as_bottleneck`, `to_asmap` | lib.rs | RisBottleneck, RisCollect |
| ASMap trie | the trie | `update`, `update_multi`, `lookup`, `extends`, `diff`, `to_entries`, `to_binary`, `from_binary` | codec/trie.rs | AsmapTrie, AsmapUpdates, AsmapEntries, AsmapBinary, AsmapCodec, AsmapFile |
| Variable-length coder | none | `encode`, `decode`, `encode_size` | codec/coder.rs | VarLenCoder, AsmapBinary |
| File loading | none | `load_file`, `save_text`, `save_binary` | codec/io.rs | AsmapBinary, AsmapFile, AsmapCodec |
| import, compare, encode, decode, diff, diff_addrs | none between calls | `asmap_to_claim`, `run_diff`, `run_diff_addrs` | lib.rs | AsmapCodec and AsmapFile, in part |
| Release scripts | state log, data directory, `latest_asmap.dat`, attestations | the phases draft to published | scripts/ | not modelled |
| download, CLI parsing, nostr, test generator, Python reference | none between calls | single passes | several | not modelled |

How they interact: gossip hands payloads to `quorum_from_gossip`, which refuses
an oversize or unparsable one in the ledger and passes the rest to the engine
with the neighbour that delivered it. The engine calls Gate 6 for the entries,
Gate 6 canonicalizes prefixes. When a claim is accepted, the quorum is reached and
`consensus_written` is clear, the loop calls `finalize`, writes the map and the
report beside it, and sets the flag. `replay` feeds a claims file to the same
engine, with each claim's own sender as its source, and writes the same two files;
`verify` rebuilds the map from the report. The release scripts chain replay,
verify, publication and attestation. `collect` shares the RIS collectors out among the
peers mdns shows it, reads the tables of its share, and claims the bottleneck of each
prefix's AS paths; `serve` claims a map that `load_file` has read. Claims, consensus
maps and files are all made from the same trie.

What is hard here: two nodes see the same claims in different orders and over
different neighbours; epochs move both by timer and by claim; a collect node
refreshes its map inside an epoch; winners are found over a `HashMap`; a node may
end between its two file writes and come back under a new identity; the epoch
ceiling is a ratchet bounded by an absolute maximum and by the u64 width; and one
network has several spellings (host bits, IPv4 in IPv6 notation). Collect nodes divide
work by what each one believes of the others; tables may be cut short; the binary form
is planned by a search over contexts and read back by jumps that must fit it to the bit;
and a file has to be told from a text by its bytes alone. The list
with lines is under `hazards` in `PROJECT.json`.

What makes each component correct:
* Gate 6: one claim votes at most once for a stretch of addresses, however spelled.
* Engine: the vote map is the count of the ballots of this epoch; a sender counts
  once; a rejection changes nothing but the ledger; a counted ballot is lost only to a
  later epoch; the ceiling neither locks honest claims out nor runs away.
* finalize: the result does not depend on iteration order.
* Replay: what is published has its backing in the file, and verify accepts it; no voter in reach
  is left out; what a failed run leaves behind does not pass for a result.
* Loops: nodes do not publish contradictory maps unless some identity equivocates;
  files agree with each other and are written once an epoch; linked nodes count each
  other in the end.
* Collectors: nodes of one view share them without overlap (those the list is too short for read
  them all), and in the end each is read.
* Bottleneck: the AS that all paths to the elected origin go through, for the longest
  prefix, and no AS the whole tables would contradict when they are cut.
* Codec: equal maps are equal tries; a map survives both of its written forms; the planned
  sizes are the written ones; a file that was cut off assigns nothing; a diff is exact.

## 2. Modules

```
NetworkPrefix <- EntryGate <- ClaimEngine <- EngineBallots <- QuorumEngine  -- refines --> QuorumRound
                     |             ^                              (+ QuorumTally)
                GateSixLoop        +------ OfflineReplay, ServeMesh (+ QuorumTally)
QuorumTally <- FinalizeLoop

NetworkPrefix <- AsmapTrie <- AsmapUpdates, AsmapEntries <- AsmapCodec  (+ EntryGate, VarLenCoder)
                     |                      AsmapEntries <- AsmapBinary (+ VarLenCoder)
                     |         AsmapCodec, AsmapBinary   <- AsmapFile
                     +------- RisBottleneck              <- RisCollect  (+ CollectorShares)

PathProofs <- ClaimEngineProofs <- QuorumEngineProofs, OfflineReplayProofs, ServeMeshProofs
PathProofs <- EngineLoopsProofs, AsmapProofs, RisProofs
```

`<-` points to the module that is extended.

* **NetworkPrefix.** Prefixes as bit sequences over address widths `V4Bits` and
  `MappedBits + V4Bits`. `IpToBits` gives IPv4 the path under `MappedRange` (`::ffff/96` in
  the code). `CanonicalPrefix` clears host bits. Prefixes are records, not text; a text that
  does not parse is any value outside `Network`.
* **EntryGate.** `EntriesViolation` is the reason of the first bad entry or `Ok`;
  `VoteKeys` are the (canonical prefix, ASN) pairs a claim that passes votes for.
* **GateSixLoop.** The same as the loop in the code: entry by entry, with its early returns,
  the conflict table and the skipped repeats.
* **ClaimEngine.** The engine as a record, each method an operator on it, with the gates in
  the code's order: shape with the absolute epoch maximum (1), source (2), hash (3), epoch range
  (4, 5), entries (6), adoption (7), sender (8), tally (9). `claim_hash` is taken to be collision-free.
* **QuorumTally.** `FinalEntries`: the candidates with enough votes that beat every rival on
  their prefix. **FinalizeLoop** takes the keys of the map one at a time in any order.
* **EngineBallots.** The types of the engine's fields, and the ballots that its vote map counts:
  a history the code does not keep, shared by QuorumEngine and the proofs about every module that runs an engine.
* **QuorumEngine.** The state machine: `RejectClaim`, `JoinRound`, `OpenLaterRound` split
  `process_claim_from_peer` by outcome, and `RecordOversizeClaim`, `RecordMalformedClaim`,
  `EpochTimer` are the other callers. `ballots` and `processed` are history variables.
* **QuorumRound.** The abstract specification: one ballot per peer and round, no network twice
  on a ballot, an outcome that the ballots elect, and no ballot lost but to a later epoch. It
  has no gates, counters or ledger.
* **OfflineReplay.** `run_replay` step by step: starting epoch and refusal, the claims in
  order, finalize with every iteration order of the winners, the two writes that may each fail
  before or after the file is created, and the exit status. The run starts over the files that
  earlier ones left (`EarlierFiles`, kept in the history variable `earlier`): none, a pair, or a torn one.
* **ServeMesh.** Nodes with one engine each. One `select!` arm runs to its end before the
  next, so a handler is one step; only the two file writes are steps of their own. A collect
  node's fetch is awaited inside its arm and is part of that step.
* **VarLenCoder.** The four integer codes of the binary form with the code's class sizes,
  on bits. ASNs and jumps have their full width; the match coder has `MATCH_CLASSES`
  classes (8 in the code). `EncodeSize` is separate from `Encode`, as in the code. `1 << b` and
  `v >> b` are the recursive functions `Room` and `ShiftRight`; `MaxVal` is the code's `maxval`.
* **AsmapTrie.** The trie as nested pairs, with `update`, `update_multi` (the stable sort by
  length, then one update after another) and `lookup` of trie.rs as recursive functions, and the reference:
  `AssignedBy`, what a list of entries gives an address, and `TrieOf`, the one trie without mergeable leaves for given ASNs.
* **AsmapUpdates.** One map as the state, built up by any sequence of `update_multi` calls,
  with the addresses' ASNs as a history variable.
* **AsmapEntries.** `extends`, `diff` and the two forms of `to_entries`. The code walks the trie with the path so
  far in a vector; here each walk is a function of the path (`NodeAt` is the node there), which is the same
  recursion and can be reasoned about. The search for the
  shortest form is written once (`BranchContexts`, `Keep`, `AtRoot`) and used for overlapping
  entries (`EntryContexts`) and for the binary nodes (`BinContexts`) of **AsmapBinary**, which adds writing, reading, the
  checks of `from_binary` and `load_file` on files without an entry line. A `BinNode` there is the list of its instructions in
  the order in which the file has them, each with the size of the node that it begins; `End` is the empty list. The recursion of
  `from_binary` is a function of the bit position (`Decoded`), that of `from_binnode` one of the instruction (`Walk`).
* **AsmapCodec.** Text lines, claims and diffs of the map of AsmapUpdates. It
  extends EntryGate, so a node's own claim meets the Gate 6 it will be checked by. **AsmapFile** has the properties of
  the binary file of that map, whole and cut off.
* **RisBottleneck.** Records of a table to paths, paths to a bottleneck, bottlenecks to a
  map; attributes are records, not bytes.
* **CollectorShares.** Peers that start (collecting or only serving), are discovered, expire
  and stop; each collecting node's view, its share and what it has read of it. `EveryNth` is the
  filter of `assigned_collectors` written out; an assumption of MCRisCollect compares the two on
  lists of up to seven. **RisCollect** adds the map a node makes of its reading. Gossip is left to
  ServeMesh, where a collect node's map is any of `Readings`; RisCollect says which maps those are.
* **MCEngineLoops** runs GateSixLoop and FinalizeLoop side by side in one instance, which is
  why the operators of FinalizeLoop have names of their own (`FinalizeInit`, `FinalizeNext`, ...).

### Assumptions on the constants

Each module names what it needs. `WidthAssumption`, `MappedRangeAssumption`,
`AsnAssumption`, `LimitAssumption` give the widths and limits their types and say that the
absolute epoch maximum fits the u64 and that ASN 0, which means "unassigned", is no legal ASN; the
limits may otherwise be anything, zero included. The mapped range is not all of IPv6 (`MappedBits` is 96 in the code,
never 0). `MatchAssumption` gives the match coder a class at least; `CodecAsnAssumption` says that the ASNs of the codec are those its coder has
classes for (1 and 33,521,664, in the code and in the runs). `EntryListsAssumption` says that a map is updated with lists of paths and numbers, `OtherMapsAssumption` that the maps it is compared
with were built up in the same way. `ClaimAssumption` and `ClaimsFileAssumption` say that
an epoch is a u64 and the entries are a list, which deserialization gives, and that the model
value for a malformed digest is not the digest of anything. `FileAssumption` says that a missing or truncated
file does not parse as a report (serde refuses it); nothing is assumed of the files earlier runs left. `MeshAssumption` asks for finitely many
nodes, symmetric links, no node linked to itself, and epochs that start inside u64; it says nothing of the number of nodes or of
the threshold. `CollectAssumption` takes peer ids as their ranks in the order of the ids.
`DumpAssumption` says that a table is a list of records with parsed prefixes and attributes.

### What the models leave out

* In ServeMesh the ledger is cleared after each message (`WithoutLedger`): no loop reads it.
* `sent` holds every claim ever published. Delivery picks any of them, any number of times, in
  any order, over any neighbour, so loss, repetition, delay and reordering are all included,
  and forwarded copies arrive with the forwarder as `propagation_source`.
* A publish that fails (its result is ignored at lib.rs:1829) is a publish that is not taken.
* identify, relay and DCUtR events, and mdns in ServeMesh, only change who is linked;
  `Link` is fixed in a run.
* In CollectorShares all nodes have the same `--collectors` list. Rank is by peer id; ids are
  numbers in that order. A refresh that fails leaves everything as it is, so it is not a step.
* An AS_PATH attribute is its list of segments: a length of zero, whose parser would read on
  into the next attribute, and other broken bytes are left out. IPv6 records inside the mapped
  range, which would share a trie path with an IPv4 record, are not among the tables.
* `load_file` is modelled for files in which no line is an entry (what `save_binary` writes, and
  beginnings of it); reading entry lines back is `ParsedLines`. UTF-8 above ASCII is left out.
* Each start of the program makes a new libp2p key (lib.rs:818), so a peer id is a pair of
  node and number of earlier starts.

## 3. Runs

| Run | Shows | Bounds and why they suffice |
|---|---|---|
| engine_round | tally, participants, one assertion per network, distinct paths, ledger and log, refinement of QuorumRound | three senders, every kind of entry violation, two epochs, four payloads a round, threshold 2, `max_senders` 2 and log cap 1: with four payloads the round fills, a third sender is refused and the rejections overflow the log |
| engine_epochs | epoch ceiling, harmless rejections, ballots lost only to a later epoch | every epoch 0..6 with the absolute maximum at 4 and u64 at 6, starts inside and above the range, `threshold` and `max_senders` configured to 0 |
| engine_loops | the loop of Gate 6 computes the verdict or the vote keys; the loop of finalize computes the elected entries in every order | every claim of up to three entries over all short prefixes, unassigned and out-of-range ASNs, text that does not parse; two networks, three ASNs, up to three votes each: ties above and below the threshold of 2 |
| offline_replay | backed output, verify accepts it, a failed run leaves nothing that passes for a result, epochs stay real, no voter in reach left out | files of up to three claims by three senders, `--epoch` absent, below, at and above the range, failing writes, over no files, a pair of an earlier run and a torn pair; a claim for epoch 2 stands before or behind one for epoch 1 that brings it within the skew of 1 |
| replay_ledger | *violated*: the ledger covers the file | as offline_replay |
| replay_agreed_epoch | *violated*: `--epoch` is the report's epoch | as offline_replay |
| mesh | no contradiction without equivocation; reports count neighbours' claims only | two serve nodes and a collect node, all linked, threshold 2, two epochs, refreshes; only the collect node's timer fires, the others follow by adoption |
| mesh_crash | files agree, one report an epoch, linked nodes count each other | a serve node that may end anywhere and start once more, a collect node, threshold 1, both timers |
| mesh_stale_flag | *violated*: quorum is written | as mesh_crash without crashes |
| codec | canonical tries, planned sizes, both round trips, fewest lines, cut files, own claim, exact diffs | every map on 3-bit addresses with 0 and the smallest ASN, the largest outside the one bit of IPv4, and one too large, in every order of building it; tries are deep enough for a match that is merged, one that may not be, a jump, a default, and defaults in defaults |
| codec_comment | *violated*: encode then decode | as codec, with AS2441 |
| collect | claims follow the longest prefix, cut tables stay upstream, one view shares all collectors, every collector is read | two collecting nodes with a serving one between them in rank, three collectors, lists of one (fewer than collecting nodes) and three and one that names a collector twice, one cut or failed reading or false expiry |

Ties between ASNs with a quorum each need four voters at threshold 2, one more than
engine_round has: FinalizeLoop checks them, and the refinement theorem covers them for any
number of senders. Epoch adoption by a claim and by the timer both occur in engine_round,
engine_epochs and both mesh runs. Symmetry is used over peers (or the two serve nodes) in runs
without liveness only. Deadlock checking is off where the program ends (replay, the loops) or
where every timer may have reached its bound (the mesh) or every node has stopped (collect).

Bounds by name: `MaxProcessed` (payloads a round), `MaxVotes`, `MaxEntries`, `MATCH_CLASSES` (2: a match of three bits
no longer fits one instruction, as nine bits do not in the code), `EntryLists` and `OtherMaps` (what a map
is updated with and compared with), `EarlierFiles` (what was at the output paths), `Dump`, `Lists`, `Cuts` and `MaxFaults` (tables, collector lists, where a
table is cut, readings or expiries that go wrong), `LastEpoch` (the
last epoch a mesh timer opens), `MaxStarts` (restarts of a node), `Ticking` and `Failing` (nodes
whose timer fires, nodes that may fail), `StartMaps` (maps at the start).

### Fairness

`mesh_crash` has a liveness property under `FairSpec`: weak fairness of the
publish timer, of the two file writes, and of a directly delivered message from each linked
peer that carries its current claim. The code justifies it: the publish timer ticks every
five seconds as long as the loop runs, every publish is a new gossip message (so deduplication
does not suppress it for good), the local claim is stamped with the engine's epoch at each tick,
and a handler that has begun to write either ends or takes the process down. Nothing is assumed
of the epoch timer, of crashes or of restarts. The property assumes that the claim
fits into `MAX_CLAIM_BYTES`; for a full map it does not, and then such a node never votes.

`collect` has one (`EveryCollectorIsRead`) under weak fairness of a running node's refresh
(its timers tick as long as the loop runs), of the discovery of running peers and of the expiry
of those that do not run (mdns announces and expires periodically). No peer need ever start, any
may stop at any time, and cut readings and false expiries are bounded by `MaxFaults`, so that the
property says: once they cease, all is read. It leaves out the shares of peers that run
`serve`: they take a rank, and no one reads for them. That is a fact of the code no document speaks
about, so it is stated in the property and not as a finding.

## 4. Disagreements found

* `replay_ledger`: docs/CLAIM-VALIDATION.md:199 and the comment on `count_rejection`
  (lib.rs:1070) say that accepted plus rejected claims equal the claims processed. A claim
  accepted for a later epoch clears both counters first. Within a round the equation does hold
  (`LedgerReconciles`).
* `replay_agreed_epoch`: docs/OPERATOR_GUIDE.md:108 says that replay produces the report for
  the agreed epoch. `--epoch` is only where the engine starts; a claim of the file for a
  later epoch within the skew moves it on and drops the agreed round.
* `mesh_stale_flag`: `consensus_written` is cleared by the epoch timer only. A node that has
  written its files and then adopts a later epoch from a claim reaches quorum there and writes
  nothing. docs/CLAIM-VALIDATION.md:588 names it as a known bug.
* `codec_comment`: `load_file` refuses a file that reads as text and as binary. The map whose
  only entry is `::/0 AS2441` is encoded as the bytes `20 23 00`, which are a blank and a comment
  as text, so `decode` does not read what `encode` wrote. .github/copilot-instructions.md:27 wants that
  round trip. The refusal itself is deliberate (tests/negative_codec.rs pins it).

## 5. Proofs

Every safety invariant and action property that a passing run checks is also a theorem. Each holds for all constants that satisfy the
named assumptions: any number of peers, nodes, claims and entries, any address width, limit and threshold.

### Gate 6

`PathProofs`: the vote keys of a claim that passes have pairwise distinct trie paths
(`VoteKeysDistinct`). It rests on `ClearPathsInjective`: two prefixes that neither touch the mapped
range nor have host bits and share a path are equal.

`EngineLoopsProofs`: the loop with its early returns is that definition (`LoopIsDefinition`, `DistinctPaths`),
for claims of every length. The runs check `LoopComputesVoteKeys` as it stands; it is not inductive alone, since it
does not say what the conflict table holds. `SeenIsRead` does: while no verdict has been reached, the table has exactly the
canonical prefixes read so far, each with the ASN of every entry that spells it.

### finalize

Also in `EngineLoopsProofs`: whatever the order of the keys, the loop holds at every point the entries
elected among the keys it has visited (`BestIsElected`), and so at its end those elected among all. The invariant says that what the table holds for a prefix beats every visited
rival there, and that a prefix is missing only if none of its visited keys has enough votes; the
comparison of counts and ASNs is a strict total order, so that the leader of two is a leader of all.
`ClaimEngineProofs` adds what is true of `FinalEntries` from any vote map: one winner at most for a prefix
(`OneWinnerPerPrefix`), and one for each prefix that has a quorum (`EveryQuorumElects`), ties included.

### The engine

`ClaimEngineProofs` has the lemmas that every module with an engine uses. Its centre is
`GoodRound(eng, bs)`: types, the vote map is the tally of the ballots `bs`, the senders are the
voters and no more than the cap, each ballot asserts a network once, the ceiling lies between the
epoch and the absolute maximum, and the log (`GoodLog`) has a line for every acceptance of the round.
One lemma for each outcome of `process_claim_from_peer` says that it keeps a round good: `RejectedIsGood`,
`JoinedIsGood`, `OpenedIsGood`; `AdvancedIsGood` and `NewIsGood` do so for the timer and the
constructor. The parts need each other: the tally is kept only because a sender that votes has not voted
before, which is the part about senders; the elected paths are distinct only because every key of the
vote map is on some ballot, which is the tally; a rejection after Gate 7 is harmless only because a
claim that opened a round finds it empty and the cap is at least one (`AdoptedClaimIsNotRefused`).

`QuorumEngineProofs` proves the invariant `IInv`, which is `GoodRound` and a ledger that adds
up, and from it `TypeCorrect`, `TallyCorrect`, `ParticipantsCorrect`, `OneAssertion`, `CeilingCorrect`,
`DistinctPaths`, `LogIsComplete`, `LedgerBalances`, the action properties `RejectionIsHarmless` and
`BallotsAreKept`, and `Refinement`: `Spec => ImplementsRound`, with the engine's epoch, the history
`ballots`, `seen_senders` and `FinalEntries` for the abstract variables.

`LedgerReconciles` sums a record with a fold, and no induction theorem with an operator as its
parameter can be used here. `TotalIsCardinality` goes round it: the sum is the size of a set
of pairs (`Countings`), which the recursive function behind the fold is shown to be by its smallest
counterexample (`LeastElement`, from the well-foundedness of `<`).

### Replay

`OfflineReplayProofs`, for every file of every length. The invariant: the engine is a good
round whose ballots are those of good claims among the ones read (`FromFile`); it is at the epoch that the claims
read lead to (`EpochReached`), no prefix of them led further, and those with a claim for it that was in reach of the skew when it
was read have all been counted unless there are more of them than the cap (`NoneLost`); each file holds what the artifact says once
it has been written (`Saved`), and until then, or after a failure, what `Kept` says. `NoneLost` needs both halves: that no claim led further is why a later adoption loses
nobody of its own epoch. The order of the file costs a claim its vote only as `VotersInReach` says: when it stands before the claims that
bring its epoch within the skew. From these: `EpochIsReal`, `EntriesAreBacked`, `RoundComplete`, `VerifyAccepts`, which
also needs that the winners' paths are distinct, for otherwise the order in which the map
is rebuilt would matter, and `FailureIsVisible`: a failed run has written no report, or one without entries, and the
earlier report fits no other map than its own.

### The mesh

`ServeMeshProofs`, for any number of nodes, links, starts and epochs up to the bound
`LastEpoch` (at which the timers stop, so the tick that saturates at u64::MAX is left to engine_epochs
and `BallotsAreKept`). `LedgerIsNotRead` justifies `WithoutLedger`: engines that
differ in their ledgers alone decide alike and stay alike. The invariant: every node's engine is a good round
up to the ledger, whose ballots are those of claims its neighbours have published for the epoch (`RoundAt`); every
readable report has such ballots behind each of its counts (`ReportAt`); and `FilesOf` ties the files to the phase
and the flag: between the two writes the map is that of the report to come, a set flag means that both
files are of this run and belong together, and a report of this run is not ahead of the
engine, and level with it only under a set flag. From these: `FilesAgree` through crashes and
restarts, `ReportsBacked`, `OneReport` and `NoSplitWithoutEquivocation`. The last one is the quorum
argument: two thresholds of voters out of fewer than two thresholds of identities have a common member;
its two ballots name different ASes for one path; a claim names a path once, so it published two.

### The trie

`AsmapProofs`, on lemmas of `PathProofs`: for every address width and every sequence of lists of
entries, a map is the canonical trie of what the entries assign (`MapCanonical`), a lookup finds the ASN an address was
assigned last (`LookupFindsAssigned`), and two such maps are equal as tries exactly when they agree on every address
(`EqualityIsOfContents`), which is what `verify` relies on when it compares maps with `==`. The recursive functions are unrolled
from the leaves up: `PathInduction` says that what holds of all full addresses, and of a path if it holds of
its two halves, holds of every path. On it rest `BelowIsDefined` (the canonical trie satisfies its own equation, so
`TrieOf` is what it says), `UniformIsLeaf` (equal ASNs below a path have merged into one leaf) and `BelowIsLocal` (a subtrie depends on
its own addresses only). `UpdateIsCanonical` follows one update down and back: on the way back each `Branch` is that of
the canonical trie of the new ASNs. For a list, `SortIsStable` gives the order in which `update_multi` applies its entries, and
`LastEntryWins` says that an entry behind all others in that order decides about what it covers, and about nothing else.

### The written forms of a map

Also in `AsmapProofs`, on `MapCanonical`: whatever is read off a map of the state is read off the canonical trie of a
function `f` from addresses to ASNs (`TypedInvariant`). A walk over that trie is a function of paths that recurs to the
two halves of a path, and stops at leaves. `PathRecursion` shows once that such functions exist, whatever is done at a leaf and
with two halves; each walk is an instance (`FlatEquation`, `MovesEquation`, `SearchEquation`, `FewestEquation`). What a walk returns is
then described by a predicate over `f` and a path, shown at the leaves and from two halves for the whole, and `PathInduction`
carries it to the root:

* `FlatFacts` for `to_entries_flat`: the entries are within the path, none says AS0, each says what `f` says (or, with fill, covers what
  `f` leaves unassigned), every assigned address is under one, and no two overlap. Without fill they are the topmost leaves (`FlatAreLeaves`).
* `MoveFacts` for `diff`: each change is uniform on both sides, the changes are apart, and nothing else differs.
* `SearchFacts` for `to_entries_minimal`: every encoding that is kept says, in its context, what `f` says (`Says`), and which contexts there are
  follows from `hole`: over unassigned space only that of AS0, elsewhere always the one that stands alone. The second half is
  needed for the first: it is why two halves always have a pair of contexts to be joined in.
* `FewestFacts` for the same search against the table `FewestLines`, which tries every line over every subtree: an encoding that is kept is as
  short as the table says, and in a context that was dropped the one that stands alone is. This is where the pruning of the code is justified:
  `retain` drops a context that is not shorter than standing alone, and no better choice is lost with it (`SelectedLengths`, `BranchIsFewest`).

What a list of entries does to a map (in `PathProofs`) is taken from `UpdateMultiIsCanonical` in one form: `Tells(entries, a, bg, asn)`, whichever of the longest
entries over the address is taken, it gives it this ASN. If the entries tell every address what `h` has, then `update_multi` gives
the canonical trie of `h` (`UpdateTells`). From these:

* `TextFilesReadBack`: both text files read back as the map. `NetworkOfPath` takes a path to its text and back, IPv4 included, and
  the text is one that the strict parser accepts.
* `MinimalIsFewest`: the overlapping file has the fewest lines.
* `OwnClaimPasses`: Gate 6 refuses the claim of a node's own map exactly when one AS has all of IPv4 or an ASN is out of range. An entry is
  refused for its prefix exactly when its path is `::ffff/96` or above it (`GateOnEntry`), and a leaf is there exactly when all
  of IPv4 has one AS (`LeafOverIpv4`). `ListOfVotes` says that the fold over the winning votes lists each
  of them once, in whatever order, and as no two overlap the order does not matter.
* `DiffExact`: the changes are patches both ways, and their totals count the changed addresses: there are `2^n` addresses under a
  path with `n` bits to go (`CellSize`), those under different changes are disjoint, and the fold adds them up (`CountUnfolds`). That the whole map is a network of
  IPv6, whose count saturates, needs `MappedBits > 0`.

### The integers of the binary form

Also in `AsmapProofs`, for every list of class sizes, of which the four coders of the code are instances
(`CodersOfTheCode`), and every value in the coder's range. `SizeIsLength`: `encode_size` is the number of bits that `encode` writes,
which every planned node size, and with it every jump, is a sum of. `DecodeInvertsEncode`: `decode` reads the value back from a
stream with any bits before it and behind it, and stops behind its last bit. `CutValueIsNothing`: a stream that
ends within the value gives nothing, wherever it ends; no beginning of a value is another value.

The argument goes class by class. `SkippedIs`: the value is at or above the first offset of its class and below that of the
next, since these offsets grow by the room of each class (`StartsGrow`). So `EncodeShape` has as many ones
as classes were skipped, a zero unless the class is the last, and the bits of an offset that is below the room.
`DigitsReadBack` says that these bits, each the parity of a shift, double up to the offset again: after
`i` of them the value read is the offset shifted by the bits still missing. `DecodeReads` is the other side, for any stream:
the number of ones that `decode` takes is determined by the bits that are there.

`Room` and `ShiftRight` are recursions over the bits, because the provers know `2^b` for numerals only. The integers are
unbounded here; every value in range of a coder of the code is a `u32` there.

### The binary file

The last part of `AsmapProofs` goes from the integers to the file: `PlannedIsWritten`, `BinaryFileReadsBack`, `CutFileIsNothing`, for
every map and both ways of filling. It says three things of a node (a list of instructions), and shows each
of what `branch`, `match_node`, `default` and `leaf` make, from what it is of the nodes they are given.

* `ReadsBack`: if the coder can write its numbers, the node takes as many bits as it says, `Decoded` finds it and its end
  among any bits before and behind it, and nothing where the stream ends within it. The parts are needed together: the jump is read as
  the planned size of the left half, so that the left half has to end where it says; and that a cut node is nothing is what
  tells a cut in its left half from one in its right half (`JumpReadsBack`). `DecodedAtLocal` and `DecodedIs` show that the
  recursion by positions exists, since a node takes at least a bit.
* `Means(n, d, t)`: walked with the default `d`, the node is the trie `t`, whatever instructions stand around it. For a match,
  `MatchGrows` says that the number with one more bit in front unfolds to the same halves around the same trie and one
  more; this is where the order of the bits, and `bit_length` for the place of the new one, have to agree between encoder and decoder.
* `Fine`: besides these the node has no operand that its coder finds too small. A match has at most as many bits as there
  are classes, since the code stops merging at `0xff` (`MergeMax`); a node has at least 17 bits, so that a jump over it, whose coder starts at 17,
  is never refused (`BranchFine`). What remains is in `PlannedSizesAreWritten`: encoding panics exactly on an ASN above the range and on a left half
  beyond the jump coder (256 MB). Sizes are unbounded in the model; the code casts them to `u32` for the jump.

`NodeSearchIsRight` then follows the search of `to_binnode` up the trie, as `SearchIsRight` does for entries: a node kept
in a context says (`NodeSays`) what the map has below the path once the context is filled in, and names
the ASNs that are there and no others, which is why exactly the maps with an ASN above the range make the encoder panic on one. `FileReads` adds the padding: a whole file has fewer than eight bits
behind its root and they are zero, and a file that is shorter by a byte or more ends within the root. That a file reads as text
as well (section 4) is no part of these theorems, except for the cut one: a text without entries assigns nothing either.

### Collector shares

`RisProofs`, for any number of peers and collectors. The invariant says that what a
node has read is the beginning of each table its view assigned it, and that a view is a finite set of peers without the
node itself. A share is empty exactly for a peer that ranks behind the last collector (`ShareType`), and such a node reads everything.
The rest of `OneViewSharesAll` is arithmetic: ranks among the peers of a view are distinct (`RanksDiffer`) and
take every value below their number (`EveryRankIsTaken`, a count), equal positions have equal
remainders (`RemaindersDiffer`), and every position has its remainder (`PositionIsEveryNth`).

### The bottleneck

Also in `RisProofs`, for every content of the tables. `ClaimsAreBottlenecks`: the map a node claims gives each address what the
longest prefix over it has, and that is the last AS of the longest common beginning of the paths to the elected
origin, read from the origin. The code never computes that set of paths: it sorts all paths by length and cuts one
candidate with one path after another. `CommonSuffixIsLongest` shows that the two agree, by an
invariant of that loop: after `k` paths the candidate is the longest common beginning (`Longest`) of those among
them that end at the elected origin. Its step is `SharedIsLongest`, which needs the candidate to be no longer than the next
path; that is what the sort is for. `ShortestFirstSorts` follows from `SortIsStable` of the trie, which also settles the
origin: the first of the shortest paths. `MapOfEntries` then is the theorem on `update_multi`.

`CutsStayUpstream` rests on `FewerShareMore`, that fewer paths have no shorter common beginning. A cut table leaves
fewer records, so fewer paths to each prefix; with one origin they are all compared. With two origins
a cut may elect the other one and the statement is false, which is why the property asks for one.

The functions that the parser, `dedup` and the comparison recurse by are shown to exist by `IntervalRecursion`; the
library's theorems on recursive functions take an operator and cannot be used. `FoldRecursion` does the same for the folds,
which recur over sets of indices, and `SetRecursion` for those over any finite set. All are in `PathProofs`.

### Only model-checked

* Liveness: `LinkedNodesCountEachOther`, `EveryCollectorIsRead`. Fairness and ENABLED are out of the prover's reach.
* The four disagreements of section 4, which are counterexamples.

## 6. Not modelled

* **Release scripts.** `_release_round.sh` and `_publish_to_data.sh` are straight lines of
  commands under `set -e`. What makes a release correct, that the published map has an
  attestation that verifies, is decided by `asmap-attest` and `asmap-verify`, which belong to
  the `data` submodule and are not in this repository. The commands of this repository that the
  scripts chain are modelled.
* `download` (a copy of what a server sends), output formats, CLI parsing and error wording.
* The nostr bundle, an optional wrapper around a finished report.
* The vendored Python tool and the test generator.

## 7. Running

```
tlc -config engine_round.cfg MCQuorumEngine.tla
tlapm QuorumEngineProofs.tla
```

The module of each run is in `PROJECT.json`. Every definition marked `Mutant:` is a plausible
slip in the code and is used by no specification; `mutants` says in whose place it is put and which property
then fails.
