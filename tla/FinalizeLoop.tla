---------------------------- MODULE FinalizeLoop ---------------------------
(***************************************************************************)
(* The loop of QuorumEngine::finalize over the vote map, one iteration per *)
(* step, in every order a HashMap may yield its keys.                      *)
(***************************************************************************)
EXTENDS QuorumTally

CONSTANTS
    Voted,        \* the prefixes that were voted on
    VotedAsn,     \* the ASNs they were voted to
    MaxVotes,     \* most votes one key has
    Threshold

ASSUME VotedAssumption == VotedAsn \subseteq Nat /\ MaxVotes \in Nat /\ Threshold \in Nat

VARIABLES
    votes,           \* QuorumEngine.votes, not written by the loop
    pending,         \* the keys the iterator has still to yield
    best_by_prefix   \* prefix -> (asn, votes), as a function on the prefixes present

finalize_vars == <<votes, pending, best_by_prefix>>

Candidate == Voted \X VotedAsn

FinalizeInit ==
    /\ votes \in UNION {[K -> 1 .. MaxVotes] : K \in SUBSET Candidate}
    /\ pending = DOMAIN votes
    /\ best_by_prefix = [p \in {} |-> <<0, 0>>]

InsertBest(p, candidate) ==
    best_by_prefix' = [q \in DOMAIN best_by_prefix \cup {p} |->
                          IF q = p THEN candidate ELSE best_by_prefix[q]]

(* count < threshold: continue. *)
SkipBelowThreshold(k) ==
    /\ votes[k] < Threshold
    /\ UNCHANGED best_by_prefix

(* Mutant: the pair is stored in the wrong order. *)
FirstCandidateSwapped(k) ==
    /\ votes[k] >= Threshold
    /\ k[1] \notin DOMAIN best_by_prefix
    /\ InsertBest(k[1], <<votes[k], k[2]>>)

(* or_insert: the first candidate for its prefix. *)
FirstCandidate(k) ==
    /\ votes[k] >= Threshold
    /\ k[1] \notin DOMAIN best_by_prefix
    /\ InsertBest(k[1], <<k[2], votes[k]>>)

(* and_modify: a later candidate replaces the best one only if it beats it. *)
LaterCandidate(k) ==
    /\ votes[k] >= Threshold
    /\ k[1] \in DOMAIN best_by_prefix
    /\ LET best == best_by_prefix[k[1]]
       IN  IF Beats(k[2], votes[k], best[1], best[2])
           THEN InsertBest(k[1], <<k[2], votes[k]>>)
           ELSE UNCHANGED best_by_prefix

Yield(k) ==
    /\ pending' = pending \ {k}
    /\ UNCHANGED votes
    /\ SkipBelowThreshold(k) \/ FirstCandidate(k) \/ LaterCandidate(k)

FinalizeNext == \E k \in pending : Yield(k)

FinalizeSpec == FinalizeInit /\ [][FinalizeNext]_finalize_vars

---------------------------------------------------------------------------

FinalizeTypeOK ==
    /\ DOMAIN votes \subseteq Candidate
    /\ votes \in [DOMAIN votes -> 1 .. MaxVotes]
    /\ pending \subseteq DOMAIN votes
    /\ DOMAIN best_by_prefix \subseteq Voted
    /\ best_by_prefix \in [DOMAIN best_by_prefix -> VotedAsn \X Nat]

Entries(best) ==
    {[ip_prefix |-> p, asn |-> best[p][1], votes |-> best[p][2]] : p \in DOMAIN best}

(***************************************************************************)
(* Whatever part of the map the iterator has yielded, in whatever order,   *)
(* best_by_prefix holds exactly the winners among the keys yielded so far: *)
(* this is what makes the artifact independent of HashMap order.           *)
(***************************************************************************)
BestIsElectedAmongVisited ==
    LET visited == [k \in DOMAIN votes \ pending |-> votes[k]]
    IN  Entries(best_by_prefix) = FinalEntries(visited, Threshold)

=============================================================================
