---------------------------- MODULE QuorumRound ----------------------------
(***************************************************************************)
(* What a quorum engine promises, with no gates, no counters and no ledger:*)
(* a round of an epoch is a set of ballots, at most one per peer, each     *)
(* giving a network at most one AS; the outcome is what the ballots of the *)
(* round elect, and a ballot is never lost but to a later epoch.           *)
(***************************************************************************)
EXTENDS EntryGate, FiniteSets

CONSTANTS
    Peer,       \* who may vote
    Threshold,  \* how many ballots elect
    LastEpoch   \* the epoch counter saturates here

VARIABLES
    epoch,
    ballots,    \* peer -> set of vote keys, on the peers that have voted
    voters,     \* the participants the artifact names
    outcome     \* the entries the artifact lists

roundVars == <<epoch, ballots, voters, outcome>>

(* No network, however it is spelled, is given two ASes. *)
Consistent(ballot) ==
    \A j, k \in ballot : IpToBits(j[1]) = IpToBits(k[1]) => j = k

IsBallot(ballot) == ballot \subseteq VoteKey /\ Consistent(ballot)

Backers(bs, k) == {p \in DOMAIN bs : k \in bs[p]}

(***************************************************************************)
(* An AS is elected for a prefix if enough peers back it and every other   *)
(* AS for that prefix has fewer backers, or as many and a higher number.   *)
(***************************************************************************)
Outcome(bs) ==
    LET cast == UNION {bs[p] : p \in DOMAIN bs}
        backing(k) == Cardinality(Backers(bs, k))
        elected == {k \in cast :
                       /\ backing(k) >= Threshold
                       /\ \A rival \in cast :
                             rival[1] = k[1] /\ rival # k =>
                                \/ backing(rival) < backing(k)
                                \/ backing(rival) = backing(k) /\ k[2] < rival[2]}
    IN  {[ip_prefix |-> k[1], asn |-> k[2], votes |-> backing(k)] : k \in elected}

NoBallots == [p \in {} |-> {}]

With(bs, p, ballot) ==
    [q \in DOMAIN bs \cup {p} |-> IF q = p THEN ballot ELSE bs[q]]

Publishes(bs) ==
    /\ ballots' = bs
    /\ voters' = DOMAIN bs
    /\ outcome' = Outcome(bs)

Init ==
    /\ epoch \in 0 .. LastEpoch
    /\ ballots = NoBallots
    /\ voters = {}
    /\ outcome = Outcome(NoBallots)

(* A peer that has not voted in this round casts a ballot of its choice. *)
Cast(p) ==
    /\ p \in DOMAIN ballots' \ DOMAIN ballots
    /\ Publishes(With(ballots, p, ballots'[p]))
    /\ IsBallot(ballots'[p])
    /\ UNCHANGED epoch

(* A ballot for a later epoch opens that round and is its first ballot. *)
CastLater(p) ==
    /\ epoch' \in epoch + 1 .. LastEpoch
    /\ p \in DOMAIN ballots'
    /\ Publishes(With(NoBallots, p, ballots'[p]))
    /\ IsBallot(ballots'[p])

(* The clock opens the next round; at the last epoch it can only reopen it. *)
Open ==
    /\ epoch' = IF epoch < LastEpoch THEN epoch + 1 ELSE epoch
    /\ Publishes(NoBallots)

Next ==
    \/ \E p \in Peer : Cast(p) \/ CastLater(p)
    \/ Open

Spec == Init /\ [][Next]_roundVars

=============================================================================
