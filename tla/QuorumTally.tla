---------------------------- MODULE QuorumTally ----------------------------
(***************************************************************************)
(* QuorumEngine::finalize: from the vote counts to the consensus entries.  *)
(* The code walks a HashMap, so in no fixed order, and keeps the best      *)
(* (asn, votes) seen so far per prefix; FinalEntries says what it must     *)
(* arrive at whatever the order, FinalizeLoop checks that it does.         *)
(***************************************************************************)
EXTENDS Naturals

(* Mutant: a tie goes to no one. *)
BeatsByCount(a, n, b, m) == n > m

(***************************************************************************)
(* Candidate <<a, n>> beats <<b, m>>: more votes, or as many votes and the *)
(* lower ASN.                                                              *)
(***************************************************************************)
Beats(a, n, b, m) == n > m \/ (n = m /\ a < b)

(* Mutant: any number of votes elects. *)
ElectedBelowThreshold(votes, threshold, k) ==
    /\ k \in DOMAIN votes
    /\ \A rival \in DOMAIN votes :
          rival[1] = k[1] /\ rival # k => Beats(k[2], votes[k], rival[2], votes[rival])

Elected(votes, threshold, k) ==
    /\ k \in DOMAIN votes
    /\ votes[k] >= threshold
    /\ \A rival \in DOMAIN votes :
          rival[1] = k[1] /\ rival # k => Beats(k[2], votes[k], rival[2], votes[rival])

FinalEntries(votes, threshold) ==
    {[ip_prefix |-> k[1], asn |-> k[2], votes |-> votes[k]] :
        k \in {v \in DOMAIN votes : Elected(votes, threshold, v)}}

=============================================================================
