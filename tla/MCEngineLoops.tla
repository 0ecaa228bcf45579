---------------------------- MODULE MCEngineLoops --------------------------
(***************************************************************************)
(* The two loops of the engine, each on its own inputs while the other is  *)
(* at rest.  Gate 6: every claim of up to three entries over every text of *)
(* 3-bit IPv6 and 1-bit IPv4 addresses, host bits included, and a text that*)
(* does not parse.  finalize: every vote map on two prefixes and three ASNs*)
(* with up to three votes a key, and every order of iteration over it.     *)
(***************************************************************************)
EXTENDS GateSixLoop, FinalizeLoop, TLC

CONSTANTS rubbish, n1, n2

MCMappedRange == <<0, 1>>
MCEntryText == Network \cup {rubbish}

MCInit == Init /\ FinalizeInit

(* No entry is read when there are votes to walk. *)
GateSixStep ==
    /\ DOMAIN votes = {}
    /\ Next
    /\ UNCHANGED finalize_vars

FinalizeStep == FinalizeNext /\ UNCHANGED vars

MCNext == GateSixStep \/ FinalizeStep

MCSpec == MCInit /\ [][MCNext]_<<vars, finalize_vars>>

Symmetry == Permutations(Voted)

=============================================================================
