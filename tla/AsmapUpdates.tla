---------------------------- MODULE AsmapUpdates ---------------------------
(***************************************************************************)
(* An ASMap as the program builds it up: update_multi on the lines of a    *)
(* text file, the winners of a round or the bottlenecks of a collector.    *)
(*                                                                         *)
(* The state is one map.  `assigned`, the function from addresses to ASNs  *)
(* that the lists of entries define, is a history variable: no code has it.*)
(***************************************************************************)
EXTENDS AsmapTrie

CONSTANT EntryLists   \* the lists of <<path, asn>> that the map is updated with

ASSUME EntryListsAssumption == EntryLists \subseteq Seq(Path \X Nat)

VARIABLES map, assigned

vars == <<map, assigned>>

Init == map = EmptyMap /\ assigned = [a \in Address |-> 0]

Assign(entries) ==
    /\ map' = UpdateMulti(map, entries)
    /\ assigned' = [a \in Address |-> AssignedBy(entries, assigned, a)]

Next == \E entries \in EntryLists : Assign(entries)

Spec == Init /\ [][Next]_vars

---------------------------------------------------------------------------

(***************************************************************************)
(* However the map was built up, it is the one trie without mergeable      *)
(* leaves of what the entries assign: verify and the tests compare maps    *)
(* with ==, which is only a comparison of contents for such tries, and     *)
(* update_multi must not depend on the order of the lines.                 *)
(***************************************************************************)
MapIsCanonical == map = TrieOf(assigned)

=============================================================================
