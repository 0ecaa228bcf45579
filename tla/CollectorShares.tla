-------------------------- MODULE CollectorShares --------------------------
(***************************************************************************)
(* Which RIS collectors the nodes of a `collect` network read: each node   *)
(* takes a share by its rank among the peers it knows from mdns, and reads *)
(* the tables of its share at its start and on every refresh.  The map it  *)
(* makes of them is in RisCollect; gossip and votes are in ServeMesh.      *)
(*                                                                         *)
(* A peer is one run of the program: a restarted node has a new peer id    *)
(* and is another peer.  mdns also finds peers that run `serve`.           *)
(***************************************************************************)
EXTENDS Naturals, Sequences, FiniteSets, Functions

CONSTANTS
    Peer,            \* peer ids, as their ranks in the order of the ids
    Collecting,      \* those that run `collect`
    Lists,           \* values of --collectors, the same at every node
    AllCollectors,   \* 0 ..= 24, what an empty list stands for
    Dump,            \* the table of each collector
    Cuts,            \* bound: the records before a read error
    MaxFaults        \* bound: cut or failed readings, and expiries of live peers

ASSUME CollectAssumption ==
    /\ Peer \subseteq Nat /\ Collecting \subseteq Peer
    /\ Cuts \subseteq Nat /\ MaxFaults \in Nat
    /\ AllCollectors \in Seq(Nat)
    /\ \A list \in Lists : list \in Seq(Range(AllCollectors))

VARIABLES
    collectors,    \* cfg.collectors
    phase,         \* "new", "running" or "stopped"
    known_peers,
    reading,       \* what local_claim was built from: the view it was assigned
                   \* by, the collectors read and how many records of each
    faults

vars == <<collectors, phase, known_peers, reading, faults>>

Running == {p \in Peer : phase[p] = "running"}

(* The elements of list at the indices first, first + n, first + 2n ... *)
EveryNth(list, first, n) ==
    [k \in 1 .. (Len(list) - first + n - 1) \div n |-> list[first + (k - 1) * n + 1]]

Rank(p, participants) == Cardinality({q \in participants : q < p})

(* Mutant: the node's own id is not among the participants. *)
AssignedAmongOthers(list, p, peers) ==
    IF peers = {} THEN list ELSE EveryNth(list, Rank(p, peers), Cardinality(peers))

(* assigned_collectors; the participants are sorted by their ids. *)
AssignedCollectors(list, p, peers) ==
    LET participants == peers \cup {p}
    IN  EveryNth(list, Rank(p, participants), Cardinality(participants))

(* from_collectors: no collectors means all of them. *)
Targets(p, peers) ==
    LET share == AssignedCollectors(collectors, p, peers)
    IN  IF share = << >> THEN AllCollectors ELSE share

(* A dump that cannot be read on, or is no gzip file, ends where it does. *)
Extents(targets) ==
    {e \in [DOMAIN targets -> Cuts \cup {Len(Dump[c]) : c \in Range(targets)}] :
        \A i \in DOMAIN targets :
            e[i] = Len(Dump[targets[i]]) \/ (e[i] \in Cuts /\ e[i] < Len(Dump[targets[i]]))}

NumberCut(targets, extent) ==
    Cardinality({i \in DOMAIN targets : extent[i] < Len(Dump[targets[i]])})

NothingRead == [view |-> {}, targets |-> << >>, extent |-> << >>]

Init ==
    /\ collectors \in Lists
    /\ phase = [p \in Peer |-> "new"]
    /\ known_peers = [p \in Collecting |-> {}]
    /\ reading = [p \in Collecting |-> NothingRead]
    /\ faults = 0

(* build_ris_claim and what its Ok arm stores.  The event loop waits for it,
   so the view cannot change before the claim is replaced. *)
BuildRisClaim(p, peers) ==
    \E targets \in {Targets(p, peers)} : \E extent \in Extents(targets) :
        /\ faults + NumberCut(targets, extent) <= MaxFaults
        /\ faults' = faults + NumberCut(targets, extent)
        /\ reading' = [reading EXCEPT ![p] =
              [view |-> peers \cup {p}, targets |-> targets, extent |-> extent]]

Fault == faults < MaxFaults /\ faults' = faults + 1

(* The first claim is built before any event is polled. *)
Start(p) ==
    /\ phase[p] = "new"
    /\ phase' = [phase EXCEPT ![p] = "running"]
    /\ IF p \in Collecting THEN BuildRisClaim(p, known_peers[p])
       ELSE UNCHANGED <<reading, faults>>
    /\ UNCHANGED <<collectors, known_peers>>

(* A failed request at the start ends the program. *)
StartFails(p) ==
    /\ phase[p] = "new"
    /\ Fault
    /\ phase' = [phase EXCEPT ![p] = "stopped"]
    /\ UNCHANGED <<collectors, known_peers, reading>>

(* The refresh timer and the epoch timer; a request that fails changes nothing. *)
Refresh(p) ==
    /\ phase[p] = "running"
    /\ UNCHANGED <<collectors, phase, known_peers>>
    /\ BuildRisClaim(p, known_peers[p])

(* Mutant: the node's own id is kept with those of the others. *)
DiscoveredWithSelf(p, q) ==
    /\ {p, q} \subseteq Running
    /\ known_peers' = [known_peers EXCEPT ![p] = @ \cup {p, q}]
    /\ UNCHANGED <<collectors, phase, reading, faults>>

Discovered(p, q) ==
    /\ {p, q} \subseteq Running
    /\ known_peers' = [known_peers EXCEPT ![p] = @ \cup {q}]
    /\ UNCHANGED <<collectors, phase, reading, faults>>

(* Mutant: an expired peer keeps its rank. *)
ExpiredOnlyFromGossip(p, q) ==
    /\ p \in Running /\ q \in known_peers[p]
    /\ IF q \in Running THEN Fault ELSE UNCHANGED faults
    /\ UNCHANGED <<collectors, phase, known_peers, reading>>

Expired(p, q) ==
    /\ p \in Running /\ q \in known_peers[p]
    /\ IF q \in Running THEN Fault ELSE UNCHANGED faults
    /\ known_peers' = [known_peers EXCEPT ![p] = @ \ {q}]
    /\ UNCHANGED <<collectors, phase, reading>>

Stop(p) ==
    /\ p \in Running
    /\ phase' = [phase EXCEPT ![p] = "stopped"]
    /\ UNCHANGED <<collectors, known_peers, reading, faults>>

Next ==
    \/ \E p \in Peer : Start(p) \/ Stop(p)
    \/ \E p \in Collecting : StartFails(p) \/ Refresh(p)
    \/ \E p \in Collecting : \E q \in Peer \ {p} : Discovered(p, q) \/ Expired(p, q)

(***************************************************************************)
(* The timers of a running node keep firing, mdns keeps announcing the     *)
(* peers that run and expires those that do not.  No peer need ever start. *)
(***************************************************************************)
Fairness ==
    \A p \in Collecting :
        /\ WF_vars(Refresh(p))
        /\ \A q \in Peer \ {p} :
              WF_vars(Discovered(p, q)) /\ WF_vars(q \notin Running /\ Expired(p, q))

Spec == Init /\ [][Next]_vars /\ Fairness

---------------------------------------------------------------------------

(* The node itself is never among the peers it knows. *)
TypeOK ==
    /\ collectors \in Lists
    /\ phase \in [Peer -> {"new", "running", "stopped"}]
    /\ known_peers \in [Collecting -> SUBSET Peer]
    /\ \A p \in Collecting :
          /\ p \notin known_peers[p]
          /\ reading[p].view \subseteq Peer
          /\ Range(reading[p].targets) \subseteq Range(AllCollectors)
          /\ DOMAIN reading[p].extent = DOMAIN reading[p].targets
    /\ faults \in 0 .. MaxFaults

(* p ranks behind the last collector, in the view it read by. *)
HasNoShare(p) == Rank(p, reading[p].view) >= Len(collectors)

(***************************************************************************)
(* Claims built from the same view of the peers, at whatever times, rest on*)
(* disjoint collectors but for those of nodes that rank behind the last    *)
(* collector, and every one of these reads all there are.  Together, when  *)
(* every peer of the view collects, they rest on the whole list, and on    *)
(* more only if there are such nodes: no collector is weighed twice by two *)
(* shares, and none is forgotten.  A collector the list names twice may    *)
(* fall to two nodes, for --collectors is taken as it is written.          *)
(***************************************************************************)
OneViewSharesAllCollectors ==
    \A p \in Collecting : \A view \in {reading[p].view} : view # {} =>
        /\ HasNoShare(p) => reading[p].targets = AllCollectors
        /\ \A q \in Collecting \ {p} :
              IsInjective(collectors) /\ reading[q].view = view =>
                  \/ HasNoShare(p) \/ HasNoShare(q)
                  \/ Range(reading[p].targets) \cap Range(reading[q].targets) = {}
        /\ (\A q \in view : q \in Collecting /\ reading[q].view = view) =>
              UNION {Range(reading[q].targets) : q \in view}
                  = IF \E q \in view : HasNoShare(q) THEN Range(AllCollectors)
                    ELSE Range(collectors)

=============================================================================
