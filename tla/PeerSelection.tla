---------------------------- MODULE PeerSelection ----------------------------
(***************************************************************************)
(* One call of PGMSelectionManager::selectPeers(), with the weights of a   *)
(* guidance matrix or with location-only guidance, and the helper through  *)
(* which it draws peers, PIDPeerSelectionHelper.                           *)
(*                                                                         *)
(* The view of the home ISP is locked during the call and does not change. *)
(* The number of PIDs is read before: it may be that of a PID map which    *)
(* the view was not rebuilt for.  A peer is a pair, the set of the view    *)
(* that holds it and a number.  What random numbers decide is a choice.    *)
(* Peers that out_peers held before the call are not counted.              *)
(***************************************************************************)
EXTENDS Integers, FiniteSets, Functions

CONSTANTS
    Views,       \* functions 0..n -> Nat: how many peers each set of a view has; n is for no PID
    Requests,    \* numbers of peers that may be asked for
    NumPIDs,     \* numbers of PIDs that the PID map may have
    CopyFactor,  \* the helper copies PIDs of at most CopyFactor * (num_peers + 1) peers
    NoWeights

ASSUME SelectionAssumption ==
    /\ \A v \in Views : v \in [0..(Cardinality(DOMAIN v) - 1) -> Nat]
    /\ Requests \subseteq Nat /\ NumPIDs \subseteq Nat /\ CopyFactor \in Nat \ {0}

VARIABLES
    sizes,           \* the view: the size of each of its sets
    num_total_pids, num_intraisp_pids, home_pid, self,
    num_peers,       \* how many peers are asked for
    num_intrapid,    \* how many of them of the home PID
    num_isp,         \* how many of them of the home ISP, the home PID included
    weighted,        \* the PIDs of positive weight, or NoWeights for location-only guidance
    numPeers,        \* helper: peers left in each PID, -1 for a PID without a set
    drawn,           \* helper: the peers it has returned
    out_peers, size, \* the peers selected, and how many times a peer was
    pc               \* the stage: "intrapid", "intraisp", "external", "random", or the end:
                     \* "done", "unavailable", "thrown", "spinning"

request == <<sizes, num_total_pids, num_intraisp_pids, home_pid, self, num_peers,
             num_intrapid, num_isp, weighted>>
selection == <<request, numPeers, drawn, out_peers, size, pc>>

PIDs == 0..(num_total_pids - 1)
LocationOnly == weighted = NoWeights

\* The set of the view for a PID; getNumPeers() is -1 if there is none.
PIDPeers(pid) == IF pid \in DOMAIN sizes THEN {pid} \X (1..sizes[pid]) ELSE {}
getNumPeers(pid) == IF pid \in DOMAIN sizes THEN sizes[pid] ELSE -1

\* Sums, products and roundings of the percentages give some numbers of peers; only
\* location-only guidance sees to it that the home PID has no more than the home ISP.
SelectionInit ==
    /\ sizes \in Views /\ num_total_pids \in NumPIDs /\ num_peers \in Requests
    /\ num_intraisp_pids \in 0..num_total_pids /\ home_pid \in PIDs
    /\ self \in {<<s, 1>> : s \in {s \in DOMAIN sizes : sizes[s] > 0}}
    /\ num_intrapid \in 0..num_peers /\ num_isp \in 0..num_peers
    /\ weighted \in {NoWeights} \cup {PIDs \ {i} : i \in PIDs} \cup {PIDs}
    /\ LocationOnly => num_intrapid <= num_isp
    /\ numPeers = [i \in PIDs |-> getNumPeers(i)]
    /\ drawn = {} /\ out_peers = {} /\ size = 0
    /\ pc = IF LocationOnly /\ home_pid >= num_intraisp_pids THEN "unavailable" ELSE "intrapid"

-----------------------------------------------------------------------------
(* PIDPeerSelectionHelper *)

\* Mutant: no room is left for the peer itself.
NoCopyTight(pid) == getNumPeers(pid) >= num_peers

\* The helper of a PID with many peers draws until it gets a new one.
NoCopy(pid) == getNumPeers(pid) > CopyFactor * (num_peers + 1)

\* selectPeer(pid) returns a peer that it has not returned before ...
selectPeer(pid, peer) ==
    /\ peer \in PIDPeers(pid) \ drawn
    /\ drawn' = drawn \cup {peer}
    /\ numPeers' = [numPeers EXCEPT ![pid] = @ - 1]

\* ... or NULL when a PID that it copied has none left, or was never there;
selectsNone(pid) == PIDPeers(pid) \subseteq drawn /\ ~NoCopy(pid)

\* for a PID with many peers it would go on forever.
spin(pid) ==
    /\ NoCopy(pid) /\ PIDPeers(pid) \subseteq drawn
    /\ pc' = "spinning"
    /\ UNCHANGED <<request, numPeers, drawn, out_peers, size>>

Left(pids) == SumFunctionOnSet(numPeers, pids)

\* The PIDs that selectPeer(pids) may draw from: it throws a coin below the number of peers
\* left and goes through the PIDs until it has passed that many.  It returns NULL if there
\* is no such PID.
Picks(pids) == {i \in pids : numPeers[i] > 0 /\ Left({j \in pids : j < i}) < Left(pids)}

-----------------------------------------------------------------------------
(* The stages of the selection *)

push_back(peer) ==
    /\ out_peers' = out_peers \cup {peer}
    /\ size' = size + 1

goto(stage) ==
    /\ pc' = stage
    /\ UNCHANGED <<request, numPeers, drawn, out_peers, size>>

\* Peers of the home PID; the peer itself is drawn in vain.
intraPID ==
    /\ pc = "intrapid"
    /\ IF size < num_intrapid
       THEN \/ \E peer \in PIDPeers(home_pid) :
                 /\ selectPeer(home_pid, peer)
                 /\ IF peer = self THEN UNCHANGED <<out_peers, size>> ELSE push_back(peer)
                 /\ UNCHANGED <<request, pc>>
            \/ spin(home_pid)
            \/ selectsNone(home_pid) /\ goto("intraisp")
       ELSE goto("intraisp")

\* Location-only guidance: one peer of pids after the other, until there are n.
drawUntil(stage, pids, n, next) ==
    /\ pc = stage
    /\ IF size < n /\ Picks(pids) # {}
       THEN \E pid \in Picks(pids) :
              \/ \E peer \in PIDPeers(pid) :
                   selectPeer(pid, peer) /\ push_back(peer) /\ UNCHANGED <<request, pc>>
              \/ spin(pid)
       ELSE goto(next)

\* The bins of fillPeers(): PIDs of positive weight with peers.
Bins(pids) == {i \in pids \cap weighted : i # home_pid /\ getNumPeers(i) # 0}

\* fillPeers() draws a peer, and goes on until there are n or the bins are empty.  A bin of
\* weight 0, because it is empty, is hit only if it is the last one and the random number is
\* the largest.
fillPeers(stage, pids, n, next) ==
    /\ pc = stage
    /\ LET bins == Bins(pids)
           last == CHOOSE i \in bins : \A j \in bins : j <= i
           end(m, left) == m >= n \/ left = 0
       IN  IF bins = {} THEN goto(next)
           ELSE \E pid \in {i \in bins : numPeers[i] # 0} \cup {last} :
                  \/ \E peer \in PIDPeers(pid) :
                       /\ selectPeer(pid, peer)
                       /\ push_back(peer)
                       /\ pc' = IF end(size + 1, Left(bins) - 1) THEN next ELSE stage
                       /\ UNCHANGED request
                  \/ spin(pid)
                  \/ selectsNone(pid) /\ goto("thrown")

OtherIntraISP == {i \in PIDs : i < num_intraisp_pids /\ i # home_pid}
External == {i \in PIDs : i >= num_intraisp_pids}

\* Mutant: the home ISP may supply all peers.
intraISPAll ==
    IF LocationOnly THEN drawUntil("intraisp", OtherIntraISP, num_peers, "external")
                    ELSE fillPeers("intraisp", OtherIntraISP, num_peers, "external")

intraISP ==
    IF LocationOnly THEN drawUntil("intraisp", OtherIntraISP, num_isp, "external")
                    ELSE fillPeers("intraisp", OtherIntraISP, num_isp, "external")

external ==
    IF LocationOnly THEN drawUntil("external", External, num_peers, "random")
                    ELSE fillPeers("external", External, num_peers, "random")

\* Mutant: the counter of the selected peers starts at one.
randomFillShort ==
    /\ pc = "random"
    /\ IF size # num_peers - 1 /\ size # num_peers /\ Picks(PIDs) # {}
       THEN \E pid \in Picks(PIDs) : \E peer \in PIDPeers(pid) :
              selectPeer(pid, peer) /\ push_back(peer) /\ UNCHANGED <<request, pc>>
       ELSE goto("done")

\* The rest are peers of any PID.  The number that is missing is unsigned: if too many have
\* been selected, it is larger than the number of all peers.
randomFill ==
    /\ pc = "random"
    /\ IF size # num_peers /\ Picks(PIDs) # {}
       THEN \E pid \in Picks(PIDs) :
              \/ \E peer \in PIDPeers(pid) :
                   selectPeer(pid, peer) /\ push_back(peer) /\ UNCHANGED <<request, pc>>
              \/ spin(pid)
       ELSE goto("done")

Ended == pc \in {"done", "unavailable", "thrown"}

SelectionNext == intraPID \/ intraISP \/ external \/ randomFill

SelectionSpec == SelectionInit /\ [][SelectionNext]_selection

\* The call goes on.
FairSelectionSpec == SelectionSpec /\ WF_selection(SelectionNext)

-----------------------------------------------------------------------------

\* Every variable has its type; the helper does not count below zero.
SelectionTypeOK ==
    /\ sizes \in Views
    /\ weighted # NoWeights => weighted \subseteq PIDs
    /\ DOMAIN numPeers = PIDs
    /\ \A i \in PIDs \cap DOMAIN sizes : numPeers[i] \in 0..sizes[i]
    /\ out_peers \subseteq drawn
    /\ size \in Nat
    /\ pc \in {"intrapid", "intraisp", "external", "random",
               "done", "unavailable", "thrown", "spinning"}

\* The view was rebuilt for the PID map whose PIDs were counted.
Fresh == DOMAIN sizes = 0..num_total_pids

\* A selection that comes back with too few peers has gone through all peers of all PIDs,
\* whatever the weights: peers of PIDs of weight 0 are taken rather than none.  None was
\* selected twice, whichever way the helper draws from a PID; every variable has its type.
FilledUp ==
    /\ SelectionTypeOK /\ size = Cardinality(out_peers)
    /\ pc = "done" /\ Fresh /\ size < num_peers => \A i \in PIDs : PIDPeers(i) \subseteq drawn

\* Location-only guidance keeps its quotas: no more peers than asked for, fewer of the
\* home PID than its share only if it has no more, and more of the ISP than its share
\* only if no other ISP has any left.
QuotasKept ==
    pc = "done" /\ Fresh /\ LocationOnly =>
        /\ size <= num_peers
        /\ Cardinality({p \in out_peers : p[1] = home_pid}) < num_intrapid
             => PIDPeers(home_pid) \subseteq drawn
        /\ Cardinality({p \in out_peers : p[1] < num_intraisp_pids}) > num_isp
             => \A i \in External : PIDPeers(i) \subseteq drawn

\* The call comes to an end: it returns or it throws.  In particular the helper's loop for
\* PIDs with many peers always finds a new one: "We are guaranteed this succeeds".
Ends == <>Ended

\* The header says of selectPeers(): "num_peers Maximum number of peers to be selected".
AtMostRequested == size <= num_peers
=============================================================================
