--------------------------- MODULE NodePlacement ---------------------------
(***************************************************************************)
(* What the main controller makes of the cluster's nodes.  The daemonset's *)
(* node selector and tolerations follow the DNS's spec.nodePlacement, but  *)
(* not if no node would be left for its pods (daemonsetUpdateIsSafe); the  *)
(* DNS service asks for topology-aware hints if the nodes allow it         *)
(* (shouldEnableTopologyAwareHints).                                       *)
(*                                                                         *)
(* Nodes and pods are read from the cache, and most changes of a node do   *)
(* not wake the controller: New filters them.                              *)
(***************************************************************************)
EXTENDS Integers, Sequences

CONSTANTS
    Nodes,      \* the names of nodes
    NodeStates, \* the states a node may have
    Placements, \* the values of spec.nodePlacement
    Releases,   \* the number of releases, each with its image of CoreDNS
    MaxEdits,   \* bound: changes by others
    MaxFails    \* bound: writes that fail

VARIABLES
    spec,       \* spec.nodePlacement
    image,      \* the image that this operator brings
    node,       \* the nodes on the API server
    seen,       \* the nodes in the cache
    pods,       \* whether the cache has a pod of the daemonset
    daemonset,  \* the daemonset: its placement and its image
    hints,      \* whether the service has the topology-aware-hints annotation
    relabelled, \* whether a node has changed zone unnoticed since the last pass
    queued,     \* whether the work queue holds the request for the DNS
    pass,       \* the pass that runs, with what it has read
    edits, fails

nodes == <<node, seen, pods>>
vars == <<spec, image, nodes, daemonset, hints, relabelled, queued, pass, edits, fails>>

Gone == [have |-> FALSE]

ASSUME NodeAssumption ==
    /\ \A s \in NodeStates : /\ s.have = TRUE
                            /\ s.excluded \in BOOLEAN /\ s.ready \in BOOLEAN
                            /\ s.cpu \in BOOLEAN /\ s.unschedulable \in BOOLEAN
    /\ Releases \in Nat \ {0}
    /\ MaxEdits \in Nat /\ MaxFails \in Nat

Images == 1 .. Releases

-----------------------------------------------------------------------------
\* nodeSelectorForDNS and tolerationsForDNS.  A toleration is the taint that
\* it tolerates.
Desired(placement) ==
    [selector    |-> IF placement.selector = {} THEN {"linux"}
                                                ELSE placement.selector,
     tolerations |-> IF placement.tolerations = <<>> THEN <<"master">>
                                                     ELSE placement.tolerations]

TolerationsTolerateTaints(tolerations, taints) ==
    \A t \in taints : \E i \in DOMAIN tolerations : tolerations[i] = t

\* A node of the list to which the daemonset's pods can be scheduled.
Schedulable(list, placement) ==
    {n \in Nodes : /\ list[n].have
                   /\ placement.selector \subseteq list[n].labels
                   /\ ~list[n].unschedulable
                   /\ TolerationsTolerateTaints(placement.tolerations, list[n].taints)}

\* A plausible fault: every node that the selector matches has to be
\* schedulable.
DaemonsetUpdateIsSafeForAll(current, updated) ==
    \/ ~pods
    \/ {n \in Nodes : seen[n].have /\ updated.selector \subseteq seen[n].labels}
          = Schedulable(seen, updated)

DaemonsetUpdateIsSafe(current, updated) ==
    ~pods \/ Schedulable(seen, updated) # {}

\* cmpTolerations says whether two tolerations are equal, and is passed to
\* SortSlices as "less": a list with equal neighbours is never sorted, and
\* cmp.Equal panics.
Comparable(tolerations) ==
    \A i \in DOMAIN tolerations \ {1} : tolerations[i] # tolerations[i - 1]

\* daemonsetConfigChanged.  Since distinct tolerations are never "less" than
\* each other, their order matters after all.
DaemonsetConfigChanged(current, expected) == current # expected

\* Plausible faults: an unsafe update is given up as a whole; only half of
\* the placement is kept.
UpdatedOrNothing(current, desired) ==
    IF DaemonsetUpdateIsSafe(current.placement, desired.placement) THEN desired
                                                                   ELSE current
UpdatedHalf(current, desired) ==
    IF DaemonsetUpdateIsSafe(current.placement, desired.placement) THEN desired
    ELSE [desired EXCEPT !.placement.selector = current.placement.selector]

\* updateDNSDaemonSet: an unsafe placement is left out of the update.
Updated(current, desired) ==
    IF DaemonsetUpdateIsSafe(current.placement, desired.placement) THEN desired
    ELSE [desired EXCEPT !.placement = current.placement]

(***************************************************************************)
(* Topology-aware hints.                                                   *)
(***************************************************************************)
IgnoreNodeForTopologyAwareHints(n) == n.excluded \/ ~n.ready
NodeIsValidForTopologyAwareHints(n) == n.cpu /\ n.zone # ""

Considered(list) ==
    {n \in Nodes : list[n].have /\ ~IgnoreNodeForTopologyAwareHints(list[n])}

ShouldEnableTopologyAwareHints(list) ==
    /\ \A n \in Considered(list) : NodeIsValidForTopologyAwareHints(list[n])
    /\ \E m, n \in Considered(list) : list[m].zone # list[n].zone

\* A plausible fault: an update that makes a node invalid goes unnoticed.
NodeEventIgnoredOnly(old, new) ==
    IF old.have /\ new.have
    THEN IgnoreNodeForTopologyAwareHints(old) # IgnoreNodeForTopologyAwareHints(new)
    ELSE \E n \in {old, new} : n.have /\ ~IgnoreNodeForTopologyAwareHints(n)

\* The filter of node events: creation and deletion of a node that counts,
\* and updates after which it counts or is valid where it was not, or the
\* other way round.
NodeEvent(old, new) ==
    IF old.have /\ new.have
    THEN \/ IgnoreNodeForTopologyAwareHints(old) # IgnoreNodeForTopologyAwareHints(new)
         \/ /\ ~IgnoreNodeForTopologyAwareHints(new)
            /\ NodeIsValidForTopologyAwareHints(old)
                  # NodeIsValidForTopologyAwareHints(new)
    ELSE \E n \in {old, new} : n.have /\ ~IgnoreNodeForTopologyAwareHints(n)

-----------------------------------------------------------------------------
Idle == [pc |-> "idle"]

\* The operator starts on a cluster with the default placement.
Init ==
    /\ spec \in {p \in Placements : p.selector = {} /\ p.tolerations = <<>>}
    /\ image = 1
    /\ node \in [Nodes -> NodeStates]
    /\ seen = node /\ pods = TRUE
    /\ daemonset = [placement |-> Desired(spec), image |-> image]
    /\ hints = FALSE /\ relabelled = FALSE
    /\ queued = TRUE
    /\ pass = Idle
    /\ edits = 0 /\ fails = 0

Fail == fails < MaxFails /\ fails' = fails + 1

Start ==
    /\ pass = Idle /\ queued
    /\ queued' = FALSE
    /\ pass' = [pc |-> "daemonset", placement |-> spec]
    /\ UNCHANGED <<spec, image, nodes, daemonset, hints, relabelled, edits, fails>>

\* ensureDNSDaemonSet up to the write: daemonsetConfigChanged, and the lists of
\* pods and nodes that daemonsetUpdateIsSafe reads from the cache.
CheckDNSDaemonSet ==
    /\ pass.pc = "daemonset"
    /\ LET placement == Desired(pass.placement)
           updated == Updated(daemonset, [placement |-> placement, image |-> image])
       IN  /\ Comparable(placement.tolerations)
           /\ pass' = IF DaemonsetConfigChanged(daemonset, updated)
                      THEN [pc |-> "update", updated |-> updated,
                            nodes |-> seen, pods |-> pods, fresh |-> TRUE]
                      ELSE [pc |-> "service"]
    /\ UNCHANGED <<spec, image, nodes, daemonset, hints, relabelled, queued, edits, fails>>

\* A plausible fault: the update is sent without the version it is based on.
UpdateDNSDaemonSetForced ==
    /\ pass.pc = "update"
    /\ daemonset' = pass.updated
    /\ queued' = TRUE
    /\ pass' = [pc |-> "service"]
    /\ UNCHANGED <<spec, image, nodes, hints, relabelled, edits, fails>>

\* The Update of the whole daemonset, which the API server accepts only if
\* nobody has changed the daemonset since it was read.  It queues the DNS.
UpdateDNSDaemonSet ==
    /\ pass.pc = "update" /\ pass.fresh
    /\ daemonset' = pass.updated
    /\ queued' = TRUE
    /\ pass' = [pc |-> "service"]
    /\ UNCHANGED <<spec, image, nodes, hints, relabelled, edits, fails>>

\* An error of ensureDNSDaemonSet, or a panic, which the controller turns into
\* an error: the service is not looked at.  A write that is reported as failed
\* may have taken effect, here and below, unless it was a conflict.
EnsureDNSDaemonSetFails ==
    /\ \/ /\ pass.pc = "daemonset"
          /\ IF Comparable(Desired(pass.placement).tolerations) THEN Fail
                                                              ELSE UNCHANGED fails
          /\ UNCHANGED daemonset
       \/ /\ pass.pc = "update" /\ pass.fresh
          /\ Fail /\ daemonset' \in {daemonset, pass.updated}
       \/ /\ pass.pc = "update" /\ ~pass.fresh
          /\ UNCHANGED <<daemonset, fails>>
    /\ queued' = TRUE
    /\ pass' = Idle
    /\ UNCHANGED <<spec, image, nodes, hints, relabelled, edits>>

\* A plausible fault: the annotation is added and never taken away.
EnsureDNSServiceKeeps ==
    /\ pass.pc = "service"
    /\ hints' = (hints \/ ShouldEnableTopologyAwareHints(seen))
    /\ queued' = (queued \/ hints' # hints)
    /\ relabelled' = FALSE
    /\ pass' = Idle
    /\ UNCHANGED <<spec, image, nodes, daemonset, edits, fails>>

\* ensureDNSService.  A change of the service queues the DNS.
EnsureDNSService ==
    /\ pass.pc = "service"
    /\ hints' = ShouldEnableTopologyAwareHints(seen)
    /\ queued' = (queued \/ hints' # hints)
    /\ relabelled' = FALSE
    /\ pass' = Idle
    /\ UNCHANGED <<spec, image, nodes, daemonset, edits, fails>>

EnsureDNSServiceFails ==
    /\ pass.pc = "service"
    /\ Fail
    /\ hints' \in {hints, ShouldEnableTopologyAwareHints(seen)}
    /\ queued' = TRUE
    /\ pass' = Idle
    /\ UNCHANGED <<spec, image, nodes, daemonset, relabelled, edits>>

-----------------------------------------------------------------------------
Edit == edits < MaxEdits /\ edits' = edits + 1

EditDNS(p) ==
    /\ Edit /\ p # spec
    /\ spec' = p /\ queued' = TRUE
    /\ UNCHANGED <<image, nodes, daemonset, hints, relabelled, pass, fails>>

\* Somebody else gives the daemonset a placement.
EditDaemonSet(p) ==
    /\ Edit /\ Desired(p) # daemonset.placement
    /\ Comparable(Desired(p).tolerations)
    /\ daemonset' = [daemonset EXCEPT !.placement = Desired(p)]
    /\ queued' = TRUE
    /\ pass' = IF pass.pc = "update" THEN [pass EXCEPT !.fresh = FALSE] ELSE pass
    /\ UNCHANGED <<spec, image, nodes, hints, relabelled, fails>>

\* A node comes, goes or changes, and the cache learns of it later.
ChangeNode(n, state) ==
    /\ Edit /\ state # node[n]
    /\ node' = [node EXCEPT ![n] = state]
    /\ UNCHANGED <<spec, image, seen, pods, daemonset, hints, relabelled, queued,
                   pass, fails>>

\* The node has moved from one zone to another.
ZoneChanged(old, new) ==
    old.have /\ new.have /\ {old.zone, new.zone} \cap {""} = {} /\ old.zone # new.zone

SeeNode(n) ==
    /\ seen[n] # node[n]
    /\ seen' = [seen EXCEPT ![n] = node[n]]
    /\ IF NodeEvent(seen[n], node[n])
       THEN queued' = TRUE /\ UNCHANGED relabelled
       ELSE /\ UNCHANGED queued
            /\ relabelled' = (relabelled \/ ZoneChanged(seen[n], node[n]))
    /\ UNCHANGED <<spec, image, node, pods, daemonset, hints, pass, edits, fails>>

\* The pods of the daemonset come and go; the main controller is not told.
SeePods ==
    /\ pods' = ~pods
    /\ UNCHANGED <<spec, image, node, seen, daemonset, hints, relabelled, queued,
                   pass, edits, fails>>

\* The informers' resync.
Resync ==
    /\ queued' = TRUE
    /\ UNCHANGED <<spec, image, nodes, daemonset, hints, relabelled, pass, edits,
                   fails>>

\* The operator stops, and one of the same or of another release starts.
Restart(i) ==
    /\ Edit
    /\ image' = i
    /\ seen' = node /\ relabelled' = FALSE
    /\ queued' = TRUE
    /\ pass' = Idle
    /\ UNCHANGED <<spec, node, pods, daemonset, hints, fails>>

Work ==
    \/ Start
    \/ CheckDNSDaemonSet \/ UpdateDNSDaemonSet \/ EnsureDNSDaemonSetFails
    \/ EnsureDNSService \/ EnsureDNSServiceFails

Next ==
    \/ Work
    \/ \E p \in Placements : EditDNS(p) \/ EditDaemonSet(p)
    \/ \E n \in Nodes, state \in NodeStates \cup {Gone} : ChangeNode(n, state)
    \/ \E n \in Nodes : SeeNode(n)
    \/ SeePods
    \/ Resync
    \/ \E i \in Images : Restart(i)

Spec == Init /\ [][Next]_vars

(***************************************************************************)
(* The worker does not stop while there is work, the cache catches up with *)
(* the API server and the resync comes, again and again.  These are the    *)
(* weak fairness of Work, of SeeNode(n), after which the cache has the     *)
(* node as it is, and of Resync, written out.                              *)
(***************************************************************************)
Fairness ==
    /\ []<>(pass = Idle /\ ~queued) \/ []<><<Work>>_vars
    /\ \A n \in Nodes : []<>(seen[n] = node[n])
    /\ []<>queued

FairSpec == Spec /\ Fairness

-----------------------------------------------------------------------------
DaemonSets == [placement : {Desired(p) : p \in Placements}, image : Images]
NodeLists == [Nodes -> NodeStates \cup {Gone}]
Passes ==
    {Idle, [pc |-> "service"]}
    \cup [pc : {"daemonset"}, placement : Placements]
    \cup [pc : {"update"}, updated : DaemonSets, nodes : NodeLists,
          pods : BOOLEAN, fresh : BOOLEAN]

\* The placement of the daemonset is always one that was asked for as a whole,
\* never the selector of one with the tolerations of another.
TypeOK ==
    /\ spec \in Placements /\ image \in Images
    /\ node \in NodeLists /\ seen \in NodeLists
    /\ daemonset \in DaemonSets
    /\ {pods, hints, relabelled, queued} \subseteq BOOLEAN
    /\ pass \in Passes
    /\ edits \in 0 .. MaxEdits /\ fails \in 0 .. MaxFails

\* At rest the service asks for hints just if the nodes that the cache has
\* allow it, unless a node has moved from one zone to another: of the
\* changes that matter, the event filter of New drops no other.
AtRestHints ==
    pass = Idle /\ ~queued /\ ~relabelled =>
        hints = ShouldEnableTopologyAwareHints(seen)

\* A placement that the operator brings is one for which the pass has listed a
\* schedulable node, unless it has listed no pod: what daemonsetUpdateIsSafe
\* found out holds of the write that comes later, also if others write the
\* daemonset in between.  (The nodes themselves may change in between.)
NeverStranded ==
    [][edits' = edits /\ daemonset'.placement # daemonset.placement =>
          ~pass.pods \/ Schedulable(pass.nodes, daemonset'.placement) # {}]_vars

\* A placement for which there is a node is in force in the end, although
\* nothing tells the operator that the node has become schedulable.
PlacementIsApplied ==
    LET Possible == /\ Comparable(Desired(spec).tolerations)
                    /\ Schedulable(node, Desired(spec)) # {}
    IN  Possible ~> daemonset.placement = Desired(spec) \/ ~Possible

\* A new image reaches the daemonset in the end, also while its placement is
\* held back.
ImageIsApplied ==
    LET Possible == Comparable(Desired(spec).tolerations)
    IN  Possible ~> daemonset.image = image \/ ~Possible

\* The hints follow the nodes in the end, also if a node has changed zone.
HintsFollowNodes ==
    \A wanted \in BOOLEAN :
        LET Possible == /\ Comparable(Desired(spec).tolerations)
                        /\ ShouldEnableTopologyAwareHints(node) = wanted
        IN  Possible ~> hints = wanted \/ ~Possible
=============================================================================
