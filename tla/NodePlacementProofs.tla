------------------------ MODULE NodePlacementProofs ------------------------
(***************************************************************************)
(* Proofs about nodes, for every number of nodes and every state they may  *)
(* be in.                                                                  *)
(***************************************************************************)
EXTENDS NodePlacement, TLAPS

\* The states of nodes, on the API server and in the cache.
States == NodeStates \cup {Gone}

\* The types that the proofs below rest on.
Typed ==
    /\ node \in [Nodes -> States] /\ seen \in [Nodes -> States]
    /\ hints \in BOOLEAN /\ queued \in BOOLEAN /\ relabelled \in BOOLEAN
    /\ edits \in Nat

\* A state says whether the node is there, and if so whether it is excluded,
\* ready and has CPU.
LEMMA StateFacts ==
    ASSUME NEW s \in States
    PROVE  /\ s.have \in BOOLEAN
           /\ s.have => /\ s.excluded \in BOOLEAN /\ s.ready \in BOOLEAN
                        /\ s.cpu \in BOOLEAN
<1>1. CASE s \in NodeStates
  BY <1>1, NodeAssumption, Zenon
<1>2. CASE s = Gone
  <2>1. s.have = FALSE
    BY <1>2 DEF Gone
  <2> QED
    BY <2>1, Zenon
<1> QED
  BY <1>1, <1>2 DEF States

\* If the filter of New drops an event and the node has not moved from one
\* zone to another, then the node counts after it just if it counted before,
\* and if so it is invalid both times or valid in the same zone.
LEMMA DroppedEvent ==
    ASSUME NEW old \in States, NEW new \in States,
           ~NodeEvent(old, new), ~ZoneChanged(old, new)
    PROVE  /\ (old.have /\ ~IgnoreNodeForTopologyAwareHints(old))
                 <=> (new.have /\ ~IgnoreNodeForTopologyAwareHints(new))
           /\ old.have /\ ~IgnoreNodeForTopologyAwareHints(old) =>
                 /\ NodeIsValidForTopologyAwareHints(old)
                       <=> NodeIsValidForTopologyAwareHints(new)
                 /\ NodeIsValidForTopologyAwareHints(old) => old.zone = new.zone
<1> USE DEF IgnoreNodeForTopologyAwareHints, NodeIsValidForTopologyAwareHints
<1>1. CASE old.have /\ new.have
  <2>1. /\ old.excluded \in BOOLEAN /\ old.ready \in BOOLEAN /\ old.cpu \in BOOLEAN
        /\ new.excluded \in BOOLEAN /\ new.ready \in BOOLEAN /\ new.cpu \in BOOLEAN
    BY <1>1, StateFacts
  <2>2. (old.excluded \/ ~old.ready) <=> (new.excluded \/ ~new.ready)
    BY Zenon, <1>1, <2>1 DEF NodeEvent
  <2>3. ~(new.excluded \/ ~new.ready) =>
            ((old.cpu /\ old.zone # "") <=> (new.cpu /\ new.zone # ""))
    BY Zenon, <1>1, <2>1 DEF NodeEvent
  <2>4. old.zone # "" /\ new.zone # "" => old.zone = new.zone
    BY Zenon, <1>1 DEF ZoneChanged
  <2> QED
    BY Zenon, <1>1, <2>2, <2>3, <2>4
<1>2. CASE ~(old.have /\ new.have)
  BY Zenon, <1>2 DEF NodeEvent
<1> QED
  BY Zenon, <1>1, <1>2

\* Such an event makes no difference to the hints.
LEMMA HintsUnchanged ==
    ASSUME NEW list \in [Nodes -> States], NEW n \in Nodes, NEW new \in States,
           ~NodeEvent(list[n], new), ~ZoneChanged(list[n], new)
    PROVE  ShouldEnableTopologyAwareHints([list EXCEPT ![n] = new])
              <=> ShouldEnableTopologyAwareHints(list)
<1> DEFINE after == [list EXCEPT ![n] = new]
<1>1. /\ after \in [Nodes -> States] /\ after[n] = new
      /\ \A m \in Nodes \ {n} : after[m] = list[m]
  OBVIOUS
<1> HIDE DEF after
<1>2. Considered(after) = Considered(list)
  BY <1>1, DroppedEvent DEF Considered
<1>3. \A m \in Considered(list) :
          /\ NodeIsValidForTopologyAwareHints(after[m])
                <=> NodeIsValidForTopologyAwareHints(list[m])
          /\ NodeIsValidForTopologyAwareHints(list[m]) =>
                after[m].zone = list[m].zone
  BY ZenonT(40), <1>1, DroppedEvent DEF Considered
<1>4. ShouldEnableTopologyAwareHints(after) <=> ShouldEnableTopologyAwareHints(list)
  BY <1>2, <1>3 DEF ShouldEnableTopologyAwareHints
<1> QED
  BY <1>4 DEF after

-----------------------------------------------------------------------------
\* The hints are those of the nodes in the cache, unless a request waits, a
\* pass runs or a node has changed zone.  What a pass has read when it writes
\* the service is the cache itself.
HintsInv == Typed /\ AtRestHints

\* Idle is not the pc of a pass that runs.
LEMMA IdlePc == Idle.pc = "idle"
  BY DEF Idle

\* Hints are a Boolean.
LEMMA HintsBoolean ==
    ASSUME NEW list
    PROVE  ShouldEnableTopologyAwareHints(list) \in BOOLEAN
  BY DEF ShouldEnableTopologyAwareHints

\* The types hold at the start, when a request waits.
LEMMA InitHints == Init => HintsInv
<1> SUFFICES ASSUME Init
             PROVE  HintsInv
  OBVIOUS
<1>1. node \in [Nodes -> States] /\ seen \in [Nodes -> States]
  BY DEF Init, States
<1>2. hints \in BOOLEAN /\ queued \in BOOLEAN /\ relabelled \in BOOLEAN
  BY Zenon DEF Init
<1>3. edits \in Nat
  BY DEF Init
<1>4. pass = Idle /\ queued
  BY Zenon DEF Init
<1> QED
  BY <1>1, <1>2, <1>3, <1>4 DEF HintsInv, Typed, AtRestHints

\* Steps of the worker.
LEMMA WorkHints ==
    ASSUME HintsInv, Work
    PROVE  HintsInv'
<1> USE DEF HintsInv
<1>1. CASE Start
  <2>1. /\ pass' = [pc |-> "daemonset", placement |-> spec] /\ pass' # Idle
        /\ UNCHANGED <<node, seen, hints, relabelled, edits>> /\ queued' = FALSE
    BY <1>1, IdlePc DEF Start, nodes
  <2>2. Typed'
    BY Zenon, <2>1 DEF Typed
  <2> QED
    BY <2>1, <2>2 DEF AtRestHints
<1>2. CASE CheckDNSDaemonSet \/ UpdateDNSDaemonSet
  <2>1. UNCHANGED <<node, seen, hints, relabelled, edits>>
    BY <1>2 DEF CheckDNSDaemonSet, UpdateDNSDaemonSet, nodes
  <2>2. queued' \in BOOLEAN
    BY Zenon, <1>2 DEF CheckDNSDaemonSet, UpdateDNSDaemonSet, Typed
  <2>3. pass'.pc \in {"update", "service"}
    BY <1>2 DEF CheckDNSDaemonSet, UpdateDNSDaemonSet
  <2>4. pass' # Idle
    BY <2>3, IdlePc
  <2>5. Typed'
    BY <2>1, <2>2 DEF Typed
  <2> QED
    BY <2>4, <2>5 DEF AtRestHints
<1>3. CASE EnsureDNSDaemonSetFails \/ EnsureDNSServiceFails
  <2>1. /\ pass' = Idle /\ queued' = TRUE
        /\ hints' \in {hints, ShouldEnableTopologyAwareHints(seen)}
        /\ UNCHANGED <<node, seen, relabelled, edits>>
    BY <1>3 DEF EnsureDNSDaemonSetFails, EnsureDNSServiceFails, nodes
  <2>2. Typed'
    BY <2>1, HintsBoolean DEF Typed
  <2> QED
    BY <2>1, <2>2 DEF AtRestHints
<1>4. CASE EnsureDNSService
  <2>1. /\ pass' = Idle /\ relabelled' = FALSE
        /\ hints' = ShouldEnableTopologyAwareHints(seen)
        /\ UNCHANGED <<node, seen, edits>>
    BY <1>4 DEF EnsureDNSService, nodes
  <2>2. queued' \in BOOLEAN
    BY <1>4 DEF EnsureDNSService, Typed
  <2>3. Typed'
    BY Zenon, <2>1, <2>2, HintsBoolean DEF Typed
  <2>4. AtRestHints'
    BY <2>1 DEF AtRestHints, ShouldEnableTopologyAwareHints, Considered
  <2> QED
    BY <2>3, <2>4
<1> QED
  BY <1>1, <1>2, <1>3, <1>4 DEF Work

\* The cache learns of a change of a node.
LEMMA SeeNodeHints ==
    ASSUME HintsInv, NEW n \in Nodes, SeeNode(n)
    PROVE  HintsInv'
<1> USE DEF HintsInv
<1>1. /\ seen' = [seen EXCEPT ![n] = node[n]]
      /\ UNCHANGED <<node, hints, pass, edits>>
  BY DEF SeeNode
<1>2. seen[n] \in States /\ node[n] \in States
  BY DEF Typed
<1>3. queued' \in BOOLEAN /\ relabelled' \in BOOLEAN
  BY Zenon DEF SeeNode, Typed
<1>4. Typed'
  BY <1>1, <1>2, <1>3 DEF Typed
<1>5. ASSUME pass' = Idle, ~queued', ~relabelled'
      PROVE  hints' = ShouldEnableTopologyAwareHints(seen')
  <2>1. /\ ~NodeEvent(seen[n], node[n]) /\ ~ZoneChanged(seen[n], node[n])
        /\ ~queued /\ ~relabelled
    BY Zenon, <1>5 DEF SeeNode
  <2>2. hints = ShouldEnableTopologyAwareHints(seen)
    BY <1>1, <1>5, <2>1 DEF AtRestHints
  <2>3. ShouldEnableTopologyAwareHints(seen')
           <=> ShouldEnableTopologyAwareHints(seen)
    BY Zenon, <1>1, <1>2, <2>1, HintsUnchanged DEF Typed
  <2>4. /\ ShouldEnableTopologyAwareHints(seen) \in BOOLEAN
        /\ ShouldEnableTopologyAwareHints(seen') \in BOOLEAN
    BY HintsBoolean
  <2> QED
    BY <1>1, <2>2, <2>3, <2>4, Zenon
<1>6. AtRestHints'
  BY <1>5 DEF AtRestHints, ShouldEnableTopologyAwareHints, Considered
<1> QED
  BY <1>4, <1>6

\* Everybody else's steps: each queues the DNS or leaves cache and hints alone.
LEMMA OthersHints ==
    ASSUME HintsInv,
           \/ \E p \in Placements : EditDNS(p) \/ EditDaemonSet(p)
           \/ \E n \in Nodes, state \in NodeStates \cup {Gone} : ChangeNode(n, state)
           \/ SeePods
           \/ Resync
           \/ \E i \in Images : Restart(i)
    PROVE  HintsInv'
<1> USE DEF HintsInv
<1>1. CASE Resync \/ \E p \in Placements : EditDNS(p) \/ EditDaemonSet(p)
  <2>1. queued' = TRUE /\ UNCHANGED <<node, seen, hints, relabelled>>
    BY <1>1 DEF Resync, EditDNS, EditDaemonSet, nodes
  <2>2. edits' \in Nat
    BY <1>1 DEF Resync, EditDNS, EditDaemonSet, Edit, Typed
  <2>3. Typed'
    BY <2>1, <2>2 DEF Typed
  <2> QED
    BY <2>1, <2>3 DEF AtRestHints
<1>2. CASE SeePods \/ \E n \in Nodes, state \in NodeStates \cup {Gone} : ChangeNode(n, state)
  <2>1. UNCHANGED <<seen, hints, relabelled, queued, pass>>
    BY <1>2 DEF SeePods, ChangeNode
  <2>2. edits' \in Nat
    BY <1>2 DEF SeePods, ChangeNode, Edit, Typed
  <2>3. node' \in [Nodes -> States]
    BY <1>2 DEF SeePods, ChangeNode, Typed, States
  <2>4. Typed'
    BY <2>1, <2>2, <2>3 DEF Typed
  <2>5. AtRestHints'
    BY <2>1 DEF AtRestHints, ShouldEnableTopologyAwareHints, Considered
  <2> QED
    BY <2>4, <2>5
<1>3. CASE \E i \in Images : Restart(i)
  <2>1. /\ seen' = node /\ relabelled' = FALSE /\ queued' = TRUE /\ pass' = Idle
        /\ UNCHANGED <<node, hints>>
    BY <1>3 DEF Restart
  <2>2. edits' \in Nat
    BY <1>3 DEF Restart, Edit, Typed
  <2>3. Typed'
    BY Zenon, <2>1, <2>2 DEF Typed
  <2> QED
    BY <2>1, <2>3 DEF AtRestHints
<1> QED
  BY <1>1, <1>2, <1>3

\* Every step keeps the invariant.
LEMMA StepHints == HintsInv /\ [Next]_vars => HintsInv'
<1> SUFFICES ASSUME HintsInv, [Next]_vars
             PROVE  HintsInv'
  OBVIOUS
<1>1. CASE UNCHANGED vars
  <2>1. UNCHANGED <<node, seen, hints, relabelled, queued, pass, edits>>
    BY <1>1 DEF vars, nodes
  <2> QED
    BY Zenon, <2>1
       DEF HintsInv, Typed, AtRestHints, ShouldEnableTopologyAwareHints, Considered
<1>2. CASE Work
  BY <1>2, WorkHints
<1>3. CASE \E n \in Nodes : SeeNode(n)
  BY <1>3, SeeNodeHints
<1> QED
  BY <1>1, <1>2, <1>3, OthersHints DEF Next

\* The types and AtRestHints hold of every reachable state.
LEMMA HintsInvAlways == Spec => []HintsInv
  BY InitHints, StepHints, PTL DEF Spec

\* The event filter of New lets nothing pass that the hints depend on, but a
\* move from one zone to another: whatever the nodes do, the service of an
\* operator at rest asks for hints just if shouldEnableTopologyAwareHints says
\* so of the cache.
THEOREM RestHintsCurrent == Spec => []AtRestHints
  BY HintsInvAlways, PTL DEF HintsInv

-----------------------------------------------------------------------------
\* What TypeOK asks beyond Typed and Asked.
Bounded ==
    /\ pods \in BOOLEAN
    /\ edits \in 0 .. MaxEdits /\ fails \in 0 .. MaxFails

\* The bounds hold at the start.
LEMMA InitBounded == Init => Bounded
<1> SUFFICES ASSUME Init
             PROVE  Bounded
  OBVIOUS
<1>1. pods \in BOOLEAN
  BY Zenon DEF Init
<1>2. edits = 0 /\ fails = 0 /\ MaxEdits \in Nat /\ MaxFails \in Nat
  BY NodeAssumption DEF Init
<1> QED
  BY <1>1, <1>2 DEF Bounded

\* Every step counts within its bound, and only SeePods changes pods.
LEMMA StepBounded == Bounded /\ [Next]_vars => Bounded'
<1> SUFFICES ASSUME Bounded, [Next]_vars
             PROVE  Bounded'
  OBVIOUS
<1>1. /\ UNCHANGED edits \/ Edit
      /\ UNCHANGED fails \/ Fail
      /\ UNCHANGED pods \/ pods' = ~pods
  BY Zenon DEF Next, Work, Start, CheckDNSDaemonSet, UpdateDNSDaemonSet,
               EnsureDNSDaemonSetFails, EnsureDNSService, EnsureDNSServiceFails,
               EditDNS, EditDaemonSet, ChangeNode, SeeNode, SeePods, Resync,
               Restart, vars, nodes
<1>2. /\ edits \in 0 .. MaxEdits /\ MaxEdits \in Nat
      /\ fails \in 0 .. MaxFails /\ MaxFails \in Nat
  BY NodeAssumption DEF Bounded
<1>3. edits' \in 0 .. MaxEdits /\ fails' \in 0 .. MaxFails
  BY <1>1, <1>2 DEF Edit, Fail
<1>4. pods' \in BOOLEAN
  BY Zenon, <1>1 DEF Bounded
<1> QED
  BY <1>3, <1>4 DEF Bounded

-----------------------------------------------------------------------------
\* The daemonset has a placement that was asked for, and so has the pass that
\* is about to write one.
Asked ==
    /\ spec \in Placements /\ image \in Images
    /\ daemonset \in DaemonSets
    /\ pass \in Passes

\* The operator starts with the default placement.
LEMMA InitAsked == Init => Asked
<1> SUFFICES ASSUME Init
             PROVE  Asked
  OBVIOUS
<1>1. spec \in Placements /\ pass = Idle
  BY DEF Init
<1>2. image \in Images
  BY NodeAssumption DEF Init, Images
<1>3. daemonset = [placement |-> Desired(spec), image |-> image]
  BY DEF Init
<1> QED
  BY <1>1, <1>2, <1>3 DEF Asked, DaemonSets, Passes

\* A pass with a given pc has the fields of that pc.
LEMMA PassFields ==
    ASSUME NEW p \in Passes
    PROVE  /\ p.pc = "daemonset" => p.placement \in Placements
           /\ p.pc = "update" =>
                 p \in [pc : {"update"}, updated : DaemonSets, nodes : NodeLists,
                        pods : BOOLEAN, fresh : BOOLEAN]
  BY DEF Passes, Idle

\* An update takes the placement that is wanted or keeps the one in force.
LEMMA UpdatedAsked ==
    ASSUME Asked, NEW p \in Placements
    PROVE  Updated(daemonset, [placement |-> Desired(p), image |-> image])
              \in DaemonSets
<1> DEFINE desired == [placement |-> Desired(p), image |-> image]
<1>1. desired \in DaemonSets
  BY DEF Asked, DaemonSets
<1>2. [desired EXCEPT !.placement = daemonset.placement] \in DaemonSets
  BY DEF Asked, DaemonSets
<1> QED
  BY <1>1, <1>2 DEF Updated

\* Every step keeps it.
LEMMA StepAsked == Typed /\ Bounded /\ Asked /\ [Next]_vars => Asked'
<1> SUFFICES ASSUME Typed, Bounded, Asked, [Next]_vars
             PROVE  Asked'
  OBVIOUS
<1>1. CASE Start
  <2>1. /\ pass' = [pc |-> "daemonset", placement |-> spec]
        /\ UNCHANGED <<spec, image, daemonset>>
    BY <1>1 DEF Start
  <2>2. pass' \in Passes
    BY <2>1 DEF Asked, Passes
  <2> QED
    BY <2>1, <2>2 DEF Asked
<1>2. CASE CheckDNSDaemonSet
  <2> DEFINE updated == Updated(daemonset,
                           [placement |-> Desired(pass.placement), image |-> image])
  <2>1. /\ pass.pc = "daemonset" /\ UNCHANGED <<spec, image, daemonset>>
        /\ \/ pass' = [pc |-> "service"]
           \/ pass' = [pc |-> "update", updated |-> updated,
                       nodes |-> seen, pods |-> pods, fresh |-> TRUE]
    BY <1>2 DEF CheckDNSDaemonSet
  <2>2. updated \in DaemonSets
    BY <2>1, PassFields, UpdatedAsked DEF Asked
  <2>3. seen \in NodeLists /\ pods \in BOOLEAN
    BY DEF Typed, Bounded, NodeLists, States
  <2> HIDE DEF updated
  <2>4. [pc |-> "update", updated |-> updated, nodes |-> seen, pods |-> pods, fresh |-> TRUE]
           \in [pc : {"update"}, updated : DaemonSets, nodes : NodeLists,
                pods : BOOLEAN, fresh : BOOLEAN]
    BY <2>2, <2>3
  <2>5. pass' \in Passes
    BY Zenon, <2>1, <2>4 DEF Passes
  <2> QED
    BY <2>1, <2>5 DEF Asked
<1>9. CASE UpdateDNSDaemonSet
  <2>1. /\ pass.pc = "update" /\ daemonset' = pass.updated
        /\ pass' = [pc |-> "service"] /\ UNCHANGED <<spec, image>>
    BY <1>9 DEF UpdateDNSDaemonSet
  <2>2. daemonset' \in DaemonSets
    BY <2>1, PassFields DEF Asked
  <2>3. pass' \in Passes
    BY <2>1 DEF Passes
  <2> QED
    BY <2>1, <2>2, <2>3 DEF Asked
<1>3. CASE EnsureDNSService \/ EnsureDNSServiceFails
  <2>1. pass' = Idle /\ UNCHANGED <<spec, image, daemonset>>
    BY <1>3 DEF EnsureDNSService, EnsureDNSServiceFails
  <2> QED
    BY <2>1 DEF Asked, Passes
<1>8. CASE EnsureDNSDaemonSetFails
  <2>1. /\ \/ daemonset' = daemonset
           \/ pass.pc = "update" /\ daemonset' = pass.updated
        /\ pass' = Idle /\ UNCHANGED <<spec, image>>
    BY <1>8 DEF EnsureDNSDaemonSetFails
  <2>2. daemonset' \in DaemonSets
    BY <2>1, PassFields DEF Asked
  <2> QED
    BY <2>1, <2>2 DEF Asked, Passes
<1>4. CASE \E p \in Placements : EditDNS(p)
  <2>1. spec' \in Placements /\ UNCHANGED <<image, daemonset, pass>>
    BY <1>4 DEF EditDNS
  <2> QED
    BY <2>1 DEF Asked
<1>5. CASE \E p \in Placements : EditDaemonSet(p)
  <2>1. PICK p \in Placements : EditDaemonSet(p)
    BY <1>5
  <2>2. /\ daemonset' = [daemonset EXCEPT !.placement = Desired(p)]
        /\ pass' = IF pass.pc = "update" THEN [pass EXCEPT !.fresh = FALSE] ELSE pass
        /\ UNCHANGED <<spec, image>>
    BY <2>1 DEF EditDaemonSet
  <2>3. daemonset' \in DaemonSets
    BY <2>2 DEF Asked, DaemonSets
  <2>4. CASE pass.pc = "update"
    <3>1. pass \in [pc : {"update"}, updated : DaemonSets, nodes : NodeLists,
                    pods : BOOLEAN, fresh : BOOLEAN]
      BY <2>4, PassFields DEF Asked
    <3>2. pass' \in [pc : {"update"}, updated : DaemonSets, nodes : NodeLists,
                     pods : BOOLEAN, fresh : BOOLEAN]
      BY <2>2, <2>4, <3>1
    <3>3. pass' \in Passes
      BY <3>2 DEF Passes
    <3> QED
      BY <2>2, <2>3, <3>3 DEF Asked
  <2>5. CASE pass.pc # "update"
    BY <2>2, <2>3, <2>5 DEF Asked
  <2> QED
    BY <2>4, <2>5
<1>6. CASE \/ UNCHANGED vars \/ SeePods \/ Resync
           \/ \E n \in Nodes, state \in NodeStates \cup {Gone} : ChangeNode(n, state)
           \/ \E n \in Nodes : SeeNode(n)
  <2>1. UNCHANGED <<spec, image, daemonset, pass>>
    BY <1>6 DEF vars, SeePods, Resync, ChangeNode, SeeNode
  <2> QED
    BY <2>1 DEF Asked
<1>7. CASE \E i \in Images : Restart(i)
  <2>1. image' \in Images /\ pass' = Idle /\ UNCHANGED <<spec, daemonset>>
    BY <1>7 DEF Restart
  <2> QED
    BY <2>1 DEF Asked, Passes
<1> QED
  BY <1>1, <1>2, <1>3, <1>4, <1>5, <1>6, <1>7, <1>8, <1>9 DEF Next, Work

\* Types and bounds hold of every reachable state.
LEMMA TypedAlways == Spec => [](Typed /\ Bounded)
<1>1. HintsInv => Typed
  BY DEF HintsInv
<1> QED
  BY <1>1, HintsInvAlways, InitBounded, StepBounded, PTL DEF Spec

\* updateDNSDaemonSet never mixes two placements: the daemonset has the
\* selector and the tolerations of one placement that was asked for, however
\* often an unsafe update is left out and whoever else writes the daemonset.
THEOREM PlacementNeverMixed == Spec => []Asked
  BY InitAsked, StepAsked, TypedAlways, PTL DEF Spec

-----------------------------------------------------------------------------
\* What a pass is about to write was checked: it keeps the placement, or the
\* pass has listed a node for the new one, or no pod.  Once somebody else has
\* written the daemonset, the pass does not write it any more.
Checked ==
    pass.pc = "update" /\ pass.fresh =>
        \/ pass.updated.placement = daemonset.placement
        \/ ~pass.pods
        \/ Schedulable(pass.nodes, pass.updated.placement) # {}

\* An update that is not safe keeps the placement.
LEMMA UpdatedIsSafe ==
    ASSUME NEW placement, NEW i
    PROVE  LET updated == Updated(daemonset, [placement |-> placement, image |-> i])
           IN  \/ updated.placement = daemonset.placement
               \/ ~pods
               \/ Schedulable(seen, updated.placement) # {}
<1> DEFINE desired == [placement |-> placement, image |-> i]
<1>1. CASE DaemonsetUpdateIsSafe(daemonset.placement, placement)
  BY <1>1 DEF Updated, DaemonsetUpdateIsSafe
<1>2. CASE ~DaemonsetUpdateIsSafe(daemonset.placement, placement)
  BY <1>2 DEF Updated
<1> QED
  BY <1>1, <1>2

\* Every step keeps it: the list of nodes is part of the pass, and whoever
\* else writes the daemonset makes the pass outdated.
LEMMA StepChecked == Asked /\ Checked /\ [Next]_vars => Checked'
<1> SUFFICES ASSUME Asked, Checked, [Next]_vars
             PROVE  Checked'
  OBVIOUS
<1>1. CASE CheckDNSDaemonSet
  <2> DEFINE updated == Updated(daemonset,
                           [placement |-> Desired(pass.placement), image |-> image])
  <2>1. /\ UNCHANGED daemonset
        /\ \/ pass' = [pc |-> "service"]
           \/ pass' = [pc |-> "update", updated |-> updated,
                       nodes |-> seen, pods |-> pods, fresh |-> TRUE]
    BY <1>1 DEF CheckDNSDaemonSet
  <2>2. \/ updated.placement = daemonset.placement
        \/ ~pods
        \/ Schedulable(seen, updated.placement) # {}
    BY UpdatedIsSafe
  <2> HIDE DEF updated
  <2> QED
    BY <2>1, <2>2 DEF Checked, Schedulable
<1>2. CASE \/ Start \/ UpdateDNSDaemonSet \/ EnsureDNSDaemonSetFails
           \/ EnsureDNSService \/ EnsureDNSServiceFails
           \/ \E i \in Images : Restart(i)
  <2>1. pass'.pc # "update"
    BY <1>2, IdlePc DEF Start, UpdateDNSDaemonSet, EnsureDNSDaemonSetFails,
                        EnsureDNSService, EnsureDNSServiceFails, Restart
  <2> QED
    BY <2>1 DEF Checked
<1>3. CASE \E p \in Placements : EditDaemonSet(p)
  <2>1. pass' = IF pass.pc = "update" THEN [pass EXCEPT !.fresh = FALSE] ELSE pass
    BY <1>3 DEF EditDaemonSet
  <2>2. pass'.pc = "update" => pass'.fresh = FALSE
    BY <2>1, PassFields DEF Asked
  <2> QED
    BY Zenon, <2>2 DEF Checked
<1>4. CASE \/ UNCHANGED vars \/ SeePods \/ Resync
           \/ \E p \in Placements : EditDNS(p)
           \/ \E n \in Nodes, state \in NodeStates \cup {Gone} : ChangeNode(n, state)
           \/ \E n \in Nodes : SeeNode(n)
  <2>1. UNCHANGED <<daemonset, pass>>
    BY <1>4 DEF vars, SeePods, Resync, EditDNS, ChangeNode, SeeNode
  <2> QED
    BY <2>1 DEF Checked, Schedulable
<1> QED
  BY <1>1, <1>2, <1>3, <1>4 DEF Next, Work

\* A step of the operator that brings another placement writes what the pass
\* has checked.
LEMMA StepStranded ==
    ASSUME Typed, Checked, [Next]_vars, edits' = edits,
           daemonset'.placement # daemonset.placement
    PROVE  ~pass.pods \/ Schedulable(pass.nodes, daemonset'.placement) # {}
<1>1. CASE UpdateDNSDaemonSet \/ EnsureDNSDaemonSetFails
  <2>1. pass.pc = "update" /\ pass.fresh /\ daemonset' = pass.updated
    BY <1>1 DEF UpdateDNSDaemonSet, EnsureDNSDaemonSetFails
  <2> QED
    BY <2>1 DEF Checked
<1>2. CASE \/ UNCHANGED vars \/ Start \/ CheckDNSDaemonSet
           \/ EnsureDNSService \/ EnsureDNSServiceFails
           \/ Resync \/ SeePods \/ \E n \in Nodes : SeeNode(n)
  <2>1. UNCHANGED daemonset
    BY <1>2 DEF vars, Start, CheckDNSDaemonSet, EnsureDNSService,
                EnsureDNSServiceFails, Resync, SeePods, SeeNode
  <2> QED
    BY <2>1
<1>3. ASSUME Edit PROVE FALSE
  BY <1>3 DEF Edit, Typed
<1> QED
  BY Zenon, <1>1, <1>2, <1>3
     DEF Next, Work, EditDNS, EditDaemonSet, ChangeNode, Restart

\* daemonsetUpdateIsSafe holds its promise for any nodes: every placement that
\* the operator brings is one for which it has listed a schedulable node, or
\* no pod, however the lists and the write interleave with everybody else.
THEOREM NeverStrandedAlways == Spec => NeverStranded
<1>1. Init => Checked
  BY IdlePc DEF Init, Checked
<1>2. ASSUME Typed, Checked, [Next]_vars
      PROVE  [edits' = edits /\ daemonset'.placement # daemonset.placement =>
                 ~pass.pods \/ Schedulable(pass.nodes, daemonset'.placement) # {}]_vars
  BY <1>2, StepStranded
<1>3. Spec => []Checked
  BY <1>1, StepChecked, PlacementNeverMixed, PTL DEF Spec
<1> QED
  BY <1>2, <1>3, TypedAlways, PTL DEF Spec, NeverStranded

-----------------------------------------------------------------------------
\* The variables keep their types: for any nodes and any placements, the
\* daemonset has one whole placement that was asked for.
THEOREM TypesAlways == Spec => []TypeOK
<1>1. Typed /\ Asked /\ Bounded => TypeOK
  BY DEF Typed, States, Asked, Bounded, TypeOK, NodeLists
<1> QED
  BY <1>1, TypedAlways, PlacementNeverMixed, PTL
=============================================================================
