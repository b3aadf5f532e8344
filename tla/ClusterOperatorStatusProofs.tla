--------------------- MODULE ClusterOperatorStatusProofs ---------------------
(* Proofs about ClusterOperatorStatus, for any releases, pods and DNS.     *)
EXTENDS ClusterOperatorStatus, FiniteSetTheorems, TLAPS

-----------------------------------------------------------------------------
(* What the functions of a pass return.                                    *)

\* computeNewVersions: the configured versions name an image for every name.
LEMMA NewVersionsType ==
    ASSUME release \in Releases
    PROVE  NewVersions \in [Names -> Images]
BY ReleaseAssumption DEF NewVersions

\* computeCurrentVersions keeps the type of the versions it is given.
LEMMA CurrentVersionsType ==
    ASSUME release \in Releases,
           NEW old \in [Names -> Images \cup Unset]
    PROVE  ComputeCurrentVersions(old) \in [Names -> Images \cup Unset]
BY NewVersionsType DEF ComputeCurrentVersions

\* Every computed condition is decided, and Upgradeable is True or False.
LEMMA ConditionsType ==
    ASSUME NEW cur
    PROVE  /\ ComputeConditions(cur) \in [Types -> {"True", "False", "Unknown"}]
           /\ ComputeConditions(cur)["Upgradeable"] # "Unknown"
BY DEF ComputeConditions, Types, TrueIf, ComputeOperatorAvailableCondition,
       ComputeOperatorProgressingCondition, ComputeOperatorDegradedCondition,
       ComputeOperatorUpgradeableCondition

\* mergeConditions leaves nothing of the old conditions: a pass computes all
\* four.
LEMMA MergeReplacesAll ==
    ASSUME NEW conds, NEW cur
    PROVE  MergeConditions(conds, ComputeConditions(cur)) = ComputeConditions(cur)
BY Zenon, ConditionsType DEF MergeConditions, ComputeConditions

\* computeCurrentVersions bumps the containers of the DNS pods together and
\* the operator only together with everything else.
LEMMA BumpedTogether ==
    /\ Bumped \subseteq Names
    /\ "coredns" \in Bumped <=> "kube-rbac-proxy" \in Bumped
    /\ "operator" \in Bumped => Operands \subseteq Bumped
BY DEF Bumped, Levelled, Names, Operands


\* A pass that computes a status keeps its type and sets the conditions anew.
LEMMA ComputeStatusType ==
    ASSUME release \in Releases, NEW old \in Status
    PROVE  LET cur == ComputeCurrentVersions(old.versions)
               new == ComputeStatus(old, cur)
           IN  /\ new \in Status
               /\ new.exists = old.exists
               /\ new.versions = cur
               /\ new.cond = ComputeConditions(cur)
               /\ new.cond["Upgradeable"] # "Unknown"
<1> DEFINE cur == ComputeCurrentVersions(old.versions)
           conds == ComputeConditions(cur)
<1>1. cur \in [Names -> Images \cup Unset]
  BY CurrentVersionsType DEF Status
<1>2. conds \in [Types -> Statuses] /\ conds["Upgradeable"] # "Unknown"
  BY ConditionsType DEF Statuses
<1>3. MergeConditions(old.cond, conds) = conds
  BY MergeReplacesAll
<1> HIDE DEF cur, conds
<1>4. ComputeStatus(old, cur) = [old EXCEPT !.versions = cur, !.cond = conds]
  BY <1>3 DEF ComputeStatus, conds
<1> QED  BY Zenon, <1>1, <1>2, <1>4 DEF Status, cur, conds

\* A new ClusterOperator, as the controller or as the API server has it.
LEMMA NewStatusType ==
    /\ InitializeClusterOperator \in Status
    /\ InitializeClusterOperator.exists
    /\ InitializeClusterOperator.versions = [n \in Names |-> Unknown]
    /\ InitializeClusterOperator.cond["Upgradeable"] # "Unknown"
    /\ \A b \in BOOLEAN : /\ Empty(b) \in Status /\ Empty(b).exists = b
                          /\ Empty(b).versions = [n \in Names |-> ""]
                          /\ Empty(b).cond["Upgradeable"] # "Unknown"
BY Zenon DEF InitializeClusterOperator, Empty, Status, NoConditions, Unset, Unknown,
   Types, Statuses

\* What Reconcile reads and writes, by cases: the ClusterOperator that is
\* there or the new one, as it is or with the computed status.
LEMMA ReconcileCases ==
    ASSUME TypeOK, Reconcile
    PROVE  \E old \in Status :
              LET cur == ComputeCurrentVersions(old.versions)
                  new == ComputeStatus(old, cur)
              IN  /\ old = IF co.exists THEN co ELSE InitializeClusterOperator
                  /\ old.exists
                  /\ \/ old = new /\ co' = old /\ queued' = FALSE
                     \/ old # new /\ co' = new /\ queued' = TRUE
                  /\ UNCHANGED <<release, dns, desired, ready, writes>>
<1> DEFINE old == IF co.exists THEN co ELSE InitializeClusterOperator
<1>1. old \in Status /\ old.exists
  BY Zenon, NewStatusType DEF TypeOK
<1> QED  BY <1>1 DEF Reconcile, OperatorStatusesEqual, observed

-----------------------------------------------------------------------------
(* Type correctness.                                                       *)

\* The operator starts without a ClusterOperator.
LEMMA InitType == ASSUME Init PROVE TypeOK
<1>1. \A d \in Daemonsets : [p \in Pods[d] |-> NotReady] \in [Pods[d] -> Releases \cup {NotReady}]
  OBVIOUS
<1>2. dns \in DNSes
  BY DEF Init, DNSes
<1>3. co \in Status /\ co.cond["Upgradeable"] # "Unknown" /\ co = Absent
  BY Zenon, NewStatusType DEF Init, Absent
<1>4. DOMAIN ready = Daemonsets /\ \A d \in Daemonsets : ready[d] = [p \in Pods[d] |-> NotReady]
  BY DEF Init
<1>5. writes \in 0 .. MaxWrites
  BY ReleaseAssumption DEF Init
<1>6. desired \in [Daemonsets -> Nat] /\ queued \in BOOLEAN /\ release \in Releases
  BY Zenon DEF Init
<1> QED  BY <1>1, <1>2, <1>3, <1>4, <1>5, <1>6 DEF TypeOK

\* Every step keeps the types.
LEMMA StepType == ASSUME TypeOK, [Next]_vars PROVE TypeOK'
<1>1. CASE Reconcile
  <2> PICK old \in Status :
              LET cur == ComputeCurrentVersions(old.versions)
                  new == ComputeStatus(old, cur)
              IN  /\ old = IF co.exists THEN co ELSE InitializeClusterOperator
                  /\ old.exists
                  /\ \/ old = new /\ co' = old /\ queued' = FALSE
                     \/ old # new /\ co' = new /\ queued' = TRUE
                  /\ UNCHANGED <<release, dns, desired, ready, writes>>
    BY Zenon, <1>1, ReconcileCases
  <2>1. old.cond["Upgradeable"] # "Unknown"
    BY Zenon, NewStatusType DEF TypeOK
  <2>2. release \in Releases
    BY DEF TypeOK
  <2>3. co' \in Status /\ co'.cond["Upgradeable"] # "Unknown" /\ co'.exists
    BY <2>1, <2>2, ComputeStatusType
  <2>4. queued' \in BOOLEAN
    BY Zenon
  <2> QED  BY <2>3, <2>4 DEF TypeOK
<1>2. CASE ReconcileFails
  BY Zenon, <1>2, NewStatusType DEF ReconcileFails, observed, TypeOK
<1>3. CASE SeeDNS
  BY <1>3 DEF SeeDNS, TypeOK
<1>4. ASSUME NEW d \in Daemonsets, SeeDaemonSet(d) PROVE TypeOK'
  <2>1. Cardinality(Pods[d]) \in Nat
    BY ReleaseAssumption, FS_CardinalityType
  <2> QED  BY <1>4, <2>1 DEF SeeDaemonSet, TypeOK
<1>5. ASSUME NEW d \in Daemonsets, NEW p \in Pods[d], SeePod(d, p) PROVE TypeOK'
  BY <1>5 DEF SeePod, TypeOK
<1>6. CASE WriteClusterOperator
  <2>1. Absent \in Status /\ Absent.cond["Upgradeable"] # "Unknown"
    BY Zenon, NewStatusType DEF Absent
  <2>2. [co EXCEPT !.cond["Available"] = "True"] \in Status
    BY DEF TypeOK, Status, Statuses
  <2>3. /\ [co EXCEPT !.cond["Available"] = "True"].cond["Upgradeable"] = co.cond["Upgradeable"]
        /\ [co EXCEPT !.cond["Available"] = "True"].exists = co.exists
    BY DEF TypeOK, Status, Types
  <2>4. co' \in Status /\ co'.cond["Upgradeable"] # "Unknown" /\ (co'.exists \/ co' = Absent)
    BY Zenon, <1>6, <2>1, <2>2, <2>3 DEF WriteClusterOperator, TypeOK
  <2>5. writes' \in 0 .. MaxWrites
    BY <1>6, ReleaseAssumption DEF WriteClusterOperator, TypeOK
  <2> QED  BY <1>6, <2>4, <2>5 DEF WriteClusterOperator, observed, TypeOK
<1>7. CASE Resync
  BY <1>7 DEF Resync, observed, TypeOK
<1>8. CASE Restart
  <2>1. AnyWatched \in BOOLEAN
    BY DEF AnyWatched, TypeOK, Status, DNSes, NoDNS
  <2> QED  BY <1>8, <2>1 DEF Restart, observed, TypeOK
<1>9. CASE UNCHANGED vars
  BY <1>9 DEF vars, TypeOK
<1> QED  BY <1>1, <1>2, <1>3, <1>4, <1>5, <1>6, <1>7, <1>8, <1>9 DEF Next

\* Every state of the status controller is well typed, and Upgradeable is
\* never published as Unknown.
THEOREM TypeCorrect == Spec => []TypeOK
BY InitType, StepType, PTL DEF Spec

-----------------------------------------------------------------------------
(* The conditions at rest.                                                 *)

\* The conditions depend on the DNS and the release, and on nothing else that
\* changes without a pass.
LEMMA ConditionsStable ==
    ASSUME UNCHANGED <<dns, release>>, NEW cur
    PROVE  ComputeConditions(cur)' = ComputeConditions(cur)
BY DEF ComputeConditions, ComputeOperatorAvailableCondition,
       ComputeOperatorProgressingCondition, ComputeOperatorDegradedCondition,
       ComputeOperatorUpgradeableCondition, IsUpgrading, NewVersions, TrueIf

\* A step that leaves no request behind leaves the conditions current.
LEMMA StepAtRest ==
    ASSUME TypeOK, AtRestConditionsCurrent, [Next]_vars
    PROVE  AtRestConditionsCurrent'
<1>1. ASSUME queued' PROVE AtRestConditionsCurrent'
  BY <1>1 DEF AtRestConditionsCurrent
<1>2. ASSUME ~queued, UNCHANGED <<dns, release, co>> PROVE AtRestConditionsCurrent'
  <2>1. ComputeConditions(co.versions)' = ComputeConditions(co.versions)
    BY <1>2, ConditionsStable
  <2> QED  BY <1>2, <2>1 DEF AtRestConditionsCurrent
<1>3. CASE Reconcile
  <2>1. PICK old \in Status :
              LET cur == ComputeCurrentVersions(old.versions)
                  new == ComputeStatus(old, cur)
              IN  /\ old = IF co.exists THEN co ELSE InitializeClusterOperator
                  /\ old.exists
                  /\ \/ old = new /\ co' = old /\ queued' = FALSE
                     \/ old # new /\ co' = new /\ queued' = TRUE
                  /\ UNCHANGED <<release, dns, desired, ready, writes>>
    BY Zenon, <1>3, ReconcileCases
  <2> DEFINE cur == ComputeCurrentVersions(old.versions)
  <2>2. CASE queued'
    BY <1>1, <2>2
  <2>3. CASE ~queued'
    <3>1. old = ComputeStatus(old, cur) /\ co' = old
      BY <2>1, <2>3
    <3>2. old.versions = cur /\ old.cond = ComputeConditions(cur)
      BY <3>1, ComputeStatusType DEF TypeOK
    <3>3. ComputeConditions(old.versions)' = ComputeConditions(old.versions)
      BY <2>1, ConditionsStable
    <3> QED  BY <3>1, <3>2, <3>3 DEF AtRestConditionsCurrent
  <2> QED  BY <2>2, <2>3
<1>4. CASE ReconcileFails \/ SeeDNS \/ WriteClusterOperator \/ Resync
  <2>1. CASE ReconcileFails
    BY <1>1, <2>1 DEF ReconcileFails
  <2>2. CASE SeeDNS
    BY <1>1, <2>2 DEF SeeDNS
  <2>3. CASE WriteClusterOperator
    BY <1>1, <2>3 DEF WriteClusterOperator
  <2>4. CASE Resync
    BY <1>1, <2>4 DEF Resync
  <2> QED  BY <1>4, <2>1, <2>2, <2>3, <2>4
<1>5. ASSUME NEW d \in Daemonsets, SeeDaemonSet(d) PROVE AtRestConditionsCurrent'
  BY <1>1, <1>5 DEF SeeDaemonSet
<1>6. ASSUME NEW d \in Daemonsets, NEW p \in Pods[d], SeePod(d, p) PROVE AtRestConditionsCurrent'
  BY <1>1, <1>2, <1>6 DEF SeePod
<1>7. CASE Restart
  BY Zenon, <1>1, <1>7 DEF Restart, AnyWatched, AtRestConditionsCurrent
<1>8. CASE UNCHANGED vars
  BY <1>1, <1>2, <1>8 DEF vars
<1> QED  BY <1>3, <1>4, <1>5, <1>6, <1>7, <1>8 DEF Next

\* No report is lost: whenever no pass is due, the conditions of the
\* ClusterOperator are those of the DNS and of the versions it reports.
THEOREM ConditionsCurrent == Spec => []AtRestConditionsCurrent
<1>1. Init => AtRestConditionsCurrent
  BY Zenon, NewStatusType DEF Init, AtRestConditionsCurrent, Absent
<1> QED  BY <1>1, TypeCorrect, StepAtRest, PTL DEF Spec

-----------------------------------------------------------------------------
(* The versions: ClusterOperatorStatus implements Upgrade.                 *)

\* The versions the promise is about, of a status.
Seen(status) ==
    [n \in Names |-> IF status.versions[n] \in Unset THEN "" ELSE status.versions[n]]

\* Init of Upgrade, and its steps, over the versions reported here.
LEMMA InitUpgrade == ASSUME Init PROVE Promise!Init
<1>1. ReportedVersions = [n \in Names |-> ""]
  BY Zenon, NewStatusType DEF Init, ReportedVersions, Absent, Unset
<1> QED
  BY Zenon, <1>1
     DEF Init, Promise!Init, Promise!Nothing, Promise!Names, Promise!Operands,
              Names, Operands, NewVersions

\* A status computed from a new or an old one moves the bumped names.
LEMMA ComputedMoves ==
    ASSUME release \in Releases, NEW old \in Status
    PROVE  LET new == ComputeStatus(old, ComputeCurrentVersions(old.versions))
           IN  Seen(new) = [n \in Names |-> IF n \in Bumped THEN NewVersions[n] ELSE Seen(old)[n]]
<1> DEFINE cur == ComputeCurrentVersions(old.versions)
           new == ComputeStatus(old, cur)
<1>1. new.versions = cur
  BY ComputeStatusType
<1>2. \A n \in Names : NewVersions[n] \notin Unset
  BY NewVersionsType, ReleaseAssumption
<1>3. \A n \in Names : cur[n] = IF n \in Bumped THEN NewVersions[n] ELSE old.versions[n]
  BY DEF ComputeCurrentVersions
<1> HIDE DEF cur, new
<1> QED  BY Zenon, <1>1, <1>2, <1>3 DEF Seen, new, cur

\* Every step is a step of Upgrade or leaves the versions alone.
LEMMA StepUpgrade ==
    ASSUME TypeOK, [Next]_vars
    PROVE  [Promise!Next]_<<ReportedVersions, NewVersions>>
<1> USE DEF Promise!Next
<1>1. ASSUME UNCHANGED <<co, release>> PROVE UNCHANGED <<ReportedVersions, NewVersions>>
  BY <1>1 DEF ReportedVersions, NewVersions
<1>2. /\ Seen(InitializeClusterOperator) = [n \in Names |-> ""]
      /\ Seen(Empty(TRUE)) = [n \in Names |-> ""]
      /\ Seen(Absent) = [n \in Names |-> ""]
  BY ZenonT(40), NewStatusType DEF Seen, Absent, Unset
<1>3. ReportedVersions = Seen(co) /\ ReportedVersions' = Seen(co')
  BY DEF ReportedVersions, Seen
<1>4. CASE Reconcile
  <2>1. PICK old \in Status :
              LET cur == ComputeCurrentVersions(old.versions)
                  new == ComputeStatus(old, cur)
              IN  /\ old = IF co.exists THEN co ELSE InitializeClusterOperator
                  /\ old.exists
                  /\ \/ old = new /\ co' = old /\ queued' = FALSE
                     \/ old # new /\ co' = new /\ queued' = TRUE
                  /\ UNCHANGED <<release, dns, desired, ready, writes>>
    BY Zenon, <1>4, ReconcileCases
  <2>2. co' = ComputeStatus(old, ComputeCurrentVersions(old.versions))
    BY <2>1
  <2>3. Seen(co') = [n \in Names |-> IF n \in Bumped THEN NewVersions[n] ELSE Seen(old)[n]]
    BY <2>2, ComputedMoves DEF TypeOK
  <2>4. Seen(old) = Seen(co)
    <3>1. ~co.exists => co = Absent
      BY DEF TypeOK
    <3> QED  BY Zenon, <1>2, <2>1, <3>1
  <2>5. NewVersions' = NewVersions
    BY <2>1 DEF NewVersions
  <2>6. Promise!Report
    <3>1. Bumped \in SUBSET Promise!Names /\ Promise!Names = Names /\ Promise!Operands = Operands
      BY BumpedTogether DEF Promise!Names, Promise!Operands, Names, Operands
    <3> QED  BY <1>3, <2>3, <2>4, <2>5, <3>1, BumpedTogether DEF Promise!Report
  <2> QED  BY <2>6
<1>5. CASE ReconcileFails
  <2>1. Seen(co) = Seen(co')
    <3>1. co = Absent /\ co' \in {InitializeClusterOperator, Empty(TRUE)}
      BY Zenon, <1>5 DEF ReconcileFails, TypeOK
    <3> QED  BY Zenon, <1>2, <3>1
  <2>2. NewVersions' = NewVersions
    BY <1>5 DEF ReconcileFails, NewVersions
  <2> QED  BY <1>3, <2>1, <2>2
<1>6. CASE WriteClusterOperator
  <2>1. NewVersions' = NewVersions
    BY <1>6 DEF WriteClusterOperator, NewVersions
  <2>2. CASE co' = Absent
    <3>1. Seen(co') = [n \in Names |-> ""]
      BY Zenon, <1>2, <2>2
    <3>2. Promise!Forget
      BY Zenon, <1>3, <2>1, <3>1 DEF Promise!Forget, Promise!Nothing, Promise!Names,
                              Promise!Operands, Names, Operands
    <3> QED  BY <3>2
  <2>3. CASE co' = [co EXCEPT !.cond["Available"] = "True"]
    <3>1. co'.versions = co.versions
      BY <2>3 DEF TypeOK, Status
    <3> QED  BY <2>1, <3>1 DEF ReportedVersions
  <2> QED  BY <1>6, <2>2, <2>3 DEF WriteClusterOperator
<1>7. CASE Restart
  <2>1. ReportedVersions' = ReportedVersions
    BY <1>7 DEF Restart, ReportedVersions
  <2>2. NewVersions' \in {Version[r] : r \in Releases}
    BY <1>7 DEF Restart, NewVersions
  <2> QED  BY <2>1, <2>2 DEF Promise!Retarget
<1>8. CASE SeeDNS
  BY <1>1, <1>8 DEF SeeDNS
<1>9. ASSUME NEW d \in Daemonsets, SeeDaemonSet(d) PROVE UNCHANGED <<co, release>>
  BY <1>9 DEF SeeDaemonSet
<1>10. ASSUME NEW d \in Daemonsets, NEW p \in Pods[d], SeePod(d, p) PROVE UNCHANGED <<co, release>>
  BY <1>10 DEF SeePod
<1>11. CASE Resync
  BY <1>1, <1>11 DEF Resync
<1>12. CASE UNCHANGED vars
  BY <1>1, <1>12 DEF vars
<1> HIDE DEF Promise!Next
<1> QED
  BY <1>1, <1>4, <1>5, <1>6, <1>7, <1>8, <1>9, <1>10, <1>11, <1>12 DEF Next

\* The status controller implements Upgrade: whatever fails, restarts, is
\* rolled back or deleted, a reported version moves only to the configured
\* one, and the operator's own only with all the others.
THEOREM VersionsImplementUpgrade == Spec => ImplementsUpgrade
BY InitUpgrade, TypeCorrect, StepUpgrade, PTL DEF Spec, ImplementsUpgrade, Promise!Spec

\* The abstract specification keeps the two containers of a DNS pod together.
LEMMA UpgradePaired ==
    /\ Promise!Init => Promise!Paired
    /\ Promise!Paired /\ [Promise!Next]_<<ReportedVersions, NewVersions>>
            /\ NewVersions \in {Version[r] : r \in Releases} => Promise!Paired'
<1>1. Promise!Init => Promise!Paired
  BY Zenon DEF Promise!Init, Promise!Paired, Promise!Nothing, Promise!Names,
     Promise!Operands
<1>2. ASSUME Promise!Paired, [Promise!Next]_<<ReportedVersions, NewVersions>>,
             NewVersions \in {Version[r] : r \in Releases}
      PROVE  Promise!Paired'
  <2>1. CASE Promise!Report
    BY Zenon, <1>2, <2>1
       DEF Promise!Report, Promise!Paired, Promise!Names, Promise!Operands
  <2>2. CASE Promise!Forget
    BY Zenon, <2>2 DEF Promise!Forget, Promise!Paired, Promise!Nothing,
       Promise!Names, Promise!Operands
  <2>3. CASE ReportedVersions' = ReportedVersions
    BY Zenon, <1>2, <2>3 DEF Promise!Paired
  <2> QED  BY <1>2, <2>1, <2>2, <2>3 DEF Promise!Next, Promise!Retarget
<1> QED  BY <1>1, <1>2

\* By the refinement, the versions reported for the containers of the DNS
\* pods are always those of one release.
THEOREM PairedAlways == Spec => []ReportedPaired
<1>1. TypeOK => NewVersions \in {Version[r] : r \in Releases}
  BY DEF TypeOK, NewVersions
<1> QED
  BY <1>1, InitUpgrade, TypeCorrect, StepUpgrade, UpgradePaired, PTL
     DEF Spec, ReportedPaired

=============================================================================
