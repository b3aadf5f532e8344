------------------------ MODULE ClusterOperatorStatus ------------------------
(***************************************************************************)
(* The status controller (status/controller.go): the ClusterOperator "dns" *)
(* that tells the cluster-version operator which versions run and how the  *)
(* DNS fares.                                                              *)
(*                                                                         *)
(* dns, desired and ready are what the controller's cache holds.  Each     *)
(* moves on its own, so that every way in which one informer may lag       *)
(* behind another is a behaviour.  The ClusterOperator itself is read and  *)
(* written on the API server.  Reasons, messages and transition times of   *)
(* conditions are left out, and so are the related objects.                *)
(***************************************************************************)
EXTENDS Integers, FiniteSets

CONSTANTS
    Releases,   \* the releases of the operator
    Version,    \* the version of the operator and the image of each operand
    Pods,       \* the pods each daemonset may have
    Conditions, \* the conditions the DNS may report
    MaxWrites   \* bound: changes and deletions of the ClusterOperator by others

VARIABLES
    release,    \* the release that runs: OperatorReleaseVersion and the images
    dns,        \* the DNS and its conditions (cache)
    desired,    \* DesiredNumberScheduled of each daemonset (cache)
    ready,      \* the release of each available pod, NotReady (cache)
    co,         \* the ClusterOperator
    queued,     \* whether the work queue holds a request
    writes      \* how often others have written it

vars == <<release, dns, desired, ready, co, queued, writes>>

observed == <<dns, desired, ready>>

Operands == {"coredns", "kube-rbac-proxy", "openshift-cli"}
Names == Operands \cup {"operator"}
Daemonsets == {"dns", "node-resolver"}
Types == {"Available", "Progressing", "Degraded", "Upgradeable"}
Statuses == {"True", "False", "Unknown", "None"}

Unknown == "unknown"
Unset == {Unknown, ""}
NotReady == "not ready"
Images == {Version[r][n] : r \in Releases, n \in Names}

ASSUME ReleaseAssumption ==
    /\ Version \in [Releases -> [Names -> Images]]
    /\ Images \cap Unset = {} /\ NotReady \notin Releases
    /\ Conditions \subseteq [Types -> Statuses]
    /\ \A d \in Daemonsets : IsFiniteSet(Pods[d])
    /\ MaxWrites \in Nat

\* The zero value of a DNS, and of a daemonset's status: what the controller
\* works with if there is none.
NoConditions == [t \in Types |-> "None"]
NoDNS == [have |-> FALSE, cond |-> NoConditions]
DNSes == {NoDNS} \cup [have : {TRUE}, cond : Conditions]

Status == [exists : BOOLEAN, versions : [Names -> Images \cup Unset],
           cond : [Types -> Statuses]]

Empty(exists) == [exists |-> exists, versions |-> [n \in Names |-> ""],
                  cond |-> NoConditions]
Absent == Empty(FALSE)

\* initializeClusterOperator.
InitializeClusterOperator ==
    [Empty(TRUE) EXCEPT
        !.versions = [n \in Names |-> Unknown],
        !.cond = [t \in Types |-> IF t = "Upgradeable" THEN "None" ELSE "Unknown"]]

-----------------------------------------------------------------------------
(* Versions.                                                               *)

NewVersions == Version[release]

\* getOperatorState: without a DNS its daemonset and pods are not looked up.
Looked(d) == d = "node-resolver" \/ dns.have
DesiredPods(d) == IF Looked(d) THEN desired[d] ELSE 0

DaemonsetOf(n) == IF n = "openshift-cli" THEN "node-resolver" ELSE "dns"

\* updateAvailableFromPod: the available pods whose container has the image.
Available(n) ==
    LET d == DaemonsetOf(n)
    IN  {p \in Pods[d] : /\ Looked(d) /\ ready[d][p] # NotReady
                         /\ Version[ready[d][p]][n] = NewVersions[n]}

\* Mutant: one pod more than desired.
LevelStrict(n) == Cardinality(Available(n)) > DesiredPods(DaemonsetOf(n))

Level(n) == Cardinality(Available(n)) >= DesiredPods(DaemonsetOf(n))

Levelled == {n \in Operands : Level(n)}

\* Mutant: the node-resolver pods do not hold the operator back.
BumpedEarly ==
    LET pair == {"coredns", "kube-rbac-proxy"}
        levelled == Levelled
    IN  (IF pair \subseteq levelled THEN pair \cup {"operator"} ELSE {}) \cup (levelled \ pair)

\* Mutant: each container of the DNS pods counts for itself.
BumpedApart ==
    LET levelled == Levelled
    IN  levelled \cup (IF levelled = Operands THEN {"operator"} ELSE {})

\* computeCurrentVersions: the names that are bumped to the new version.
Bumped ==
    LET pair == {"coredns", "kube-rbac-proxy"}
        levelled == Levelled
    IN  (IF pair \subseteq levelled THEN pair ELSE {}) \cup (levelled \ pair)
        \cup (IF levelled = Operands THEN {"operator"} ELSE {})

ComputeCurrentVersions(old) ==
    LET bumped == Bumped
    IN  [n \in Names |-> IF n \in bumped THEN NewVersions[n] ELSE old[n]]

IsUpgrading(cur) == cur # NewVersions

-----------------------------------------------------------------------------
(* Conditions.                                                             *)

TrueIf(b) == IF b THEN "True" ELSE "False"

ComputeOperatorAvailableCondition == TrueIf(dns.have /\ dns.cond["Available"] = "True")

ComputeOperatorProgressingCondition(cur) ==
    IF \/ ~dns.have
       \/ dns.cond["Progressing"] = "True"
       \/ IsUpgrading(cur)
    THEN "True"
    ELSE IF dns.cond["Progressing"] = "False" THEN "False" ELSE "Unknown"

ComputeOperatorDegradedCondition(cur) ==
    TrueIf(~dns.have \/ (~IsUpgrading(cur) /\ dns.cond["Degraded"] = "True"))

\* Mutant: the condition of the DNS is copied as it is.
CopyUpgradeableCondition == dns.cond["Upgradeable"]

ComputeOperatorUpgradeableCondition == TrueIf(dns.cond["Upgradeable"] \in {"None", "True"})

ComputeConditions(cur) ==
    [t \in Types |->
        CASE t = "Available" -> ComputeOperatorAvailableCondition
          [] t = "Progressing" -> ComputeOperatorProgressingCondition(cur)
          [] t = "Degraded" -> ComputeOperatorDegradedCondition(cur)
          [] t = "Upgradeable" -> ComputeOperatorUpgradeableCondition]

\* Mutant: only missing conditions are added.
AddConditions(conds, updates) ==
    [t \in Types |-> IF conds[t] = "None" THEN updates[t] ELSE conds[t]]

\* mergeConditions: every update replaces its condition or is added.
MergeConditions(conds, updates) ==
    [t \in Types |-> IF updates[t] = "None" THEN conds[t] ELSE updates[t]]

\* Mutant: the old status is no copy, its conditions are those just merged.
OperatorStatusesEqualShared(a, b) == a.versions = b.versions

OperatorStatusesEqual(a, b) == a = b

-----------------------------------------------------------------------------
(* Reconcile.                                                              *)

\* What a pass computes from the ClusterOperator it has read and the caches.
ComputeStatus(old, cur) ==
    [old EXCEPT !.versions = cur,
                !.cond = MergeConditions(@, ComputeConditions(cur))]

\* A pass gets or creates the ClusterOperator, computes its status and
\* updates it if it differs; the watch on ClusterOperators then enqueues
\* another pass.  The API server rejects the update of a ClusterOperator that
\* someone else has written since it was read: the pass is atomic or fails.
Reconcile ==
    /\ queued
    /\ UNCHANGED <<release, observed, writes>>
    /\ \E old \in {IF co.exists THEN co ELSE InitializeClusterOperator} :
       \E cur \in {ComputeCurrentVersions(old.versions)} :
       \E new \in {ComputeStatus(old, cur)} :
          IF OperatorStatusesEqual(old, new)
          THEN co' = old /\ queued' = FALSE
          ELSE co' = new /\ queued' = TRUE

\* A call of a pass fails and the request is queued again.  The pass has
\* changed nothing but the ClusterOperator it may have created; whether the
\* API server keeps the status of a new object is its affair.
ReconcileFails ==
    /\ queued /\ ~co.exists
    /\ co' \in {InitializeClusterOperator, Empty(TRUE)}
    /\ UNCHANGED <<release, observed, queued, writes>>

-----------------------------------------------------------------------------
(* The cluster.                                                            *)

\* The cache learns of a change to the DNS, which is watched.
SeeDNS ==
    /\ dns' \in DNSes /\ dns' # dns
    /\ queued' = TRUE
    /\ UNCHANGED <<release, desired, ready, co, writes>>

\* The cache learns of a daemonset's status; daemonsets are watched.
SeeDaemonSet(d) ==
    /\ \E k \in {0, Cardinality(Pods[d])} \ {desired[d]} : desired' = [desired EXCEPT ![d] = k]
    /\ queued' = TRUE
    /\ UNCHANGED <<release, dns, ready, co, writes>>

\* The cache learns that a pod became available, or went; pods are not watched.
SeePod(d, p) ==
    /\ \E r \in Releases \cup {NotReady} : r # ready[d][p] /\ ready' = [ready EXCEPT ![d][p] = r]
    /\ UNCHANGED <<release, dns, desired, co, queued, writes>>

\* Someone else writes or deletes the ClusterOperator, which is watched.
WriteClusterOperator ==
    /\ co.exists /\ writes < MaxWrites
    /\ co' \in {Absent} \cup {[co EXCEPT !.cond["Available"] = "True"]}
    /\ writes' = writes + 1
    /\ queued' = TRUE
    /\ UNCHANGED <<release, observed>>

\* What a first list or a resync of the watched resources enqueues.
AnyWatched == co.exists \/ dns.have \/ \E d \in Daemonsets : desired[d] > 0

\* The periodic resync of the informers.
Resync ==
    /\ ~queued /\ AnyWatched
    /\ queued' = TRUE
    /\ UNCHANGED <<release, observed, co, writes>>

\* The operator ends, wherever a pass may be (ReconcileFails), and this or
\* another release starts: an upgrade or a rollback.
Restart ==
    /\ release' \in Releases
    /\ queued' = AnyWatched
    /\ UNCHANGED <<observed, co, writes>>

Init ==
    /\ release \in Releases
    /\ dns = NoDNS
    /\ desired = [d \in Daemonsets |-> 0]
    /\ ready = [d \in Daemonsets |-> [p \in Pods[d] |-> NotReady]]
    /\ co = Absent /\ queued = FALSE
    /\ writes = 0

Next ==
    \/ Reconcile \/ ReconcileFails
    \/ SeeDNS \/ WriteClusterOperator
    \/ \E d \in Daemonsets : SeeDaemonSet(d) \/ \E p \in Pods[d] : SeePod(d, p)
    \/ Resync \/ Restart

Spec == Init /\ [][Next]_vars

\* The worker takes up a queued request, calls to the API server do not fail
\* for ever, and the informers resync.  The first conjunct is the weak fairness
\* of Reconcile, which is enabled exactly while a request is queued; written
\* out, it spares TLC that ENABLED.
Fairness ==
    /\ []<>(~queued) \/ []<><<Reconcile>>_vars
    /\ WF_vars(Resync)

FairSpec == Spec /\ Fairness

-----------------------------------------------------------------------------
(* Properties.                                                             *)

\* Type correctness; Upgradeable is never published as Unknown.
TypeOK ==
    /\ release \in Releases
    /\ dns \in DNSes
    /\ desired \in [Daemonsets -> Nat]
    /\ DOMAIN ready = Daemonsets
    /\ \A d \in Daemonsets : ready[d] \in [Pods[d] -> Releases \cup {NotReady}]
    /\ queued \in BOOLEAN
    /\ co \in Status /\ (~co.exists => co = Absent)
    /\ co.cond["Upgradeable"] # "Unknown"
    /\ writes \in 0 .. MaxWrites

\* No report is lost: when the controller is at rest, the conditions of the
\* ClusterOperator are those of the DNS and of the versions it reports, for
\* the release that runs, whatever failed, was overwritten, restarted or came
\* late before.  The counted pods do not matter: an upgrade counts as such
\* until its versions are reported.
AtRestConditionsCurrent ==
    ~queued /\ co.exists => co.cond = ComputeConditions(co.versions)

ReportedVersions ==
    [n \in Names |-> IF co.versions[n] \in Unset THEN "" ELSE co.versions[n]]

Promise == INSTANCE Upgrade
    WITH Targets <- {Version[r] : r \in Releases}, Unset <- "",
         reported <- ReportedVersions, target <- NewVersions

\* The reported versions do what Upgrade promises: computeCurrentVersions
\* bumps to the configured versions only, and the operator last, across
\* restarts, rollbacks, lost updates and deletions of the ClusterOperator.
ImplementsUpgrade == Promise!Spec

\* The versions reported for the containers of the DNS pods fit together.
ReportedPaired == Promise!Paired

\* The rollout of the release that runs is complete.
Rolled == dns.have /\ \A d \in Daemonsets : \A p \in Pods[d] : ready[d][p] = release

\* Once every pod runs the release of the operator, all its versions are
\* reported in the end, although no watch tells the controller about pods.
UpgradeIsReported ==
    Rolled ~> (co.exists /\ co.versions = NewVersions) \/ ~Rolled

\* A DNS that is not available is reported as such in the end, although
\* someone else may have written the opposite into the ClusterOperator.
UnavailableIsReported ==
    LET down == dns.have /\ dns.cond["Available"] # "True"
    IN  down ~> (co.exists /\ co.cond["Available"] = "False") \/ ~down

=============================================================================
