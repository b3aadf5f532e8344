---------------------------- MODULE DNSController ----------------------------
(***************************************************************************)
(* The reconcile loop of the DNS operator's main controller (Reconcile in  *)
(* controller.go and the ensure functions it calls), beside everything     *)
(* that runs while a pass is under way: administrators who edit or delete  *)
(* the DNS "default" and the objects the operator manages, the garbage     *)
(* collector, a failing API server, the loop that recreates the default    *)
(* DNS, and a restart of the operator.                                     *)
(*                                                                         *)
(* A pass reads the DNS once and then works from that copy (cur), one API  *)
(* object after the other.  One action stands for one ensure function: the *)
(* read, the comparison, the write and the read-back it makes on a single  *)
(* object.  A write that another actor slipped in between is refused by    *)
(* the API server (a conflict, already exists, not found), which the       *)
(* caller sees as an error: that is the failing alternative of the action. *)
(*                                                                         *)
(* A spec stands for all that the daemonset and the configmaps are built   *)
(* from, except the node placement, whose update the operator may hold     *)
(* back, and the CA bundles it names exist.  Whether a degraded cluster is *)
(* reported as Degraded=True depends on the age of the conditions, which   *)
(* DNSStatus models: here both outcomes are possible.                      *)
(***************************************************************************)
EXTENDS Naturals

CONSTANTS
    Specs,       \* what an administrator may write in the DNS's spec
    DefaultSpec, \* the spec of the DNS the operator creates
    BadSpecs,    \* specs no Corefile can be built for
    MgmtStates,  \* the management states an administrator sets
    Touchable,   \* the managed objects others change or delete
    Fallible,    \* the steps of a pass whose API call may fail
    MaxDNS,      \* bound: incarnations of the DNS
    MaxEdits,    \* bound: changes made by others
    MaxFails,    \* bound: failing API calls
    Restarts     \* whether the operator may restart, at any time

VARIABLES
    dns,       \* the DNS "default" at the API server
    obj,       \* the managed objects at the API server
    dsUID,     \* the UID of the daemonset created last
    degraded,  \* whether too few of the daemonset's pods are available
    queued,    \* whether the work queue holds the DNS
    delayed,   \* whether a delayed or rate-limited requeue is pending
    pc,        \* the next step of the pass, "idle" between passes
    cur,       \* the pass's copy of the DNS
    fresh,     \* whether cur has the resource version the API server has
    errs,      \* whether Reconcile has collected an error
    dnsErrs,   \* whether ensureDNS has collected an error
    clusterIP, \* whether ensureDNS has a cluster IP for the service
    seen,      \* whether the pass read the daemonset as degraded
    missing,   \* whether ensureDefaultDNS has found no DNS and is to create it
    edits, fails          \* how much of each bound is used

objs == <<obj, dsUID, degraded>>
api == <<dns, objs>>
work == <<queued, delayed>>
pass == <<cur, fresh, errs, dnsErrs, clusterIP, seen>>
bounds == <<edits, fails, missing>>
vars == <<api, work, pc, pass, bounds>>

-----------------------------------------------------------------------------
(* The managed objects, by the function that ensures them.                 *)

Scaffold == {"namespace", "clusterRole", "clusterRoleBinding",
             "serviceAccount", "nodeResolverSA"}
Metrics == {"metricsRole", "metricsBinding", "nsMetricsRole",
            "nsMetricsBinding", "serviceMonitor"}
\* Owned by the DNS (dnsOwnerRef); caBundles stands for all the copies of
\* the CA bundles the spec refers to.
DNSOwned == {"caBundles", "daemonset", "configMap", "networkPolicy",
             "service", "nodeResolver"}
Kinds == Scaffold \cup Metrics \cup DNSOwned \cup {"denyAll", "externalName"}

\* The kinds with a watch: a change of one enqueues the DNS.
Watches == DNSOwned \cup {"denyAll"}

\* Created when missing, never compared with what they should hold.
CreateOnly == {"clusterRoleBinding", "serviceAccount", "nodeResolverSA",
               "metricsRole", "metricsBinding", "nsMetricsRole",
               "nsMetricsBinding", "externalName"}

Namespaced == Watches \cup {"serviceAccount", "nodeResolverSA",
                            "nsMetricsRole", "nsMetricsBinding", "serviceMonitor"}

Contents == Specs \cup {"good", "noNameserver", "drifted", "none"}

Object == [have : BOOLEAN, owner : Nat, content : Contents]
Absent == [have |-> FALSE, owner |-> 0, content |-> "none"]

DNS == [exists : BOOLEAN, uid : Nat, spec : Specs, mgmt : MgmtStates,
        deleting : BOOLEAN, fin : BOOLEAN, ip : {"unset", "ip", "noip"}]

\* A DNS without a managementState, which the CRD does not default.
NoDNS(uid) == [exists |-> FALSE, uid |-> uid, spec |-> DefaultSpec,
               mgmt |-> "", deleting |-> FALSE, fin |-> FALSE,
               ip |-> "unset"]

ASSUME ConstantsAssumption ==
    /\ DefaultSpec \in Specs
    /\ BadSpecs \subseteq Specs
    /\ Specs \cap {"good", "noNameserver", "drifted", "none"} = {}
    /\ "" \in MgmtStates
    /\ Touchable \subseteq Kinds
    /\ MaxDNS \in Nat /\ MaxEdits \in Nat /\ MaxFails \in Nat /\ Restarts \in BOOLEAN

\* Mutant: NAMESERVER is set whether or not there is a cluster IP.
DesiredAlways(k, spec, ip) ==
    CASE k \in {"caBundles", "daemonset", "configMap"} -> spec
      [] k = "nodeResolver" /\ ~ip -> "emptyNameserver"
      [] OTHER -> "good"

\* What an object of kind k must hold for a spec, and whether there is a
\* cluster IP to give to the node resolver: NAMESERVER is never empty.
Desired(k, spec, ip) ==
    CASE k \in {"caBundles", "daemonset", "configMap"} -> spec
      [] k = "nodeResolver" /\ ~ip -> "noNameserver"
      [] OTHER -> "good"

-----------------------------------------------------------------------------
(* API calls.                                                              *)

CanFail(step) == step \in Fallible /\ fails < MaxFails
UseFail(step) == CanFail(step) /\ fails' = fails + 1

OwnerRef(k) ==
    CASE k \in DNSOwned -> cur.uid
      [] k = "serviceMonitor" -> dsUID
      [] OTHER -> 0

\* Mutant: an existing object is taken for a right one.
EnsuredOnce(k) ==
    IF obj[k].have THEN obj[k]
    ELSE [have |-> TRUE, owner |-> OwnerRef(k), content |-> Desired(k, cur.spec, clusterIP)]

\* The object after a successful ensure: created, left alone, brought to
\* the desired content, and for a network policy to the desired owner too.
Ensured(k) ==
    LET want == [have |-> TRUE, owner |-> OwnerRef(k),
                 content |-> Desired(k, cur.spec, clusterIP)]
    IN  CASE ~obj[k].have \/ k \in {"networkPolicy", "denyAll"} -> want
          [] obj[k].have /\ k \in CreateOnly -> obj[k]
          [] OTHER -> [obj[k] EXCEPT !.content = want.content]

\* Creating a namespaced object needs its namespace.
Creatable(k) == obj[k].have \/ k \notin Namespaced \/ obj["namespace"].have

\* desiredDNSConfigMap fails for a spec it cannot turn into a Corefile.
Buildable(k) == k = "configMap" => cur.spec \notin BadSpecs

\* A new daemonset has a new UID and no pods yet.
Write(k, new) ==
    /\ obj' = [obj EXCEPT ![k] = new]
    /\ IF k = "daemonset" /\ new.have /\ ~obj[k].have
       THEN dsUID' = dsUID + 1 /\ degraded' = TRUE
       ELSE UNCHANGED <<dsUID, degraded>>
    /\ queued' = (queued \/ (k \in Watches /\ new # obj[k]))

\* An error of a step of ensureDNS is collected there; any other one by
\* Reconcile.  The deny-all policy's error is returned at once.
Collect(k) ==
    IF k \in (DNSOwned \cup Metrics)
    THEN dnsErrs' = TRUE /\ UNCHANGED errs
    ELSE errs' = TRUE /\ UNCHANGED dnsErrs

EnsureSucceeds(k, next) ==
    /\ Creatable(k) /\ Buildable(k)
    /\ Write(k, Ensured(k))
    /\ pc' = next
    /\ UNCHANGED <<errs, dnsErrs, fails>>

\* The call is refused, or it fails before or after the write took effect.
EnsureFails(k, next) ==
    /\ \/ ~(Creatable(k) /\ Buildable(k)) /\ UNCHANGED <<objs, queued, fails>>
       \/ UseFail(k) /\ UNCHANGED <<objs, queued>>
       \/ UseFail(k) /\ Creatable(k) /\ Buildable(k) /\ Write(k, Ensured(k))
    /\ Collect(k)
    /\ pc' = next

Ensure(k, onSuccess, onError) ==
    /\ pc = k
    /\ EnsureSucceeds(k, onSuccess) \/ EnsureFails(k, onError)
    /\ seen' = IF k = "daemonset" THEN degraded' ELSE seen
    /\ UNCHANGED <<dns, delayed, cur, fresh, clusterIP, edits, missing>>

-----------------------------------------------------------------------------
(* A pass of Reconcile.                                                    *)

EndPass ==
    /\ pc' = "idle"
    /\ cur' = NoDNS(0)
    /\ fresh' = FALSE /\ errs' = FALSE /\ dnsErrs' = FALSE
    /\ clusterIP' = FALSE /\ seen' = FALSE

\* The worker takes the DNS from the queue and reads it.
GetDNS ==
    /\ pc = "idle" /\ queued
    /\ queued' = FALSE
    /\ \/ /\ dns.exists
          /\ cur' = dns /\ fresh' = TRUE
          /\ pc' = IF dns.mgmt = "Unmanaged" THEN "unmanaged" ELSE "namespace"
          /\ UNCHANGED <<delayed, errs, dnsErrs, clusterIP, seen, fails>>
       \/ ~dns.exists /\ EndPass /\ UNCHANGED <<delayed, fails>>
       \/ UseFail("get") /\ EndPass /\ delayed' = TRUE
    /\ UNCHANGED <<api, edits, missing>>

\* Unmanaged: only reads, for the status.
ReadForStatus ==
    /\ pc = "unmanaged"
    /\ pc' = "status"
    /\ seen' = (degraded \/ ~obj["daemonset"].have)
    /\ \/ clusterIP' = TRUE /\ UNCHANGED <<errs, fails>>
       \/ UseFail("unmanaged") /\ errs' = TRUE /\ clusterIP' \in BOOLEAN
    /\ UNCHANGED <<api, work, cur, fresh, dnsErrs, edits, missing>>

\* ensureDNSNamespace: an error ends the scaffolding, not the pass.
AfterScaffold == IF cur.deleting THEN "deleteExternalName" ELSE "finalizer"
EnsureNamespace == Ensure("namespace", "clusterRole", AfterScaffold)
EnsureDNSClusterRole == Ensure("clusterRole", "clusterRoleBinding", AfterScaffold)
EnsureClusterRoleBinding == Ensure("clusterRoleBinding", "serviceAccount", AfterScaffold)
EnsureServiceAccount == Ensure("serviceAccount", "nodeResolverSA", AfterScaffold)
EnsureNodeResolverServiceAccount == Ensure("nodeResolverSA", AfterScaffold, AfterScaffold)

EnsureDNSNamespace ==
    \/ EnsureNamespace \/ EnsureDNSClusterRole \/ EnsureClusterRoleBinding
    \/ EnsureServiceAccount \/ EnsureNodeResolverServiceAccount

\* Mutant: the error of the Update is logged and the pass goes on.
EnforceDNSFinalizerCarriesOn ==
    /\ pc = "finalizer" /\ pc' = "network"
    /\ IF ~cur.fin /\ fresh
       THEN dns' = [cur EXCEPT !.fin = TRUE] /\ cur' = dns' /\ queued' = TRUE
       ELSE UNCHANGED <<dns, cur, queued>>
    /\ UNCHANGED <<objs, delayed, fresh, errs, dnsErrs, clusterIP, seen, bounds>>

\* Mutant: the Update is sent without a resource version.
EnforceDNSFinalizerForced ==
    /\ pc = "finalizer" /\ pc' = "network" /\ dns.exists
    /\ dns' = [cur EXCEPT !.fin = TRUE] /\ cur' = dns' /\ fresh' = TRUE
    /\ queued' = TRUE
    /\ UNCHANGED <<objs, delayed, errs, dnsErrs, clusterIP, seen, bounds>>

\* enforceDNSFinalizer: the Update sends the whole copy, and the API server
\* takes it only if the copy has the current resource version.
EnforceDNSFinalizer ==
    /\ pc = "finalizer"
    /\ \/ cur.fin /\ pc' = "network" /\ UNCHANGED <<dns, queued, cur, fresh, errs, fails>>
       \/ /\ ~cur.fin /\ fresh
          /\ dns' = [cur EXCEPT !.fin = TRUE] /\ cur' = dns'
          /\ queued' = TRUE /\ pc' = "network"
          /\ UNCHANGED <<fresh, errs, fails>>
       \/ /\ ~cur.fin /\ ~fresh
          /\ errs' = TRUE /\ pc' = "done"
          /\ UNCHANGED <<dns, queued, cur, fresh, fails>>
       \/ /\ ~cur.fin /\ UseFail("finalizer")
          /\ \/ UNCHANGED <<dns, queued, fresh>>
             \/ fresh /\ dns' = [cur EXCEPT !.fin = TRUE] /\ queued' = TRUE /\ fresh' = FALSE
          /\ errs' = TRUE /\ pc' = "done" /\ UNCHANGED cur
    /\ UNCHANGED <<objs, delayed, dnsErrs, clusterIP, seen, edits, missing>>

\* A read at the start of ensureDNS whose failure makes ensureDNS return.
ReadOrReturn(step, next) ==
    /\ pc = step
    /\ \/ pc' = next /\ UNCHANGED <<errs, fails>>
       \/ UseFail(step) /\ errs' = TRUE /\ pc' = "done"
    /\ UNCHANGED <<api, work, cur, fresh, dnsErrs, seen, edits, missing>>

GetClusterIPFromNetworkConfig ==
    ReadOrReturn("network", "caBundles") /\ clusterIP' = (pc' # "done")
GetAPIServer == ReadOrReturn("apiserver", "daemonset") /\ UNCHANGED clusterIP

EnsureCABundleConfigMaps == Ensure("caBundles", "apiserver", "apiserver")
EnsureDNSDaemonSet == Ensure("daemonset", "configMap", "nodeResolver")
EnsureDNSConfigMap == Ensure("configMap", "networkPolicy", "networkPolicy")
EnsureDNSNetworkPolicy == Ensure("networkPolicy", "denyAll", "denyAll")
EnsureDenyAllNetworkPolicy == Ensure("denyAll", "service", "done")

\* An error empties the cluster IP for the rest of the pass; a service that
\* is gone again when it is read back does not.
EnsureDNSService ==
    /\ pc = "service"
    /\ \/ EnsureSucceeds("service", "metricsRole") /\ UNCHANGED <<clusterIP, edits>>
       \/ EnsureFails("service", "nodeResolver") /\ clusterIP' = FALSE /\ UNCHANGED edits
       \/ /\ "service" \in Touchable /\ edits < MaxEdits /\ edits' = edits + 1
          /\ Creatable("service") /\ obj["service"] # Ensured("service")
          /\ obj' = [obj EXCEPT !["service"] = Absent] /\ queued' = TRUE
          /\ dnsErrs' = TRUE /\ pc' = "nodeResolver"
          /\ UNCHANGED <<dsUID, degraded, errs, clusterIP, fails>>
    /\ UNCHANGED <<dns, delayed, cur, fresh, seen, missing>>

EnsureMetricsClusterRole == Ensure("metricsRole", "metricsBinding", "nodeResolver")
EnsureMetricsClusterRoleBinding == Ensure("metricsBinding", "nsMetricsRole", "nodeResolver")
EnsureMetricsRole == Ensure("nsMetricsRole", "nsMetricsBinding", "nodeResolver")
EnsureMetricsRoleBinding == Ensure("nsMetricsBinding", "serviceMonitor", "nodeResolver")
EnsureServiceMonitor == Ensure("serviceMonitor", "nodeResolver", "nodeResolver")

EnsureMetricsIntegration ==
    \/ EnsureMetricsClusterRole \/ EnsureMetricsClusterRoleBinding
    \/ EnsureMetricsRole \/ EnsureMetricsRoleBinding \/ EnsureServiceMonitor

EnsureNodeResolverDaemonSet == Ensure("nodeResolver", "status", "status")

-----------------------------------------------------------------------------
(* Status, external name and the end of the pass.                          *)

\* ensureDNS returns after the status: without an error the external name
\* follows, else its error joins the others and the pass is over.
AfterStatus ==
    IF cur.mgmt # "Unmanaged" /\ ~dnsErrs
    THEN pc' = "externalName" /\ UNCHANGED errs
    ELSE pc' = "done" /\ errs' = (errs \/ dnsErrs)

\* The status is written, if it differs, from the copy the pass read.  The
\* conditions, which DNSStatus models, may differ whatever the cluster IP.
\* The result may ask for a requeue (a suppressed Progressing).
PublishStatus ==
    LET ip == IF clusterIP THEN "ip" ELSE "noip"
        Written == /\ fresh /\ fresh' = FALSE
                   /\ dns' = [dns EXCEPT !.ip = ip] /\ queued' = TRUE
    IN  \/ /\ cur.ip = ip /\ AfterStatus
           /\ UNCHANGED <<dns, queued, fresh, fails>>
        \/ Written /\ AfterStatus /\ UNCHANGED fails
        \/ /\ ~fresh /\ errs' = TRUE /\ pc' = "done"
           /\ UNCHANGED <<dns, queued, fresh, fails>>
        \/ /\ UseFail("status") /\ errs' = TRUE /\ pc' = "done"
           /\ Written \/ UNCHANGED <<dns, queued, fresh>>

SyncDNSStatus ==
    /\ pc = "status"
    /\ PublishStatus
    /\ delayed' \in {delayed, TRUE}
    /\ UNCHANGED <<objs, cur, dnsErrs, clusterIP, seen, edits, missing>>

\* Degraded=True comes as a retryable error and nothing is written.  Alone
\* it makes Reconcile return at once, with a requeue and without the errors
\* of the scaffolding; beside other errors, or wrapped by the Unmanaged
\* branch, it is an error like any other.
DegradedIsRetried ==
    /\ pc = "status"
    /\ seen \/ ~clusterIP \/ dnsErrs \/ (cur.mgmt = "Unmanaged" /\ errs)
    /\ IF cur.mgmt = "Unmanaged" \/ dnsErrs
       THEN /\ errs' = TRUE /\ pc' = "done"
            /\ UNCHANGED <<delayed, cur, fresh, dnsErrs, clusterIP, seen>>
       ELSE EndPass /\ delayed' = TRUE
    /\ UNCHANGED <<api, queued, bounds>>

EnsureExternalNameForOpenshiftService == Ensure("externalName", "done", "done")

\* Mutant: the collected errors are logged and not returned.
ReturnNil ==
    /\ pc = "done"
    /\ EndPass
    /\ UNCHANGED <<api, work, bounds>>

\* Reconcile returns: an error requeues the DNS with a delay.
Return ==
    /\ pc = "done"
    /\ delayed' = (delayed \/ errs)
    /\ EndPass
    /\ UNCHANGED <<api, queued, bounds>>

(* Deletion of the DNS.                                                    *)

\* Mutant: an object that is already gone is an error.
DeleteObjectStrict(step, k, next) ==
    /\ pc = step
    /\ pc' = next
    /\ IF obj[k].have THEN Write(k, Absent) /\ UNCHANGED errs
                      ELSE errs' = TRUE /\ UNCHANGED <<objs, queued>>
    /\ UNCHANGED <<dns, delayed, cur, fresh, dnsErrs, clusterIP, seen, bounds>>

DeleteObject(step, k, next) ==
    /\ pc = step
    /\ pc' = next
    /\ \/ Write(k, Absent) /\ UNCHANGED <<errs, fails>>
       \/ UseFail(step) /\ errs' = TRUE /\ UNCHANGED <<objs, queued>>
       \/ UseFail(step) /\ errs' = TRUE /\ Write(k, Absent)
    /\ UNCHANGED <<dns, delayed, cur, fresh, dnsErrs, clusterIP, seen, edits, missing>>

EnsureOpenshiftExternalNameServiceDeleted ==
    DeleteObject("deleteExternalName", "externalName", "deleteDaemonset")
EnsureDNSDaemonSetDeleted == DeleteObject("deleteDaemonset", "daemonset", "release")

\* Mutant: the finalizer is removed whatever failed before.
RemoveFinalizerAnyway ==
    /\ pc = "release"
    /\ pc' = "done"
    /\ IF cur.fin /\ fresh
       THEN dns' = NoDNS(dns.uid) /\ queued' = TRUE /\ fresh' = FALSE
       ELSE UNCHANGED <<dns, queued, fresh>>
    /\ UNCHANGED <<objs, delayed, cur, errs, dnsErrs, clusterIP, seen, bounds>>

\* Without any error so far the finalizer is removed, again by an Update of
\* the whole copy; the API server then removes the DNS.
RemoveFinalizer ==
    /\ pc = "release"
    /\ pc' = "done"
    /\ \/ /\ errs \/ ~cur.fin
          /\ UNCHANGED <<dns, queued, fresh, errs, fails>>
       \/ /\ ~errs /\ cur.fin /\ fresh
          /\ dns' = NoDNS(dns.uid) /\ queued' = TRUE /\ fresh' = FALSE
          /\ UNCHANGED <<errs, fails>>
       \/ /\ ~errs /\ cur.fin /\ ~fresh /\ errs' = TRUE
          /\ UNCHANGED <<dns, queued, fresh, fails>>
       \/ /\ ~errs /\ cur.fin /\ UseFail("release") /\ errs' = TRUE
          /\ \/ UNCHANGED <<dns, queued, fresh>>
             \/ fresh /\ dns' = NoDNS(dns.uid) /\ queued' = TRUE /\ fresh' = FALSE
    /\ UNCHANGED <<objs, delayed, cur, dnsErrs, clusterIP, seen, edits, missing>>

EnsureDNS ==
    \/ GetClusterIPFromNetworkConfig \/ EnsureCABundleConfigMaps \/ GetAPIServer
    \/ EnsureDNSDaemonSet \/ EnsureDNSConfigMap \/ EnsureDNSNetworkPolicy
    \/ EnsureDenyAllNetworkPolicy \/ EnsureDNSService \/ EnsureMetricsIntegration
    \/ EnsureNodeResolverDaemonSet \/ SyncDNSStatus \/ DegradedIsRetried

Reconcile ==
    \/ GetDNS \/ ReadForStatus \/ EnsureDNSNamespace \/ EnforceDNSFinalizer
    \/ EnsureDNS \/ EnsureExternalNameForOpenshiftService \/ Return
    \/ EnsureOpenshiftExternalNameServiceDeleted \/ EnsureDNSDaemonSetDeleted
    \/ RemoveFinalizer

-----------------------------------------------------------------------------
(* The rest of the operator and of the cluster.                            *)

\* ensureDefaultDNS, every minute: a Get, and if that finds no DNS a Create,
\* before which somebody else may create one.
GetDefaultDNS ==
    /\ ~missing /\ ~dns.exists
    /\ missing' = TRUE
    /\ UNCHANGED <<api, work, pc, pass, edits, fails>>

NewDNS(spec, mgmt) ==
    /\ ~dns.exists /\ dns.uid < MaxDNS
    /\ dns' = [NoDNS(dns.uid + 1) EXCEPT !.exists = TRUE, !.spec = spec, !.mgmt = mgmt]
    /\ queued' = TRUE /\ fresh' = FALSE

\* Mutant: the DNS found is replaced.
CreateDefaultDNSAnyway ==
    /\ missing /\ missing' = FALSE
    /\ dns.uid < MaxDNS
    /\ dns' = [NoDNS(dns.uid + 1) EXCEPT !.exists = TRUE]
    /\ queued' = TRUE /\ fresh' = FALSE
    /\ UNCHANGED <<objs, delayed, pc, cur, errs, dnsErrs, clusterIP, seen, edits, fails>>

\* The Create is refused if there is a DNS by now, or fails; either is logged.
CreateDefaultDNS ==
    /\ missing /\ missing' = FALSE
    /\ \/ NewDNS(DefaultSpec, "") /\ UNCHANGED fails
       \/ dns.exists /\ UNCHANGED <<dns, queued, fresh, fails>>
       \/ UseFail("create") /\ UNCHANGED <<dns, queued, fresh>>
    /\ UNCHANGED <<objs, delayed, pc, cur, errs, dnsErrs, clusterIP, seen, edits>>

\* The delay of a requeue is over.
RequeueDue ==
    /\ delayed
    /\ delayed' = FALSE /\ queued' = TRUE
    /\ UNCHANGED <<api, pc, pass, bounds>>

\* The informer's periodic resync hands the DNS to the controller again.
Resync ==
    /\ dns.exists /\ ~queued /\ queued' = TRUE
    /\ UNCHANGED <<api, delayed, pc, pass, bounds>>

UseEdit == edits < MaxEdits /\ edits' = edits + 1

\* An administrator changes the spec or the management state, or deletes
\* the DNS, which stays until it has no finalizer.
EditDNS ==
    /\ dns.exists /\ UseEdit
    /\ \/ \E s \in Specs : dns' = [dns EXCEPT !.spec = s]
       \/ \E m \in MgmtStates : dns' = [dns EXCEPT !.mgmt = m]
       \/ /\ dns.uid < MaxDNS
          /\ dns' = IF dns.fin THEN [dns EXCEPT !.deleting = TRUE] ELSE NoDNS(dns.uid)
    /\ dns' # dns
    /\ queued' = TRUE /\ fresh' = FALSE
    /\ UNCHANGED <<objs, delayed, pc, cur, errs, dnsErrs, clusterIP, seen, fails, missing>>

\* An administrator creates the DNS "default".
CreateDNS(spec, mgmt) ==
    /\ NewDNS(spec, mgmt) /\ UseEdit
    /\ UNCHANGED <<objs, delayed, pc, cur, errs, dnsErrs, clusterIP, seen, fails, missing>>

\* Someone else deletes a managed object or changes what it holds; with the
\* namespace goes everything in it.
TouchObject(k) ==
    /\ obj[k].have /\ UseEdit
    /\ \/ obj' = [j \in Kinds |-> IF j = k \/ (k = "namespace" /\ j \in Namespaced)
                                  THEN Absent ELSE obj[j]]
       \/ k \notin CreateOnly /\ obj' = [obj EXCEPT ![k].content = "drifted"]
    /\ queued' = (queued \/ \E j \in Watches : obj'[j] # obj[j])
    /\ UNCHANGED <<dns, dsUID, degraded, delayed, pc, pass, fails, missing>>

\* Pods become available, or unavailable again: the daemonset's status
\* changes.
PodsChange ==
    /\ obj["daemonset"].have
    /\ IF degraded THEN UNCHANGED edits ELSE UseEdit
    /\ degraded' = ~degraded /\ queued' = TRUE
    /\ UNCHANGED <<dns, obj, dsUID, delayed, pc, pass, fails, missing>>

OwnerGone(k) ==
    \/ k \in DNSOwned /\ ~(dns.exists /\ dns.uid = obj[k].owner)
    \/ k = "serviceMonitor" /\ ~(obj["daemonset"].have /\ dsUID = obj[k].owner)

GarbageCollect(k) ==
    /\ obj[k].have /\ OwnerGone(k)
    /\ obj' = [obj EXCEPT ![k] = Absent]
    /\ queued' = (queued \/ k \in Watches)
    /\ UNCHANGED <<dns, dsUID, degraded, delayed, pc, pass, bounds>>

\* The operator dies, its queue with it, and starts again: the first list
\* of each watched kind enqueues the DNS for every object found.
Restart ==
    /\ Restarts
    /\ EndPass
    /\ delayed' = FALSE /\ missing' = FALSE
    /\ queued' = (dns.exists \/ \E k \in Watches : obj[k].have)
    /\ UNCHANGED <<api, edits, fails>>

-----------------------------------------------------------------------------
Init ==
    /\ dns = NoDNS(0)
    /\ obj = [k \in Kinds |-> Absent]
    /\ dsUID = 0 /\ degraded = TRUE
    /\ queued = FALSE /\ delayed = FALSE
    /\ pc = "idle" /\ cur = NoDNS(0) /\ fresh = FALSE
    /\ errs = FALSE /\ dnsErrs = FALSE /\ clusterIP = FALSE /\ seen = FALSE
    /\ missing = FALSE
    /\ edits = 0 /\ fails = 0

Next ==
    \/ Reconcile \/ GetDefaultDNS \/ CreateDefaultDNS \/ RequeueDue \/ Resync
    \/ EditDNS
    \/ \E s \in Specs, m \in MgmtStates : CreateDNS(s, m)
    \/ \E k \in Touchable : TouchObject(k)
    \/ \E k \in DNSOwned \cup {"serviceMonitor"} : GarbageCollect(k)
    \/ PodsChange \/ Restart

Spec == Init /\ [][Next]_vars

\* The worker, the timers, the default-DNS loop, the resync and the garbage
\* collector never stop; nobody has to change anything, and nothing has to fail.
Fairness ==
    /\ WF_vars(Reconcile)
    /\ WF_vars(RequeueDue)
    /\ WF_vars(GetDefaultDNS) /\ WF_vars(CreateDefaultDNS)
    /\ WF_vars(Resync)
    /\ \A k \in DNSOwned \cup {"serviceMonitor"} : WF_vars(GarbageCollect(k))

FairSpec == Spec /\ Fairness

-----------------------------------------------------------------------------
(* Properties.                                                             *)

\* The steps of a pass that run after the finalizer has been enforced.
EnsureSteps == DNSOwned \cup Metrics \cup {"network", "apiserver", "denyAll", "externalName"}

Steps == Scaffold \cup EnsureSteps \cup
         {"idle", "unmanaged", "finalizer", "status", "done",
          "deleteExternalName", "deleteDaemonset", "release"}

\* Type correctness of the API server's objects, the queue and the pass.
TypeOK ==
    /\ dns \in DNS
    /\ obj \in [Kinds -> Object]
    /\ dsUID \in Nat
    /\ degraded \in BOOLEAN
    /\ queued \in BOOLEAN /\ delayed \in BOOLEAN
    /\ pc \in Steps
    /\ cur \in DNS
    /\ fresh \in BOOLEAN /\ errs \in BOOLEAN /\ dnsErrs \in BOOLEAN
    /\ clusterIP \in BOOLEAN /\ seen \in BOOLEAN /\ missing \in BOOLEAN
    /\ edits \in Nat /\ fails \in Nat

\* While ensureDNS and what follows it run, the DNS whose UID they put into
\* owner references is still there, held by the finalizer, although anyone
\* may delete it in the meantime (DNSControllerFinalizer "ensures the
\* operator has a chance to handle all states").
FinalizerProtects ==
    pc \in EnsureSteps => dns.exists /\ dns.fin /\ dns.uid = cur.uid

\* A DNS that carried the finalizer leaves the API server only when its
\* daemonset and the external name service are gone: an error on the way,
\* of the scaffolding even, keeps the finalizer.
TeardownBeforeRelease ==
    [][dns.exists /\ dns.fin /\ ~dns'.exists
        => ~obj["daemonset"].have /\ ~obj["externalName"].have]_vars

\* Reconcile updates the DNS as a whole from a copy read earlier (adding and
\* removing the finalizer), and ensureDefaultDNS creates what it found missing
\* earlier: no step of the operator undoes what an administrator changed or
\* created since.
AdminEditsSurvive ==
    [][edits' = edits /\ dns'.exists /\ (dns.exists \/ pc' # pc)
        => /\ dns'.spec = dns.spec /\ dns'.mgmt = dns.mgmt
           /\ dns'.deleting = dns.deleting /\ dns'.uid = dns.uid]_vars

\* The part of the state that the finalizer is about.
Phase ==
    CASE ~dns.exists -> "absent"
      [] dns.exists /\ ~dns.fin -> "bare"
      [] dns.exists /\ dns.fin /\ ~dns.deleting -> "held"
      [] OTHER -> "leaving"

TornDown == {"daemonset", "externalName"}
Installed == {k \in TornDown : obj[k].have}

Lifecycle == INSTANCE DNSLifecycle
    WITH Operands <- TornDown, uid <- dns.uid, phase <- Phase, installed <- Installed

\* The life of the DNS is as DNSLifecycle promises, whatever the interleaving
\* of passes, deletions, failures and restarts: enforceDNSFinalizer comes
\* before the first operand, and ensureDNSDeleted before the release.
ImplementsLifecycle == Lifecycle!Spec

\* The garbage collector never takes the DNS daemonset: while it exists, so
\* does the DNS that it was created for, held by the finalizer, although the
\* operator never renews the owner reference of a daemonset it finds.
DaemonSetNeverGarbage == obj["daemonset"].have => dns.fin /\ ~OwnerGone("daemonset")

\* An operating DNS: neither unmanaged nor being deleted.
Active == dns.exists /\ ~dns.deleting /\ dns.mgmt # "Unmanaged"

Settled(k) ==
    obj[k].have /\ (k \in CreateOnly \/ obj[k].content = Desired(k, dns.spec, TRUE))

\* No wakeup is lost: when no pass runs and none is queued or due, every
\* watched object exists and holds what the current spec asks for.  An
\* error dropped on the way (the early return for the deny-all policy, a
\* retryable error), an edit during the pass, or a restart must leave a
\* further pass behind.
QuietMeansSettled ==
    pc = "idle" /\ ~queued /\ ~delayed /\ Active => \A k \in Watches : Settled(k)

\* Once everyone else stops, an operating DNS gets all its objects, the
\* unwatched ones too, for good.  An invalid spec keeps back the Corefile
\* and, like degraded pods, the external name service, and nothing else.
Convergence ==
    <>[](Active => \A k \in Kinds :
            \/ Settled(k)
            \/ k \in {"configMap", "externalName"} /\ dns.spec \in BadSpecs
            \/ k = "externalName" /\ degraded)

\* A DNS marked for deletion goes away, unless the operator is told not to
\* manage it.
DeletionCompletes ==
    dns.exists /\ dns.deleting ~> ~dns.exists \/ dns.mgmt = "Unmanaged"

(* What the repository says and the code does otherwise.                   *)

\* The documented management state Removed: the operator tears down the
\* managed components, so none is left once the operator rests.
RemovedTearsDown ==
    pc = "idle" /\ ~queued /\ ~delayed /\ dns.exists /\ dns.mgmt = "Removed"
        => ~obj["daemonset"].have

=============================================================================
