------------------------ MODULE DNSControllerProofs ------------------------
(***************************************************************************)
(* Proofs, for every value of the constants, of the safety properties of   *)
(* DNSController: its type invariant, that the finalizer protects a pass,  *)
(* that the finalizer goes only after the teardown, that edits survive,    *)
(* that no wakeup is lost, and that it implements DNSLifecycle.            *)
(***************************************************************************)
EXTENDS DNSController, TLAPS

-----------------------------------------------------------------------------
(* The inductive invariants.                                               *)

\* The resource version stands for the content: a pass whose copy is fresh
\* works on the DNS as it is, and a DNS that was changed is queued.
CopyInv ==
    /\ fresh => cur = dns /\ dns.exists
    /\ pc # "idle" /\ ~queued => fresh

\* The steps in which a pass may not carry the finalizer yet.
BeforeFinalizer == Scaffold \cup {"finalizer"}

\* From the read of the DNS to the last step a copy with the finalizer means
\* that the DNS is held, and the steps past "finalizer" have such a copy.
HeldInv ==
    /\ pc \notin {"idle", "done"} /\ cur.fin
        => dns.exists /\ dns.fin /\ dns.uid = cur.uid
    /\ pc \in EnsureSteps \/ (pc = "status" /\ cur.mgmt # "Unmanaged") => cur.fin

\* What the deletion has removed so far, if nothing failed.
TornDownInv ==
    ~errs => /\ pc \in {"deleteDaemonset", "release"} => ~obj["externalName"].have
             /\ pc = "release" => ~obj["daemonset"].have

DeleteSteps == {"deleteExternalName", "deleteDaemonset", "release"}

\* The watched objects a pass at a step has still to ensure.
Pending(step) ==
    CASE step \in BeforeFinalizer \cup DeleteSteps \cup {"network", "caBundles"} -> Watches
      [] step \in {"apiserver", "daemonset"} -> Watches \ {"caBundles"}
      [] step = "configMap" -> Watches \ {"caBundles", "daemonset"}
      [] step = "networkPolicy" -> {"networkPolicy", "denyAll", "service", "nodeResolver"}
      [] step = "denyAll" -> {"denyAll", "service", "nodeResolver"}
      [] step = "service" -> {"service", "nodeResolver"}
      [] step \in Metrics \cup {"nodeResolver"} -> {"nodeResolver"}
      [] OTHER -> {}

\* Where a pass can be, given its copy of the DNS.
RouteInv ==
    /\ pc = "unmanaged" => cur.mgmt = "Unmanaged"
    /\ pc \in DeleteSteps => cur.deleting
    /\ pc \in EnsureSteps \ {"network", "externalName"} /\ ~dnsErrs => clusterIP
    /\ pc = "idle" => ~errs
    /\ pc \in {"idle", "externalName"} \cup BeforeFinalizer \cup DeleteSteps => ~dnsErrs
    /\ pc = "done" /\ dnsErrs => errs

\* Nothing has asked for another pass.
Quiet == ~queued /\ ~delayed /\ ~errs /\ ~dnsErrs

\* A pass that nothing has disturbed leaves settled objects behind it.
SettledInv ==
    Quiet /\ Active => \A k \in Watches \ Pending(pc) : Settled(k)

IInv == TypeOK /\ CopyInv /\ HeldInv /\ TornDownInv /\ RouteInv /\ SettledInv

-----------------------------------------------------------------------------
(* Type correctness.                                                       *)

\* What an ensure function writes is an object.
LEMMA EnsuredType ==
    ASSUME TypeOK, NEW k \in Kinds
    PROVE  Ensured(k) \in Object
<1>1. OwnerRef(k) \in Nat
  BY DEF TypeOK, DNS, OwnerRef
<1>2. Desired(k, cur.spec, clusterIP) \in Contents
  BY DEF TypeOK, DNS, Desired, Contents
<1>3. obj[k] \in Object
  BY DEF TypeOK
<1>4. QED
  BY <1>1, <1>2, <1>3 DEF Ensured, Object

\* A missing object is an object of the right type.
LEMMA AbsentType == Absent \in Object
BY DEF Absent, Object, Contents

\* A DNS that is gone, of any UID, has the type of a DNS.
LEMMA NoDNSType == ASSUME NEW u \in Nat PROVE NoDNS(u) \in DNS
BY ConstantsAssumption DEF NoDNS, DNS

\* A write keeps the types of the objects and of the queue.
LEMMA WriteType ==
    ASSUME TypeOK, NEW k \in Kinds, NEW new \in Object, Write(k, new)
    PROVE  /\ obj' \in [Kinds -> Object] /\ dsUID' \in Nat
           /\ degraded' \in BOOLEAN /\ queued' \in BOOLEAN
<1>1. obj' \in [Kinds -> Object]
  BY DEF TypeOK, Write
<1>2. (dsUID' = dsUID + 1 /\ degraded' = TRUE) \/ UNCHANGED <<dsUID, degraded>>
  BY Zenon DEF Write
<1>3. dsUID' \in Nat
  BY <1>2 DEF TypeOK
<1>4. degraded' \in BOOLEAN
  BY <1>2, Zenon DEF TypeOK
<1>5. queued' \in BOOLEAN
  BY Zenon DEF Write
<1>6. QED
  BY <1>1, <1>3, <1>4, <1>5

\* The same for a whole ensure function.
LEMMA EnsureType ==
    ASSUME TypeOK, NEW k \in Kinds, NEW s \in Steps, NEW e \in Steps, Ensure(k, s, e)
    PROVE  TypeOK'
<1>1. CASE EnsureSucceeds(k, s)
  BY <1>1, EnsuredType, WriteType DEF Ensure, EnsureSucceeds, TypeOK
<1>2. CASE EnsureFails(k, e)
  <2>1. /\ obj' \in [Kinds -> Object] /\ dsUID' \in Nat
        /\ degraded' \in BOOLEAN /\ queued' \in BOOLEAN
    BY <1>2, EnsuredType, WriteType DEF EnsureFails, TypeOK, objs
  <2>2. fails' \in Nat
    BY <1>2 DEF EnsureFails, TypeOK, UseFail
  <2>3. QED
    BY Zenon, <1>2, <2>1, <2>2 DEF Ensure, EnsureFails, Collect, TypeOK
<1>3. QED
  BY <1>1, <1>2 DEF Ensure

\* A counted failure keeps the counter's type.
LEMMA FailsType == ASSUME TypeOK, NEW step, UseFail(step) PROVE fails' \in Nat
BY DEF TypeOK, UseFail

\* Every step of a pass keeps the types.
LEMMA ReconcileType == TypeOK /\ Reconcile => TypeOK'
<1> SUFFICES ASSUME TypeOK, Reconcile PROVE TypeOK'
  OBVIOUS
<1> USE DEF Steps, EnsureSteps, Scaffold, Metrics, DNSOwned, Kinds
<1>1. CASE GetDNS
  BY ZenonT(40), <1>1, NoDNSType, FailsType DEF GetDNS, EndPass, TypeOK, api, objs
<1>2. CASE ReadForStatus
  BY ZenonT(40), <1>2, FailsType DEF ReadForStatus, TypeOK, api, objs, work
<1>3. CASE EnsureDNSNamespace
  <2>1. AfterScaffold \in Steps
    BY DEF AfterScaffold
  <2>2. QED
    BY Zenon, <1>3, <2>1, EnsureType
       DEF EnsureDNSNamespace, EnsureNamespace, EnsureDNSClusterRole,
       EnsureClusterRoleBinding, EnsureServiceAccount, EnsureNodeResolverServiceAccount
<1>4. CASE EnforceDNSFinalizer
  <2>1. [cur EXCEPT !.fin = TRUE] \in DNS
    BY Zenon DEF TypeOK, DNS
  <2>2. pc' \in Steps
    BY <1>4 DEF EnforceDNSFinalizer
  <2>3. fails' \in Nat
    BY Zenon, <1>4, FailsType DEF EnforceDNSFinalizer, TypeOK
  <2>4. dns' \in DNS /\ cur' \in DNS
    BY Zenon, <1>4, <2>1 DEF EnforceDNSFinalizer, TypeOK
  <2>5. queued' \in BOOLEAN /\ fresh' \in BOOLEAN /\ errs' \in BOOLEAN
    BY Zenon, <1>4 DEF EnforceDNSFinalizer, TypeOK
  <2>6. UNCHANGED <<objs, delayed, dnsErrs, clusterIP, seen, edits, missing>>
    BY Zenon, <1>4 DEF EnforceDNSFinalizer
  <2>7. QED
    BY Zenon, <2>2, <2>3, <2>4, <2>5, <2>6 DEF TypeOK, objs
<1>5. CASE GetClusterIPFromNetworkConfig \/ GetAPIServer
  <2>1. clusterIP' \in BOOLEAN
    BY <1>5, Zenon DEF GetClusterIPFromNetworkConfig, GetAPIServer, TypeOK
  <2>2. pc' \in Steps
    BY <1>5 DEF GetClusterIPFromNetworkConfig, GetAPIServer, ReadOrReturn
  <2>3. fails' \in Nat /\ errs' \in BOOLEAN
    BY Zenon, <1>5, FailsType
       DEF GetClusterIPFromNetworkConfig, GetAPIServer, ReadOrReturn,
       TypeOK
  <2>4. UNCHANGED <<api, work, cur, fresh, dnsErrs, seen, edits, missing>>
    BY Zenon, <1>5 DEF GetClusterIPFromNetworkConfig, GetAPIServer, ReadOrReturn
  <2>5. QED
    BY Zenon, <2>1, <2>2, <2>3, <2>4 DEF TypeOK, api, objs, work
<1>6. CASE EnsureCABundleConfigMaps \/ EnsureDNSDaemonSet \/ EnsureDNSConfigMap
           \/ EnsureDNSNetworkPolicy \/ EnsureDenyAllNetworkPolicy
           \/ EnsureNodeResolverDaemonSet \/ EnsureExternalNameForOpenshiftService
  BY Zenon, <1>6, EnsureType
     DEF EnsureCABundleConfigMaps, EnsureDNSDaemonSet, EnsureDNSConfigMap,
     EnsureDNSNetworkPolicy, EnsureDenyAllNetworkPolicy, EnsureNodeResolverDaemonSet,
     EnsureExternalNameForOpenshiftService
<1>7. CASE EnsureMetricsIntegration
  BY Zenon, <1>7, EnsureType DEF EnsureMetricsIntegration, EnsureMetricsClusterRole,
     EnsureMetricsClusterRoleBinding, EnsureMetricsRole, EnsureMetricsRoleBinding, EnsureServiceMonitor
<1>8. CASE EnsureDNSService
  <2>1. CASE EnsureSucceeds("service", "metricsRole") /\ UNCHANGED <<clusterIP, edits>>
    BY <1>8, <2>1, EnsuredType, WriteType DEF EnsureDNSService, EnsureSucceeds, TypeOK
  <2>2. CASE EnsureFails("service", "nodeResolver") /\ clusterIP' = FALSE /\ UNCHANGED edits
    <3>1. /\ obj' \in [Kinds -> Object] /\ dsUID' \in Nat
          /\ degraded' \in BOOLEAN /\ queued' \in BOOLEAN
      BY <2>2, EnsuredType, WriteType DEF EnsureFails, TypeOK, objs
    <3>2. fails' \in Nat
      BY <2>2, FailsType DEF EnsureFails, TypeOK
    <3>3. QED
      BY Zenon, <1>8, <2>2, <3>1, <3>2
         DEF EnsureDNSService, EnsureFails, Collect, TypeOK
  <2>3. CASE obj' = [obj EXCEPT !["service"] = Absent] /\ edits' = edits + 1 /\ queued' = TRUE
             /\ dnsErrs' = TRUE /\ pc' = "nodeResolver"
             /\ UNCHANGED <<dsUID, degraded, errs, clusterIP, fails>>
    BY <1>8, <2>3, AbsentType DEF EnsureDNSService, TypeOK
  <2>4. QED
    BY Zenon, <1>8, <2>1, <2>2, <2>3 DEF EnsureDNSService
<1>9. CASE SyncDNSStatus
  <2> DEFINE ip == IF clusterIP THEN "ip" ELSE "noip"
  <2>1. [dns EXCEPT !.ip = ip] \in DNS
    BY DEF TypeOK, DNS
  <2>2. AfterStatus => pc' \in Steps /\ errs' \in BOOLEAN
    BY DEF AfterStatus, TypeOK
  <2>3. /\ dns' \in DNS /\ queued' \in BOOLEAN /\ fresh' \in BOOLEAN /\ fails' \in Nat
        /\ pc' \in Steps /\ errs' \in BOOLEAN
    <3> HIDE DEF ip
    <3>1. QED
      BY Zenon, <1>9, <2>1, <2>2, FailsType DEF SyncDNSStatus, PublishStatus, ip, TypeOK
  <2>4. QED
    BY Zenon, <1>9, <2>3 DEF SyncDNSStatus, TypeOK, objs
<1>10. CASE DegradedIsRetried
  BY ZenonT(120), <1>10, NoDNSType
     DEF DegradedIsRetried, EndPass, TypeOK, api, objs, bounds
<1>11. CASE Return
  BY Zenon, <1>11, NoDNSType DEF Return, EndPass, TypeOK, api, objs, bounds
<1>12. CASE EnsureOpenshiftExternalNameServiceDeleted \/ EnsureDNSDaemonSetDeleted
  <2>1. /\ obj' \in [Kinds -> Object] /\ dsUID' \in Nat
        /\ degraded' \in BOOLEAN /\ queued' \in BOOLEAN
    BY <1>12, AbsentType, WriteType DEF EnsureOpenshiftExternalNameServiceDeleted,
       EnsureDNSDaemonSetDeleted, DeleteObject, TypeOK, objs
  <2>2. QED
    BY ZenonT(120), <1>12, <2>1, FailsType
       DEF EnsureOpenshiftExternalNameServiceDeleted, EnsureDNSDaemonSetDeleted,
       DeleteObject, TypeOK
<1>13. CASE RemoveFinalizer
  <2>1. NoDNS(dns.uid) \in DNS
    BY NoDNSType DEF TypeOK, DNS
  <2>2. QED
    BY ZenonT(120), <1>13, <2>1, FailsType DEF RemoveFinalizer, TypeOK, objs
<1>14. QED
  BY <1>1, <1>2, <1>3, <1>4, <1>5, <1>6, <1>7, <1>8, <1>9, <1>10, <1>11, <1>12, <1>13
     DEF Reconcile, EnsureDNS

\* Every step keeps the types.
LEMMA NextType == TypeOK /\ [Next]_vars => TypeOK'
<1> SUFFICES ASSUME TypeOK, [Next]_vars PROVE TypeOK'
  OBVIOUS
<1>u. dns.uid \in Nat /\ NoDNS(dns.uid) \in DNS /\ NoDNS(dns.uid + 1) \in DNS
  BY NoDNSType DEF TypeOK, DNS
<1>n. ASSUME NEW s \in Specs, NEW m \in MgmtStates, NewDNS(s, m)
      PROVE  dns' \in DNS /\ queued' \in BOOLEAN /\ fresh' \in BOOLEAN
  BY Zenon, <1>n, <1>u DEF NewDNS, DNS
<1>1. CASE Reconcile
  BY <1>1, ReconcileType
<1>2. CASE GetDefaultDNS \/ CreateDefaultDNS
  <2>1. dns' \in DNS /\ queued' \in BOOLEAN /\ fresh' \in BOOLEAN
    BY Zenon, <1>2, <1>n, ConstantsAssumption
       DEF GetDefaultDNS, CreateDefaultDNS, TypeOK, api, work, pass
  <2>2. fails' \in Nat
    BY Zenon, <1>2, FailsType DEF GetDefaultDNS, CreateDefaultDNS, TypeOK
  <2>3. QED
    BY Zenon, <1>2, <2>1, <2>2
       DEF GetDefaultDNS, CreateDefaultDNS, TypeOK, api, objs, work, pass
<1>11. CASE \E s \in Specs, m \in MgmtStates : CreateDNS(s, m)
  <2>1. PICK s \in Specs, m \in MgmtStates : CreateDNS(s, m)
    BY <1>11
  <2>2. edits' \in Nat
    BY <2>1 DEF CreateDNS, UseEdit, TypeOK
  <2>3. QED
    BY Zenon, <1>n, <2>1, <2>2 DEF CreateDNS, TypeOK, objs
<1>3. CASE RequeueDue \/ Resync
  BY ZenonT(40), <1>3 DEF RequeueDue, Resync, TypeOK, api, objs, pass, bounds
<1>4. CASE EditDNS
  <2>1. dns' \in DNS
    BY ZenonT(40), <1>4, <1>u DEF EditDNS, TypeOK, DNS
  <2>2. edits' \in Nat
    BY <1>4 DEF EditDNS, UseEdit, TypeOK
  <2>3. QED
    BY Zenon, <1>4, <2>1, <2>2 DEF EditDNS, TypeOK, objs
<1>5. CASE \E k \in Touchable : TouchObject(k)
  <2>1. PICK k \in Kinds : TouchObject(k)
    BY <1>5, ConstantsAssumption
  <2>2. obj' \in [Kinds -> Object]
    <3>1. CASE obj' = [j \in Kinds |-> IF j = k \/ (k = "namespace" /\ j \in Namespaced)
                                       THEN Absent ELSE obj[j]]
      BY <3>1, AbsentType DEF TypeOK
    <3>2. CASE obj' = [obj EXCEPT ![k].content = "drifted"]
      BY <3>2 DEF TypeOK, Object, Contents
    <3>3. QED
      BY <2>1, <3>1, <3>2 DEF TouchObject
  <2>3. edits' \in Nat
    BY <2>1 DEF TouchObject, UseEdit, TypeOK
  <2>4. queued' \in BOOLEAN
    BY <2>1, Zenon DEF TouchObject
  <2>5. QED
    BY <2>1, <2>2, <2>3, <2>4 DEF TouchObject, TypeOK, pass
<1>6. CASE \E k \in DNSOwned \cup {"serviceMonitor"} : GarbageCollect(k)
  <2>1. PICK k \in Kinds : GarbageCollect(k)
    BY <1>6 DEF Kinds, Metrics
  <2>2. queued' \in BOOLEAN
    BY <2>1, Zenon DEF GarbageCollect
  <2>3. QED
    BY <2>1, <2>2, AbsentType DEF GarbageCollect, TypeOK, pass, bounds
<1>7. CASE PodsChange
  <2>1. edits' \in Nat
    BY <1>7 DEF PodsChange, UseEdit, TypeOK
  <2>2. QED
    BY <1>7, <2>1 DEF PodsChange, TypeOK, pass
<1>8. CASE Restart
  <2>1. queued' \in BOOLEAN
    BY <1>8, Zenon DEF Restart
  <2>2. QED
    BY Zenon, <1>8, <2>1, NoDNSType DEF Restart, EndPass, TypeOK, api, objs, Steps
<1>9. CASE UNCHANGED vars
  BY <1>9 DEF vars, api, objs, work, pass, bounds, TypeOK
<1>10. QED
  BY <1>1, <1>2, <1>3, <1>4, <1>5, <1>6, <1>7, <1>8, <1>9, <1>11 DEF Next

\* The type invariant holds initially: an empty cluster.
LEMMA InitType == Init => TypeOK
<1> SUFFICES ASSUME Init PROVE TypeOK
  OBVIOUS
<1>1. dns \in DNS /\ cur \in DNS
  BY NoDNSType DEF Init
<1>2. obj \in [Kinds -> Object]
  BY AbsentType DEF Init
<1>3. QED
  BY Zenon, <1>1, <1>2 DEF Init, TypeOK, Steps

\* Type correctness of the API server's objects, the queue and the pass, for
\* any number of edits, failures, restarts and incarnations of the DNS.
THEOREM TypeCorrect == Spec => []TypeOK
BY InitType, NextType, PTL DEF Spec

-----------------------------------------------------------------------------
(* What an ensure function changes, whether it succeeds (going on with s)  *)
(* or fails (going on with e).                                             *)
EnsureEffect(k, s, e) ==
    /\ pc = k
    /\ UNCHANGED <<dns, delayed, cur, fresh>>
    /\ queued => queued'
    /\ \A j \in Kinds \ {k} : obj'[j] = obj[j]
    /\ k \in Watches /\ obj'[k] # obj[k] => queued'
    /\ \/ /\ pc' = s
          /\ obj'[k] = Ensured(k)
          /\ UNCHANGED <<errs, dnsErrs, clusterIP>>
       \/ /\ pc' = e
          /\ IF k \in DNSOwned \cup Metrics
             THEN dnsErrs' = TRUE /\ UNCHANGED errs
             ELSE errs' = TRUE /\ UNCHANGED <<dnsErrs, clusterIP>>

\* Writing an ensured object changes that object only, and enqueues the DNS
\* if a watched one changed.
LEMMA WriteEffect ==
    ASSUME TypeOK, NEW k \in Kinds, Write(k, Ensured(k))
    PROVE  /\ \A j \in Kinds \ {k} : obj'[j] = obj[j]
           /\ obj'[k] = Ensured(k)
           /\ queued => queued'
           /\ k \in Watches /\ obj'[k] # obj[k] => queued'
<1>1. obj \in [Kinds -> Object]
  BY DEF TypeOK
<1>2. QED
  BY <1>1, Zenon DEF Write

\* A successful ensure function has the effect of EnsureEffect.
LEMMA SucceedsEffect ==
    ASSUME TypeOK, NEW k \in Kinds, NEW s, NEW e, pc = k, EnsureSucceeds(k, s),
           UNCHANGED <<dns, delayed, cur, fresh, clusterIP>>
    PROVE  EnsureEffect(k, s, e)
BY WriteEffect DEF EnsureSucceeds, EnsureEffect

\* A failing ensure function has it too, whether its write took place or not.
LEMMA FailsEffect ==
    ASSUME TypeOK, NEW k \in Kinds, NEW s, NEW e, pc = k, EnsureFails(k, e),
           UNCHANGED <<dns, delayed, cur, fresh>>,
           k \in DNSOwned \cup Metrics \/ UNCHANGED clusterIP
    PROVE  EnsureEffect(k, s, e)
<1>1. /\ \A j \in Kinds \ {k} : obj'[j] = obj[j]
      /\ queued => queued'
      /\ k \in Watches /\ obj'[k] # obj[k] => queued'
  BY WriteEffect DEF EnsureFails, objs
<1>2. QED
  BY <1>1 DEF EnsureFails, EnsureEffect, Collect

\* Every ensure action has the effect of EnsureEffect.
LEMMA EnsureHasEffect ==
    ASSUME TypeOK, NEW k \in Kinds, NEW s, NEW e, Ensure(k, s, e)
    PROVE  EnsureEffect(k, s, e)
BY SucceedsEffect, FailsEffect DEF Ensure

\* ensureDNSService has it, also when the service is gone at the read-back.
LEMMA ServiceHasEffect ==
    ASSUME TypeOK, EnsureDNSService
    PROVE  EnsureEffect("service", "metricsRole", "nodeResolver")
<1>1. "service" \in Kinds /\ "service" \in DNSOwned /\ "service" \in Watches
  BY DEF Kinds, DNSOwned, Watches
<1>2. CASE EnsureSucceeds("service", "metricsRole") /\ UNCHANGED <<clusterIP, edits>>
  BY <1>1, <1>2, SucceedsEffect DEF EnsureDNSService
<1>3. CASE EnsureFails("service", "nodeResolver")
  BY <1>1, <1>3, FailsEffect DEF EnsureDNSService
<1>4. CASE /\ obj' = [obj EXCEPT !["service"] = Absent] /\ queued' = TRUE
           /\ dnsErrs' = TRUE /\ pc' = "nodeResolver" /\ UNCHANGED errs
  BY <1>1, <1>4 DEF EnsureDNSService, EnsureEffect, TypeOK
<1>5. QED
  BY Zenon, <1>2, <1>3, <1>4 DEF EnsureDNSService

\* An ensure function keeps the invariants wherever the pass goes from there,
\* within the limits the control flow of ensureDNS respects.
LEMMA EnsureKeeps ==
    ASSUME IInv, NEW k \in Kinds, NEW s, NEW e, EnsureEffect(k, s, e),
           {s, e} \cap (EnsureSteps \cup {"status"}) # {} => k \in EnsureSteps,
           {s, e} \cap {"idle", "unmanaged", "deleteDaemonset", "release", "externalName"} = {},
           "deleteExternalName" \in {s, e} => cur.deleting,
           {s, e} \cap (BeforeFinalizer \cup DeleteSteps) # {} => k \in Scaffold,
           s = "done" <=> k = "externalName", k = "externalName" => e = "done",
           e = "done" => k \notin DNSOwned \cup Metrics,
           Pending(k) \subseteq Pending(s) \cup {k}
    PROVE  CopyInv' /\ HeldInv' /\ TornDownInv' /\ RouteInv' /\ SettledInv'
<1>1. /\ k \notin {"idle", "done", "network"} /\ Watches \subseteq EnsureSteps \cap Kinds
      /\ "externalName" \notin Watches
  BY DEF Kinds, Scaffold, Metrics, DNSOwned, Watches, EnsureSteps
<1>2. CopyInv'
  BY <1>1 DEF IInv, CopyInv, EnsureEffect
<1>3. HeldInv'
  BY <1>1 DEF IInv, HeldInv, EnsureEffect
<1>4. TornDownInv'
  BY Zenon DEF TornDownInv, EnsureEffect
<1>5. RouteInv'
  <2>1. pc' \notin {"idle", "unmanaged", "deleteDaemonset", "release", "externalName"}
    BY Zenon DEF EnsureEffect
  <2>2. pc' = "deleteExternalName" => cur'.deleting
    BY DEF EnsureEffect
  <2>3. pc' \in EnsureSteps \ {"network", "externalName"} /\ ~dnsErrs' => clusterIP'
    BY Zenon, <1>1 DEF EnsureEffect, IInv, RouteInv, EnsureSteps, DNSOwned, Metrics
  <2>4. pc' = "done" /\ dnsErrs' => errs'
    BY Zenon DEF EnsureEffect, IInv, RouteInv
  <2>5. pc' \in BeforeFinalizer \cup DeleteSteps => ~dnsErrs'
    <3>1. ASSUME pc' \in BeforeFinalizer \cup DeleteSteps PROVE ~dnsErrs'
      <4>1. pc' \in {s, e}
        BY DEF EnsureEffect
      <4>2. k \in Scaffold
        BY <3>1, <4>1
      <4>3. k \in BeforeFinalizer /\ k \notin DNSOwned \cup Metrics
        BY <4>2 DEF BeforeFinalizer, Scaffold, DNSOwned, Metrics
      <4>4. QED
        BY <4>3 DEF EnsureEffect, IInv, RouteInv
    <3>2. QED
      BY <3>1
  <2>6. QED
    BY <2>1, <2>2, <2>3, <2>4, <2>5 DEF RouteInv, DeleteSteps
<1>6. SettledInv'
  <2> SUFFICES ASSUME Quiet', Active', NEW j \in Watches, j \notin Pending(pc')
               PROVE  Settled(j)'
    BY DEF SettledInv
  <2>1. Quiet /\ Active /\ pc' = s /\ obj'[k] = Ensured(k) /\ UNCHANGED dns
    BY DEF EnsureEffect, Quiet, Active
  <2>2. fresh /\ cur = dns
    BY <1>1, <2>1 DEF IInv, CopyInv, EnsureEffect, Quiet
  <2>3. CASE j = k
    <3>1. clusterIP
      BY <1>1, <2>1, <2>3 DEF IInv, RouteInv, EnsureEffect, Quiet
    <3>2. obj[k] \in Object
      BY DEF IInv, TypeOK
    <3>3. Ensured(k).have /\ (k \in CreateOnly \/ Ensured(k).content = Desired(k, cur.spec, clusterIP))
      BY <3>2 DEF Ensured, Object
    <3>4. QED
      BY Zenon, <2>1, <2>2, <2>3, <3>1, <3>3 DEF Settled, IInv, TypeOK
  <2>4. CASE j # k
    <3>1. Settled(j)
      BY <2>1, <2>4 DEF IInv, SettledInv, EnsureEffect
    <3>2. obj'[j] = obj[j]
      BY <1>1, <2>4 DEF EnsureEffect
    <3>3. QED
      BY Zenon, <2>1, <3>1, <3>2 DEF Settled
  <2>5. QED
    BY <2>3, <2>4
<1>7. QED
  BY <1>2, <1>3, <1>4, <1>5, <1>6

\* The invariants beside the type invariant.
PassInv == CopyInv /\ HeldInv /\ TornDownInv /\ RouteInv /\ SettledInv

\* The ensure functions, each with its place in the pass.
LEMMA EnsureActions ==
    ASSUME IInv,
           \/ EnsureDNSNamespace \/ EnsureCABundleConfigMaps \/ EnsureDNSDaemonSet
           \/ EnsureDNSConfigMap \/ EnsureDNSNetworkPolicy \/ EnsureDenyAllNetworkPolicy
           \/ EnsureDNSService \/ EnsureMetricsIntegration \/ EnsureNodeResolverDaemonSet
           \/ EnsureExternalNameForOpenshiftService
    PROVE  PassInv'
<1> USE DEF PassInv
<1>t. TypeOK
  BY DEF IInv
<1>d. AfterScaffold \in {"finalizer", "deleteExternalName"}
      /\ (AfterScaffold = "deleteExternalName" => cur.deleting)
  BY DEF AfterScaffold
<1>1. CASE EnsureDNSNamespace
  <2> USE DEF Kinds, Scaffold, Metrics, DNSOwned, EnsureSteps
  <2>p. /\ \A j \in Watches : \A k \in Scaffold \cup {"finalizer", "deleteExternalName"} : j \in Pending(k)
        /\ \A k \in Kinds : Pending(k) \subseteq Watches
    BY DEF Pending, BeforeFinalizer, DeleteSteps, Watches
  <2>1. CASE EnsureNamespace
    BY <1>t, <1>d, <2>p, <2>1, EnsureHasEffect, EnsureKeeps DEF EnsureNamespace
  <2>2. CASE EnsureDNSClusterRole
    BY <1>t, <1>d, <2>p, <2>2, EnsureHasEffect, EnsureKeeps DEF EnsureDNSClusterRole
  <2>3. CASE EnsureClusterRoleBinding
    BY <1>t, <1>d, <2>p, <2>3, EnsureHasEffect, EnsureKeeps DEF EnsureClusterRoleBinding
  <2>4. CASE EnsureServiceAccount
    BY <1>t, <1>d, <2>p, <2>4, EnsureHasEffect, EnsureKeeps DEF EnsureServiceAccount
  <2>5. CASE EnsureNodeResolverServiceAccount
    BY <1>t, <1>d, <2>p, <2>5, EnsureHasEffect, EnsureKeeps
       DEF EnsureNodeResolverServiceAccount
  <2>6. QED
    BY <1>1, <2>1, <2>2, <2>3, <2>4, <2>5 DEF EnsureDNSNamespace
<1> USE DEF Kinds, Scaffold, Metrics, DNSOwned, EnsureSteps, Pending, BeforeFinalizer, DeleteSteps, Watches
<1>2. CASE EnsureCABundleConfigMaps
  BY <1>t, <1>2, EnsureHasEffect, EnsureKeeps DEF EnsureCABundleConfigMaps
<1>3. CASE EnsureDNSDaemonSet
  BY <1>t, <1>3, EnsureHasEffect, EnsureKeeps DEF EnsureDNSDaemonSet
<1>4. CASE EnsureDNSConfigMap
  BY <1>t, <1>4, EnsureHasEffect, EnsureKeeps DEF EnsureDNSConfigMap
<1>5. CASE EnsureDNSNetworkPolicy
  BY <1>t, <1>5, EnsureHasEffect, EnsureKeeps DEF EnsureDNSNetworkPolicy
<1>6. CASE EnsureDenyAllNetworkPolicy
  BY <1>t, <1>6, EnsureHasEffect, EnsureKeeps DEF EnsureDenyAllNetworkPolicy
<1>7. CASE EnsureDNSService
  BY <1>t, <1>7, ServiceHasEffect, EnsureKeeps
<1>8. CASE EnsureNodeResolverDaemonSet
  BY <1>t, <1>8, EnsureHasEffect, EnsureKeeps DEF EnsureNodeResolverDaemonSet
<1>9. CASE EnsureExternalNameForOpenshiftService
  BY <1>t, <1>9, EnsureHasEffect, EnsureKeeps DEF EnsureExternalNameForOpenshiftService
<1>10. CASE EnsureMetricsIntegration
  <2>1. CASE EnsureMetricsClusterRole
    BY <1>t, <2>1, EnsureHasEffect, EnsureKeeps DEF EnsureMetricsClusterRole
  <2>2. CASE EnsureMetricsClusterRoleBinding
    BY <1>t, <2>2, EnsureHasEffect, EnsureKeeps DEF EnsureMetricsClusterRoleBinding
  <2>3. CASE EnsureMetricsRole
    BY <1>t, <2>3, EnsureHasEffect, EnsureKeeps DEF EnsureMetricsRole
  <2>4. CASE EnsureMetricsRoleBinding
    BY <1>t, <2>4, EnsureHasEffect, EnsureKeeps DEF EnsureMetricsRoleBinding
  <2>5. CASE EnsureServiceMonitor
    BY <1>t, <2>5, EnsureHasEffect, EnsureKeeps DEF EnsureServiceMonitor
  <2>6. QED
    BY <1>10, <2>1, <2>2, <2>3, <2>4, <2>5 DEF EnsureMetricsIntegration
<1>11. QED
  BY <1>1, <1>2, <1>3, <1>4, <1>5, <1>6, <1>7, <1>8, <1>9, <1>10

\* The end of a pass: without a copy there is nothing to keep but that the
\* objects are settled if nothing asks for another pass.
LEMMA EndPassKeeps ==
    ASSUME IInv, EndPass,
           ~queued' /\ ~delayed' /\ Active' => \A k \in Watches : Settled(k)'
    PROVE  PassInv'
<1>1. CopyInv' /\ RouteInv' /\ TornDownInv'
  BY DEF EndPass, CopyInv, RouteInv, TornDownInv,
     EnsureSteps, DNSOwned, Metrics, DeleteSteps, BeforeFinalizer, Scaffold
<1>2. HeldInv'
  BY DEF EndPass, HeldInv, EnsureSteps, DNSOwned, Metrics, NoDNS
<1>3. SettledInv'
  BY DEF SettledInv, Quiet
<1>4. QED
  BY <1>1, <1>2, <1>3 DEF PassInv

\* A step of a pass that leaves the objects, the queue and the copy alone.
LEMMA ReadKeeps ==
    ASSUME IInv, ReadForStatus \/ GetClusterIPFromNetworkConfig \/ GetAPIServer
    PROVE  PassInv'
<1>0. UNCHANGED <<api, queued, delayed, cur, fresh, dnsErrs>>
  BY DEF ReadForStatus, GetClusterIPFromNetworkConfig, GetAPIServer, ReadOrReturn, work
<1>1. CopyInv'
  BY <1>0 DEF ReadForStatus, GetClusterIPFromNetworkConfig, GetAPIServer, ReadOrReturn,
     api, objs, CopyInv, IInv
<1>2. TornDownInv'
  BY <1>0 DEF ReadForStatus, GetClusterIPFromNetworkConfig, GetAPIServer,
     ReadOrReturn, TornDownInv
<1>3. HeldInv'
  BY <1>0 DEF ReadForStatus, GetClusterIPFromNetworkConfig, GetAPIServer, ReadOrReturn,
     api, HeldInv, IInv, RouteInv, EnsureSteps, DNSOwned, Metrics
<1>4. RouteInv'
  <2>1. CASE ReadForStatus
    BY <2>1 DEF ReadForStatus, RouteInv,
       EnsureSteps, DNSOwned, Metrics, DeleteSteps, BeforeFinalizer, Scaffold
  <2>2. CASE GetClusterIPFromNetworkConfig
    BY Zenon, <2>2 DEF GetClusterIPFromNetworkConfig, ReadOrReturn, RouteInv,
       EnsureSteps, DNSOwned, Metrics, DeleteSteps, BeforeFinalizer, Scaffold
  <2>3. CASE GetAPIServer
    BY <2>3 DEF GetAPIServer, ReadOrReturn, RouteInv, IInv,
       EnsureSteps, DNSOwned, Metrics, DeleteSteps, BeforeFinalizer, Scaffold
  <2>4. QED
    BY <2>1, <2>2, <2>3
<1>5. SettledInv'
  <2> SUFFICES ASSUME Quiet', Active', NEW k \in Watches \ Pending(pc')
               PROVE  Settled(k)'
    BY DEF SettledInv
  <2>1. Quiet /\ Active
    BY <1>0 DEF Quiet, Active, api, ReadForStatus, GetClusterIPFromNetworkConfig,
       GetAPIServer, ReadOrReturn
  <2>2. ~ReadForStatus
    BY <2>1 DEF ReadForStatus, IInv, RouteInv, CopyInv, Quiet, Active
  <2>3. k \notin Pending(pc)
    BY <2>2
       DEF Quiet, GetClusterIPFromNetworkConfig, GetAPIServer, ReadOrReturn, Pending,
       BeforeFinalizer, Scaffold, DeleteSteps, Metrics
  <2>4. QED
    BY Zenon, <1>0, <2>1, <2>3 DEF IInv, SettledInv, Settled, api, objs
<1>6. QED
  BY <1>1, <1>2, <1>3, <1>4, <1>5 DEF PassInv

\* Everything is pending early in a pass, nothing at its end.
LEMMA PendingFacts ==
    /\ \A step \in BeforeFinalizer \cup DeleteSteps \cup {"network", "caBundles"} :
          Pending(step) = Watches
    /\ \A step \in {"status", "externalName", "done", "idle"} : Pending(step) = {}
BY DEF Pending, BeforeFinalizer, DeleteSteps, Scaffold, Metrics

\* The start of a pass.
LEMMA GetKeeps == ASSUME IInv, GetDNS PROVE PassInv'
<1>1. CASE dns.exists /\ cur' = dns /\ fresh' = TRUE
           /\ pc' = (IF dns.mgmt = "Unmanaged" THEN "unmanaged" ELSE "namespace")
           /\ UNCHANGED <<errs, dnsErrs>>
  <2>1. UNCHANGED <<dns, obj>> /\ pc' \in {"unmanaged", "namespace"}
    BY <1>1 DEF GetDNS, api, objs
  <2>2. CopyInv' /\ TornDownInv'
    BY <1>1, <2>1 DEF CopyInv, TornDownInv
  <2>3. HeldInv' /\ RouteInv'
    BY <1>1, <2>1 DEF GetDNS, IInv, HeldInv, RouteInv,
       EnsureSteps, DNSOwned, Metrics, DeleteSteps, BeforeFinalizer, Scaffold
  <2>4. SettledInv'
    <3>1. Active' => Pending(pc') = Watches
      BY <1>1, <2>1, PendingFacts DEF Active, BeforeFinalizer, Scaffold
    <3>2. QED
      BY <3>1 DEF SettledInv
  <2>5. QED
    BY <2>2, <2>3, <2>4 DEF PassInv
<1>2. CASE EndPass /\ (~dns.exists \/ delayed' = TRUE)
  BY <1>2, EndPassKeeps DEF GetDNS, Active, api
<1>3. QED
  BY Zenon, <1>1, <1>2 DEF GetDNS

\* Adding the finalizer: the copy keeps up with the DNS, or the pass ends.
LEMMA FinalizerKeeps == ASSUME IInv, EnforceDNSFinalizer PROVE PassInv'
<1>0. /\ pc = "finalizer" /\ pc' \in {"network", "done"}
      /\ UNCHANGED <<obj, delayed, dnsErrs, clusterIP>>
      /\ queued => queued'
  BY DEF EnforceDNSFinalizer, objs
<1>1. CopyInv' /\ HeldInv'
  <2>1. dns \in DNS /\ cur \in DNS
    BY DEF IInv, TypeOK
  <2>2. CopyInv'
    BY <1>0, <2>1 DEF EnforceDNSFinalizer, IInv, CopyInv, DNS
  <2>3. HeldInv'
    BY <1>0, <2>1 DEF EnforceDNSFinalizer, IInv, CopyInv, HeldInv, DNS, EnsureSteps,
       DNSOwned, Metrics
  <2>4. QED
    BY <2>2, <2>3
<1>2. TornDownInv'
  BY <1>0 DEF TornDownInv
<1>3. RouteInv'
  BY <1>0 DEF RouteInv, EnforceDNSFinalizer,
     EnsureSteps, DNSOwned, Metrics, DeleteSteps, BeforeFinalizer, Scaffold
<1>4. SettledInv'
  <2>1. Quiet' => pc' = "network"
    BY <1>0 DEF Quiet, EnforceDNSFinalizer
  <2>2. QED
    BY <2>1, PendingFacts DEF SettledInv
<1>5. QED
  BY <1>1, <1>2, <1>3, <1>4 DEF PassInv

\* Writing the status.
LEMMA StatusKeeps == ASSUME IInv, SyncDNSStatus PROVE PassInv'
<1>t. dns \in DNS /\ cur \in DNS /\ errs \in BOOLEAN /\ dnsErrs \in BOOLEAN
  BY DEF IInv, TypeOK
<1>0. /\ pc = "status" /\ pc' \in {"externalName", "done"}
      /\ UNCHANGED <<obj, cur, dnsErrs, clusterIP>>
      /\ delayed => delayed'
  <2>1. AfterStatus => pc' \in {"externalName", "done"}
    BY DEF AfterStatus
  <2>2. pc' \in {"externalName", "done"}
    BY <2>1 DEF SyncDNSStatus, PublishStatus
  <2>3. delayed => delayed'
    BY Zenon DEF SyncDNSStatus
  <2>4. QED
    BY <2>2, <2>3 DEF SyncDNSStatus, objs
<1>1. /\ queued' \/ (UNCHANGED <<dns, fresh>> /\ queued' = queued)
      /\ fresh' => UNCHANGED <<dns, fresh>>
  BY DEF SyncDNSStatus, PublishStatus
<1>2. dns' = dns \/ \E ip \in {"ip", "noip"} : dns' = [dns EXCEPT !.ip = ip]
  BY DEF SyncDNSStatus, PublishStatus
<1>3. /\ pc' = "externalName" => cur.mgmt # "Unmanaged" /\ ~dnsErrs
      /\ pc' = "done" /\ dnsErrs => errs'
      /\ errs => errs'
  BY <1>t DEF SyncDNSStatus, PublishStatus, AfterStatus
<1>4. CopyInv'
  BY <1>0, <1>1 DEF IInv, CopyInv
<1>5. HeldInv'
  BY <1>t, <1>0, <1>2, <1>3 DEF IInv, HeldInv, DNS, EnsureSteps, DNSOwned, Metrics
<1>6. TornDownInv'
  BY <1>0 DEF TornDownInv
<1>7. RouteInv'
  BY <1>0, <1>3 DEF RouteInv,
     EnsureSteps, DNSOwned, Metrics, DeleteSteps, BeforeFinalizer, Scaffold
<1>8. SettledInv'
  <2>1. Quiet' => Quiet /\ UNCHANGED <<dns, obj>>
    BY <1>0, <1>1, <1>3 DEF Quiet
  <2>2. Pending(pc) = {} /\ Pending(pc') = {}
    BY <1>0, PendingFacts
  <2>3. QED
    BY Zenon, <2>1, <2>2 DEF IInv, SettledInv, Active, Settled
<1>9. QED
  BY <1>4, <1>5, <1>6, <1>7, <1>8 DEF PassInv

\* The two ways out of a pass after the status.
LEMMA ReturnKeeps == ASSUME IInv, DegradedIsRetried \/ Return PROVE PassInv'
<1>0. UNCHANGED <<dns, obj, queued>>
  BY DEF DegradedIsRetried, Return, api, objs
<1>1. CASE DegradedIsRetried /\ (cur.mgmt = "Unmanaged" \/ dnsErrs)
  <2>1. pc = "status" /\ pc' = "done" /\ errs' = TRUE
        /\ UNCHANGED <<delayed, cur, fresh, dnsErrs, clusterIP>>
    BY <1>1 DEF DegradedIsRetried
  <2>2. QED
    BY <1>0, <2>1
       DEF PassInv, IInv, CopyInv, HeldInv, TornDownInv, RouteInv, SettledInv, Quiet,
      
          EnsureSteps, DNSOwned, Metrics, DeleteSteps, BeforeFinalizer, Scaffold
<1>2. CASE DegradedIsRetried /\ ~(cur.mgmt = "Unmanaged" \/ dnsErrs)
  <2>1. EndPass /\ delayed' = TRUE
    BY <1>2 DEF DegradedIsRetried
  <2>2. QED
    BY <2>1, EndPassKeeps
<1>3. CASE Return
  <2>1. pc = "done" /\ EndPass /\ delayed' = (delayed \/ errs)
    BY <1>3 DEF Return
  <2>2. ASSUME ~queued', ~delayed', Active' PROVE \A k \in Watches : Settled(k)'
    <3>1. Quiet /\ Active
      BY Zenon, <1>0, <2>1, <2>2 DEF Quiet, Active, IInv, RouteInv
    <3>2. \A k \in Watches : Settled(k)
      BY <2>1, <3>1, PendingFacts DEF IInv, SettledInv
    <3>3. QED
      BY Zenon, <1>0, <3>2 DEF Settled
  <2>3. QED
    BY <2>1, <2>2, EndPassKeeps
<1>4. QED
  BY <1>1, <1>2, <1>3

\* The deletion.
LEMMA DeletionKeeps ==
    ASSUME IInv, \/ EnsureOpenshiftExternalNameServiceDeleted \/ EnsureDNSDaemonSetDeleted
                 \/ RemoveFinalizer
    PROVE  PassInv'
<1>d. pc \in DeleteSteps /\ UNCHANGED <<delayed, cur, dnsErrs, clusterIP>>
  BY DEF EnsureOpenshiftExternalNameServiceDeleted, EnsureDNSDaemonSetDeleted,
     DeleteObject,
     RemoveFinalizer, DeleteSteps
<1>1. CASE EnsureOpenshiftExternalNameServiceDeleted \/ EnsureDNSDaemonSetDeleted
  <2>0. /\ UNCHANGED <<dns, fresh>> /\ pc' \in {"deleteDaemonset", "release"}
        /\ queued => queued'
    <3>1. ASSUME NEW k, Write(k, Absent) PROVE queued => queued'
      BY <3>1, Zenon DEF Write
    <3>2. QED
      BY <1>1, <3>1 DEF EnsureOpenshiftExternalNameServiceDeleted,
         EnsureDNSDaemonSetDeleted, DeleteObject
  <2>1. CopyInv' /\ HeldInv' /\ RouteInv'
    BY <1>d, <2>0 DEF IInv, CopyInv, HeldInv, RouteInv,
       EnsureSteps, DNSOwned, Metrics, DeleteSteps, BeforeFinalizer, Scaffold
  <2>2. TornDownInv'
    <3>1. obj \in [Kinds -> Object] /\ "daemonset" \in Kinds /\ "externalName" \in Kinds
          /\ ~Absent.have
      BY DEF IInv, TypeOK, Kinds, DNSOwned, Absent
    <3>2. CASE EnsureOpenshiftExternalNameServiceDeleted
      BY <3>1, <3>2 DEF EnsureOpenshiftExternalNameServiceDeleted, DeleteObject,
         Write, TornDownInv
    <3>3. CASE EnsureDNSDaemonSetDeleted
      BY <3>1, <3>3
         DEF EnsureDNSDaemonSetDeleted, DeleteObject, Write, TornDownInv, IInv
    <3>4. QED
      BY <1>1, <3>2, <3>3
  <2>3. SettledInv'
    BY <2>0, PendingFacts DEF SettledInv, DeleteSteps
  <2>4. QED
    BY <2>1, <2>2, <2>3 DEF PassInv
<1>2. CASE RemoveFinalizer
  <2>0. /\ pc' = "done" /\ UNCHANGED obj
        /\ queued' \/ UNCHANGED <<dns, fresh, queued>>
        /\ fresh' => UNCHANGED <<dns, fresh>>
    BY <1>2 DEF RemoveFinalizer, objs
  <2>1. CopyInv'
    BY <1>d, <2>0 DEF IInv, CopyInv, DeleteSteps
  <2>2. HeldInv' /\ TornDownInv'
    BY <2>0 DEF HeldInv, TornDownInv, EnsureSteps, DNSOwned, Metrics
  <2>3. RouteInv'
    BY <1>d, <2>0 DEF RouteInv, IInv,
       EnsureSteps, DNSOwned, Metrics, DeleteSteps, BeforeFinalizer, Scaffold
  <2>4. SettledInv'
    <3>1. ~queued' => ~Active'
      BY <1>d, <2>0 DEF IInv, CopyInv, RouteInv, Active, DeleteSteps
    <3>2. QED
      BY <3>1 DEF SettledInv, Quiet
  <2>5. QED
    BY <2>1, <2>2, <2>3, <2>4 DEF PassInv
<1>3. QED
  BY <1>1, <1>2

\* A step that leaves the pass and the DNS alone keeps the invariants if it
\* enqueues the DNS when it changes a watched object, and creates nothing.
LEMMA OutsideKeeps ==
    ASSUME IInv, UNCHANGED <<dns, pc, pass>>, queued => queued', queued' \/ delayed' = delayed,
           \A k \in Watches : ~queued' => obj'[k] = obj[k],
           \A k \in {"daemonset", "externalName"} : ~obj[k].have => ~obj'[k].have
    PROVE  PassInv'
<1>1. CopyInv' /\ HeldInv' /\ RouteInv'
  BY DEF IInv, CopyInv, HeldInv, RouteInv, pass
<1>2. TornDownInv'
  BY DEF IInv, TornDownInv, pass
<1>3. SettledInv'
  <2>1. Quiet' => Quiet
    BY DEF Quiet, pass
  <2>2. Quiet' => \A k \in Watches : Settled(k) => Settled(k)'
    BY Zenon DEF Settled, Quiet
  <2>3. QED
    BY <2>1, <2>2 DEF IInv, SettledInv, Active
<1>4. QED
  BY <1>1, <1>2, <1>3 DEF PassInv

\* A change of the DNS by anyone else is seen as a stale copy and queued.
LEMMA ChangeKeeps ==
    ASSUME IInv, UNCHANGED <<obj, pc, cur, errs, dnsErrs, clusterIP>>,
           queued' = TRUE, fresh' = FALSE,
           dns.exists /\ dns.fin => dns'.exists /\ dns'.fin /\ dns'.uid = dns.uid
    PROVE  PassInv'
<1>1. CopyInv' /\ RouteInv' /\ TornDownInv' /\ SettledInv'
  BY DEF IInv, CopyInv, RouteInv, TornDownInv, SettledInv, Quiet
<1>2. HeldInv'
  BY DEF IInv, HeldInv
<1>3. QED
  BY <1>1, <1>2 DEF PassInv

\* The inductive step.
LEMMA NextKeeps == IInv /\ [Next]_vars => IInv'
<1> SUFFICES ASSUME IInv, [Next]_vars PROVE IInv'
  OBVIOUS
<1>t. TypeOK /\ TypeOK'
  BY NextType DEF IInv
<1>k. /\ "daemonset" \in Kinds /\ "externalName" \in Kinds /\ Watches \subseteq Kinds
      /\ ~Absent.have /\ obj \in [Kinds -> Object]
  BY <1>t DEF Kinds, Watches, DNSOwned, Absent, TypeOK
<1>1. PassInv'
  <2>1. CASE Reconcile
    BY <2>1, GetKeeps, ReadKeeps, EnsureActions, FinalizerKeeps, StatusKeeps,
       ReturnKeeps,
       DeletionKeeps DEF Reconcile, EnsureDNS
  <2>2. ASSUME NEW s, NEW m, NewDNS(s, m),
               UNCHANGED <<objs, pc, cur, errs, dnsErrs, clusterIP>>
        PROVE  PassInv'
    BY Zenon, <2>2, ChangeKeeps DEF NewDNS, objs
  <2>11. CASE GetDefaultDNS
    BY <2>11, OutsideKeeps DEF GetDefaultDNS, api, objs, work
  <2>12. CASE CreateDefaultDNS
    <3>1. CASE UNCHANGED <<dns, queued, fresh>>
      BY <2>12, <3>1, OutsideKeeps DEF CreateDefaultDNS, objs, pass
    <3>2. QED
      BY Zenon, <2>2, <2>12, <3>1 DEF CreateDefaultDNS
  <2>13. CASE \E s \in Specs, m \in MgmtStates : CreateDNS(s, m)
    BY Zenon, <2>2, <2>13 DEF CreateDNS
  <2>3. CASE EditDNS
    <3>1. dns.exists /\ dns.fin => dns'.exists /\ dns'.fin /\ dns'.uid = dns.uid
      BY <1>t, <2>3 DEF EditDNS, TypeOK, DNS
    <3>2. QED
      BY Zenon, <2>3, <3>1, ChangeKeeps DEF EditDNS, objs
  <2>4. CASE RequeueDue \/ Resync
    BY <2>4, OutsideKeeps DEF RequeueDue, Resync, api, objs, pass, IInv
  <2>5. CASE \E k \in Touchable : TouchObject(k)
    <3>1. PICK k \in Kinds : TouchObject(k)
      BY <2>5, ConstantsAssumption
    <3>2. \A j \in {"daemonset", "externalName"} : ~obj[j].have => ~obj'[j].have
      BY <1>k, <3>1 DEF TouchObject, Object
    <3>3. /\ queued => queued'
          /\ \A j \in Watches : ~queued' => obj'[j] = obj[j]
      BY <3>1, Zenon DEF TouchObject
    <3>4. QED
      BY <3>1, <3>2, <3>3, OutsideKeeps DEF TouchObject
  <2>6. CASE \E k \in DNSOwned \cup {"serviceMonitor"} : GarbageCollect(k)
    <3>1. PICK k \in Kinds : GarbageCollect(k)
      BY <2>6 DEF Kinds, Metrics
    <3>2. /\ queued => queued'
          /\ k \in Watches => queued'
      BY <3>1, Zenon DEF GarbageCollect
    <3>3. /\ \A j \in {"daemonset", "externalName"} : ~obj[j].have => ~obj'[j].have
          /\ \A j \in Watches : ~queued' => obj'[j] = obj[j]
      BY <1>k, <3>1, <3>2 DEF GarbageCollect
    <3>4. QED
      BY <3>1, <3>2, <3>3, OutsideKeeps DEF GarbageCollect
  <2>7. CASE PodsChange
    BY <2>7, OutsideKeeps DEF PodsChange
  <2>8. CASE Restart
    BY Zenon, <2>8, EndPassKeeps DEF Restart, Active, api
  <2>9. CASE UNCHANGED vars
    BY <2>9, OutsideKeeps DEF vars, api, objs, work
  <2>10. QED
    BY <2>1, <2>3, <2>4, <2>5, <2>6, <2>7, <2>8, <2>9, <2>11, <2>12, <2>13 DEF Next
<1>2. QED
  BY <1>t, <1>1 DEF IInv, PassInv

-----------------------------------------------------------------------------
(* The properties.                                                         *)

\* The inductive invariant holds initially.
LEMMA InitInv == Init => IInv
<1> SUFFICES ASSUME Init PROVE IInv
  OBVIOUS
<1>1. TypeOK
  BY InitType
<1>2. CopyInv /\ HeldInv /\ TornDownInv
  BY DEF Init, CopyInv, HeldInv, TornDownInv, NoDNS, EnsureSteps, DNSOwned, Metrics
<1>3. RouteInv
  BY DEF Init, RouteInv, EnsureSteps, DNSOwned, Metrics, DeleteSteps
<1>4. SettledInv
  BY DEF Init, SettledInv, Active, NoDNS
<1>5. QED
  BY <1>1, <1>2, <1>3, <1>4 DEF IInv

\* The inductive invariant holds of every behaviour.
LEMMA Inductive == Spec => []IInv
BY InitInv, NextKeeps, PTL DEF Spec

\* Every other step leaves the DNS as it is.
LEMMA OthersKeepDNS ==
    ASSUME [Next]_vars
    PROVE  \/ RemoveFinalizer \/ EnforceDNSFinalizer \/ SyncDNSStatus \/ EditDNS
           \/ \E s \in Specs, m \in MgmtStates : CreateDNS(s, m)
           \/ CreateDefaultDNS \/ UNCHANGED dns
<1>1. ASSUME NEW k, NEW s, NEW e, Ensure(k, s, e) PROVE UNCHANGED dns
  BY <1>1 DEF Ensure
<1>2. CASE Reconcile
  <2>1. CASE EnsureDNSNamespace
    BY <1>1, <2>1 DEF EnsureDNSNamespace, EnsureNamespace, EnsureDNSClusterRole,
       EnsureClusterRoleBinding, EnsureServiceAccount, EnsureNodeResolverServiceAccount
  <2>2. CASE EnsureMetricsIntegration
    BY <1>1, <2>2 DEF EnsureMetricsIntegration, EnsureMetricsClusterRole,
       EnsureMetricsClusterRoleBinding, EnsureMetricsRole, EnsureMetricsRoleBinding, EnsureServiceMonitor
  <2>3. CASE EnsureCABundleConfigMaps \/ EnsureDNSDaemonSet \/ EnsureDNSConfigMap
             \/ EnsureDNSNetworkPolicy \/ EnsureDenyAllNetworkPolicy
             \/ EnsureNodeResolverDaemonSet \/ EnsureExternalNameForOpenshiftService
    BY <1>1, <2>3 DEF EnsureCABundleConfigMaps, EnsureDNSDaemonSet, EnsureDNSConfigMap,
       EnsureDNSNetworkPolicy, EnsureDenyAllNetworkPolicy, EnsureNodeResolverDaemonSet,
       EnsureExternalNameForOpenshiftService
  <2>4. CASE GetDNS \/ ReadForStatus \/ GetClusterIPFromNetworkConfig \/ GetAPIServer
             \/ EnsureDNSService \/ DegradedIsRetried \/ Return
    BY <2>4 DEF GetDNS, ReadForStatus, GetClusterIPFromNetworkConfig, GetAPIServer,
       ReadOrReturn,
       EnsureDNSService, DegradedIsRetried, Return, api
  <2>5. CASE EnsureOpenshiftExternalNameServiceDeleted \/ EnsureDNSDaemonSetDeleted
    BY <2>5 DEF EnsureOpenshiftExternalNameServiceDeleted, EnsureDNSDaemonSetDeleted,
       DeleteObject
  <2>6. QED
    BY <1>2, <2>1, <2>2, <2>3, <2>4, <2>5 DEF Reconcile, EnsureDNS
<1>3. CASE \/ GetDefaultDNS \/ RequeueDue \/ Resync \/ PodsChange \/ Restart
           \/ UNCHANGED vars
  BY <1>3 DEF GetDefaultDNS, RequeueDue, Resync, PodsChange, Restart, api, vars
<1>4. CASE (\E k \in Touchable : TouchObject(k))
           \/ \E k \in DNSOwned \cup {"serviceMonitor"} : GarbageCollect(k)
  BY <1>4 DEF TouchObject, GarbageCollect
<1>5. QED
  BY <1>2, <1>3, <1>4 DEF Next

\* While ensureDNS runs, the DNS whose UID it writes into owner references
\* exists and is held by the finalizer, whoever deletes it meanwhile.
THEOREM FinalizerProtectsAlways == Spec => []FinalizerProtects
<1>1. IInv => FinalizerProtects
  BY DEF IInv, HeldInv, FinalizerProtects, EnsureSteps, DNSOwned, Metrics
<1>2. QED
  BY <1>1, Inductive, PTL

\* Reconcile removes the finalizer only when the daemonset and the external
\* name service are gone.
THEOREM TeardownPrecedesRelease == Spec => TeardownBeforeRelease
<1>1. ASSUME IInv, [Next]_vars, dns.exists, dns.fin, ~dns'.exists
      PROVE  ~obj["daemonset"].have /\ ~obj["externalName"].have
  <2>1. dns \in DNS /\ cur \in DNS
    BY <1>1 DEF IInv, TypeOK
  <2>2. CASE RemoveFinalizer
    BY <1>1, <2>2 DEF RemoveFinalizer, IInv, TornDownInv
  <2>3. CASE EnforceDNSFinalizer
    BY <1>1, <2>1, <2>3 DEF EnforceDNSFinalizer, IInv, CopyInv, DNS
  <2>4. CASE SyncDNSStatus
    BY <1>1, <2>1, <2>4 DEF SyncDNSStatus, PublishStatus, DNS
  <2>5. CASE EditDNS
    BY <1>1, <2>1, <2>5 DEF EditDNS, DNS
  <2>6. CASE CreateDefaultDNS \/ \E s \in Specs, m \in MgmtStates : CreateDNS(s, m)
    BY <1>1, <2>6 DEF CreateDefaultDNS, CreateDNS, NewDNS
  <2>7. CASE UNCHANGED dns
    BY <1>1, <2>7
  <2>8. QED
    BY <1>1, <2>2, <2>3, <2>4, <2>5, <2>6, <2>7, OthersKeepDNS
<1>2. IInv /\ [Next]_vars =>
        [dns.exists /\ dns.fin /\ ~dns'.exists
            => ~obj["daemonset"].have /\ ~obj["externalName"].have]_vars
  BY <1>1
<1>3. QED
  BY <1>2, Inductive, PTL DEF Spec, TeardownBeforeRelease

\* The updates of the DNS as a whole, and the creation of a DNS that was found
\* missing, never undo what an administrator has done meanwhile.
THEOREM EditsSurvive == Spec => AdminEditsSurvive
<1> DEFINE Kept == /\ dns'.spec = dns.spec /\ dns'.mgmt = dns.mgmt
                   /\ dns'.deleting = dns.deleting /\ dns'.uid = dns.uid
<1>1. ASSUME IInv, [Next]_vars, edits' = edits, dns'.exists, dns.exists \/ pc' # pc
      PROVE  Kept
  <2>1. dns \in DNS /\ cur \in DNS /\ edits \in Nat
    BY <1>1 DEF IInv, TypeOK
  <2>2. CASE RemoveFinalizer
    <3>1. UNCHANGED dns \/ dns' = NoDNS(dns.uid)
      BY Zenon, <2>2 DEF RemoveFinalizer
    <3>2. ~NoDNS(dns.uid).exists
      BY DEF NoDNS
    <3>3. QED
      BY Zenon, <1>1, <3>1, <3>2
  <2>3. CASE EnforceDNSFinalizer
    <3>1. UNCHANGED dns \/ (fresh /\ dns' = [cur EXCEPT !.fin = TRUE])
      BY Zenon, <2>3 DEF EnforceDNSFinalizer
    <3>2. fresh => cur = dns
      BY <1>1 DEF IInv, CopyInv
    <3>3. QED
      BY <2>1, <3>1, <3>2 DEF DNS
  <2>4. CASE SyncDNSStatus
    BY <1>1, <2>1, <2>4 DEF SyncDNSStatus, PublishStatus, DNS
  <2>5. CASE EditDNS \/ \E s \in Specs, m \in MgmtStates : CreateDNS(s, m)
    <3>1. UseEdit
      BY <2>5 DEF EditDNS, CreateDNS
    <3>2. QED
      BY <1>1, <2>1, <3>1 DEF UseEdit
  <2>6. CASE CreateDefaultDNS
    BY <1>1, <2>6 DEF CreateDefaultDNS, NewDNS
  <2>7. CASE UNCHANGED dns
    BY <1>1, <2>7
  <2>8. QED
    BY <1>1, <2>2, <2>3, <2>4, <2>5, <2>6, <2>7, OthersKeepDNS
<1>2. IInv /\ [Next]_vars =>
        [edits' = edits /\ dns'.exists /\ (dns.exists \/ pc' # pc) => Kept]_vars
  BY <1>1
<1>3. QED
  BY <1>2, Inductive, PTL DEF Spec, AdminEditsSurvive

\* No wakeup is lost: whatever was edited, failed, degraded or restarted, when
\* the operator rests every watched object is as the DNS asks.
THEOREM NoLostWakeup == Spec => []QuietMeansSettled
<1>1. IInv => QuietMeansSettled
  <2> SUFFICES ASSUME IInv, pc = "idle", ~queued, ~delayed, Active, NEW k \in Watches
               PROVE  Settled(k)
    BY DEF QuietMeansSettled
  <2>1. ~errs /\ ~dnsErrs
    BY DEF IInv, RouteInv
  <2>2. QED
    BY <2>1, PendingFacts DEF IInv, SettledInv, Quiet
<1>2. QED
  BY <1>1, Inductive, PTL

-----------------------------------------------------------------------------
(* The life of the DNS.                                                    *)

\* A DNS that is deleted but still there is held, operands belong to a DNS
\* that is held, and the daemonset to this incarnation of it.
LifeInv ==
    /\ dns.exists /\ dns.deleting => dns.fin
    /\ Installed # {} => dns.exists /\ dns.fin
    /\ obj["daemonset"].have => obj["daemonset"].owner = dns.uid

\* What a step does to the operands: the pass ensures one, or they stay or go.
OperandsStep ==
    \/ \A k \in TornDown :
          obj'[k].have => obj[k].have /\ obj'[k].owner = obj[k].owner
    \/ \E k \in TornDown :
          /\ pc = k /\ obj'[k] = Ensured(k)
          /\ \A j \in TornDown \ {k} : obj'[j] = obj[j]

\* The operands are objects.
LEMMA OperandKinds == TornDown \subseteq Kinds
BY DEF TornDown, Kinds, DNSOwned

\* An ensure function writes what it ensures, or nothing.
LEMMA EnsureWrites ==
    ASSUME TypeOK, NEW k \in Kinds, NEW s, NEW e, Ensure(k, s, e)
    PROVE  OperandsStep
<1>1. pc = k /\ (UNCHANGED obj \/ Write(k, Ensured(k)))
  BY Zenon DEF Ensure, EnsureSucceeds, EnsureFails, objs
<1>2. CASE UNCHANGED obj
  BY <1>2 DEF OperandsStep
<1>3. CASE Write(k, Ensured(k))
  <2>1. obj'[k] = Ensured(k) /\ \A j \in Kinds \ {k} : obj'[j] = obj[j]
    BY <1>3, WriteEffect
  <2>2. CASE k \in TornDown
    BY <1>1, <2>1, <2>2, OperandKinds DEF OperandsStep
  <2>3. CASE k \notin TornDown
    BY SMTT(30), <2>1, <2>3, OperandKinds DEF OperandsStep
  <2> QED
    BY SMTT(30), <2>2, <2>3
<1> QED
  BY <1>1, <1>2, <1>3

\* Every step is one of those.
LEMMA NextOperands ==
    ASSUME TypeOK, [Next]_vars
    PROVE  OperandsStep
<1> USE DEF Kinds, Scaffold, Metrics, DNSOwned
<1>1. CASE EnsureDNSNamespace
  BY <1>1, EnsureWrites DEF EnsureDNSNamespace, EnsureNamespace, EnsureDNSClusterRole,
     EnsureClusterRoleBinding, EnsureServiceAccount, EnsureNodeResolverServiceAccount
<1>2. CASE EnsureMetricsIntegration
  BY <1>2, EnsureWrites DEF EnsureMetricsIntegration, EnsureMetricsClusterRole,
     EnsureMetricsClusterRoleBinding, EnsureMetricsRole, EnsureMetricsRoleBinding,
     EnsureServiceMonitor
<1>3. CASE \/ EnsureCABundleConfigMaps \/ EnsureDNSDaemonSet \/ EnsureDNSConfigMap
           \/ EnsureDNSNetworkPolicy \/ EnsureDenyAllNetworkPolicy
           \/ EnsureNodeResolverDaemonSet \/ EnsureExternalNameForOpenshiftService
  BY <1>3, EnsureWrites DEF EnsureCABundleConfigMaps, EnsureDNSDaemonSet,
     EnsureDNSConfigMap, EnsureDNSNetworkPolicy, EnsureDenyAllNetworkPolicy,
     EnsureNodeResolverDaemonSet, EnsureExternalNameForOpenshiftService
<1>4. CASE EnsureDNSService
  <2>1. \A j \in Kinds \ {"service"} : obj'[j] = obj[j]
    BY <1>4, ServiceHasEffect DEF EnsureEffect
  <2> QED
    BY <2>1 DEF OperandsStep, TornDown
<1>5. CASE EnsureOpenshiftExternalNameServiceDeleted \/ EnsureDNSDaemonSetDeleted
  <2>1. PICK k \in TornDown : UNCHANGED obj \/ Write(k, Absent)
    BY Zenon, <1>5 DEF EnsureOpenshiftExternalNameServiceDeleted,
       EnsureDNSDaemonSetDeleted, DeleteObject, TornDown, objs
  <2>2. obj \in [Kinds -> Object] /\ ~Absent.have
    BY DEF TypeOK, Absent
  <2> QED
    BY <2>1, <2>2, OperandKinds DEF Write, OperandsStep
<1>6. CASE \E k \in Touchable : TouchObject(k)
  <2>1. PICK k \in Touchable : TouchObject(k)
    BY <1>6
  <2>2. obj \in [Kinds -> Object] /\ ~Absent.have
    BY DEF TypeOK, Absent
  <2>3. \/ \A j \in Kinds : obj'[j] = Absent \/ obj'[j] = obj[j]
        \/ obj' = [obj EXCEPT ![k].content = "drifted"]
    BY Zenon, <2>1 DEF TouchObject
  <2>4. \A j \in Kinds : obj'[j].have => obj[j].have /\ obj'[j].owner = obj[j].owner
    BY <2>1, <2>2, <2>3 DEF TouchObject, Object
  <2> QED
    BY <2>4, OperandKinds DEF OperandsStep
<1>7. CASE \E k \in DNSOwned \cup {"serviceMonitor"} : GarbageCollect(k)
  <2>1. PICK k \in Kinds : obj' = [obj EXCEPT ![k] = Absent]
    BY <1>7 DEF GarbageCollect
  <2>2. obj \in [Kinds -> Object] /\ ~Absent.have
    BY DEF TypeOK, Absent
  <2> QED
    BY <2>1, <2>2, OperandKinds DEF OperandsStep
<1>8. CASE UNCHANGED obj
  BY <1>8 DEF OperandsStep
<1> QED
  BY ZenonT(40), <1>1, <1>2, <1>3, <1>4, <1>5, <1>6, <1>7, <1>8
     DEF Next, Reconcile, EnsureDNS, GetDNS, ReadForStatus, EnforceDNSFinalizer,
         GetClusterIPFromNetworkConfig, GetAPIServer, ReadOrReturn, SyncDNSStatus,
         DegradedIsRetried, Return, RemoveFinalizer, GetDefaultDNS, CreateDefaultDNS,
         RequeueDue, Resync, EditDNS, CreateDNS, PodsChange, Restart, vars, api, objs

\* What DNSLifecycle says of a step, together with the invariant.
LifeStep == LifeInv' /\ [Lifecycle!Next]_<<dns.uid, Phase, Installed>>

\* A step that only changes operands installs one for a DNS that is held, or
\* takes some away.
LEMMA OperandsLife ==
    ASSUME IInv, LifeInv, UNCHANGED dns, OperandsStep
    PROVE  LifeStep
<1>1. Phase' = Phase
  BY DEF Phase
<1>2. CASE \A k \in TornDown :
              obj'[k].have => obj[k].have /\ obj'[k].owner = obj[k].owner
  <2>1. Installed' \subseteq Installed
    BY <1>2 DEF Installed, TornDown
  <2>2. LifeInv'
    BY <1>2, <2>1 DEF LifeInv, TornDown
  <2>3. Lifecycle!Uninstall
    BY <1>1, <2>1 DEF Lifecycle!Uninstall
  <2> QED
    BY <2>2, <2>3 DEF LifeStep, Lifecycle!Next
<1>3. CASE \E k \in TornDown : /\ pc = k /\ obj'[k] = Ensured(k)
                               /\ \A j \in TornDown \ {k} : obj'[j] = obj[j]
  <2>1. PICK k \in TornDown : /\ pc = k /\ obj'[k] = Ensured(k)
                              /\ \A j \in TornDown \ {k} : obj'[j] = obj[j]
    BY <1>3
  <2>2. dns.exists /\ dns.fin /\ dns.uid = cur.uid
    <3>1. pc \in EnsureSteps /\ pc \notin {"idle", "done"}
      BY <2>1 DEF TornDown, EnsureSteps, DNSOwned
    <3> QED
      BY Zenon, <3>1 DEF IInv, HeldInv
  <2>3. obj[k] \in Object
    BY OperandKinds DEF IInv, TypeOK
  <2>4. obj'[k].have
    BY <2>1, <2>3 DEF Ensured, Object
  <2>5. k = "daemonset" => obj'[k].owner = dns.uid
    BY <2>1, <2>2, <2>3 DEF Ensured, Object, OwnerRef, DNSOwned, LifeInv, CreateOnly
  <2>6. Installed' = Installed \cup {k}
    BY <2>1, <2>4 DEF Installed
  <2>7. obj'["daemonset"].have => obj'["daemonset"].owner = dns.uid
    BY <2>1, <2>5 DEF TornDown, LifeInv
  <2>8. LifeInv'
    BY <2>2, <2>7 DEF LifeInv
  <2>9. Phase \in {"held", "leaving"}
    BY <2>2 DEF Phase
  <2>10. Lifecycle!Install(k)
    BY <1>1, <2>6, <2>9 DEF Lifecycle!Install
  <2> QED
    BY <2>8, <2>10 DEF LifeStep, Lifecycle!Next
<1> QED
  BY <1>2, <1>3 DEF OperandsStep

\* A step that only changes the DNS creates, holds, deletes or releases it, or
\* changes nothing that the finalizer is about.
LEMMA DNSLife ==
    ASSUME IInv, LifeInv,
           \/ RemoveFinalizer \/ EnforceDNSFinalizer \/ SyncDNSStatus \/ EditDNS
           \/ \E s \in Specs, m \in MgmtStates : CreateDNS(s, m)
           \/ CreateDefaultDNS
    PROVE  LifeStep
<1> USE DEF LifeStep, Lifecycle!Next
<1>1. UNCHANGED obj /\ UNCHANGED Installed
  BY DEF RemoveFinalizer, EnforceDNSFinalizer, SyncDNSStatus, EditDNS,
     CreateDNS, CreateDefaultDNS, objs, Installed
<1>2. dns \in DNS /\ (fresh => cur = dns /\ dns.exists)
  BY DEF IInv, TypeOK, CopyInv
<1>3. ASSUME dns'.exists = dns.exists, dns'.fin = dns.fin,
             dns'.deleting = dns.deleting, dns'.uid = dns.uid
      PROVE  LifeStep
  BY <1>1, <1>3 DEF LifeInv, Phase
<1>4. ASSUME dns' = NoDNS(dns.uid), dns.exists, Installed = {},
             dns.fin => dns.deleting
      PROVE  LifeStep
  <2>1. ~dns'.exists /\ dns'.uid = dns.uid /\ Phase' = "absent"
    BY <1>4 DEF NoDNS, Phase
  <2>2. LifeInv'
    BY <1>1, <1>4, <2>1 DEF LifeInv, Installed, TornDown
  <2>3. CASE dns.fin
    BY <1>1, <1>4, <2>1, <2>2, <2>3 DEF Phase, Lifecycle!Release
  <2>4. CASE ~dns.fin
    BY <1>1, <1>4, <2>1, <2>2, <2>4 DEF Phase, Lifecycle!Delete
  <2> QED
    BY <2>3, <2>4
<1>5. CASE RemoveFinalizer
  <2>1. UNCHANGED dns \/ (~errs /\ fresh /\ dns' = NoDNS(dns.uid))
    BY Zenon, <1>5 DEF RemoveFinalizer
  <2>2. CASE UNCHANGED dns
    BY <1>3, <2>2
  <2>3. CASE ~errs /\ fresh /\ dns' = NoDNS(dns.uid)
    <3>1. pc = "release" /\ pc \in DeleteSteps /\ pc \in {"deleteDaemonset", "release"}
      BY <1>5 DEF RemoveFinalizer, DeleteSteps
    <3>2. cur.deleting /\ ~obj["externalName"].have /\ ~obj["daemonset"].have
      BY Zenon, <2>3, <3>1 DEF IInv, RouteInv, TornDownInv
    <3> QED
      BY <1>2, <1>4, <2>3, <3>2 DEF Installed, TornDown
  <2> QED
    BY <2>1, <2>2, <2>3
<1>6. CASE EnforceDNSFinalizer
  <2>1. UNCHANGED dns \/ (~cur.fin /\ fresh /\ dns' = [cur EXCEPT !.fin = TRUE])
    BY Zenon, <1>6 DEF EnforceDNSFinalizer
  <2>2. CASE UNCHANGED dns
    BY <1>3, <2>2
  <2>3. CASE ~cur.fin /\ fresh /\ dns' = [cur EXCEPT !.fin = TRUE]
    <3>1. /\ dns.exists /\ ~dns.fin /\ ~dns.deleting
          /\ dns'.exists /\ dns'.fin /\ ~dns'.deleting /\ dns'.uid = dns.uid
      BY <1>2, <2>3 DEF LifeInv, DNS
    <3> QED
      BY <1>1, <3>1 DEF LifeInv, Phase, Lifecycle!Hold
  <2> QED
    BY <2>1, <2>2, <2>3
<1>7. CASE SyncDNSStatus
  <2>1. UNCHANGED dns \/ \E ip \in {"ip", "noip"} : dns' = [dns EXCEPT !.ip = ip]
    BY <1>7 DEF SyncDNSStatus, PublishStatus
  <2> QED
    BY <1>2, <1>3, <2>1 DEF DNS
<1>8. CASE EditDNS
  <2>1. CASE \/ \E s \in Specs : dns' = [dns EXCEPT !.spec = s]
             \/ \E m \in MgmtStates : dns' = [dns EXCEPT !.mgmt = m]
    BY <1>2, <1>3, <2>1 DEF DNS
  <2>2. CASE dns.fin /\ dns' = [dns EXCEPT !.deleting = TRUE]
    <3>1. /\ dns.exists /\ dns'.exists /\ dns'.fin /\ dns'.deleting
          /\ dns'.uid = dns.uid
      BY <1>2, <1>8, <2>2 DEF EditDNS, DNS
    <3>2. LifeInv'
      BY <1>1, <3>1 DEF LifeInv
    <3>3. CASE dns.deleting
      BY <1>1, <2>2, <3>1, <3>2, <3>3 DEF Phase
    <3>4. CASE ~dns.deleting
      BY <1>1, <2>2, <3>1, <3>2, <3>4 DEF Phase, Lifecycle!Delete
    <3> QED
      BY <3>3, <3>4
  <2>3. CASE ~dns.fin /\ dns' = NoDNS(dns.uid)
    BY <1>4, <1>8, <2>3 DEF EditDNS, LifeInv
  <2> QED
    BY <1>8, <2>1, <2>2, <2>3 DEF EditDNS
<1>9. ASSUME NEW s, NEW m, NewDNS(s, m)
      PROVE  LifeStep
  <2>1. /\ ~dns.exists /\ dns'.exists /\ ~dns'.fin /\ ~dns'.deleting
        /\ dns'.uid = dns.uid + 1
    BY <1>9 DEF NewDNS, NoDNS
  <2>2. Installed = {}
    BY <2>1 DEF LifeInv
  <2>3. LifeInv'
    BY <1>1, <2>1, <2>2 DEF LifeInv, Installed, TornDown
  <2> QED
    BY <1>1, <2>1, <2>3 DEF Phase, Lifecycle!Create
<1>10. CASE CreateDefaultDNS \/ \E s \in Specs, m \in MgmtStates : CreateDNS(s, m)
  BY Zenon, <1>3, <1>9, <1>10 DEF CreateDefaultDNS, CreateDNS
<1> QED
  BY <1>5, <1>6, <1>7, <1>8, <1>10

\* Every step is a step of DNSLifecycle, or none.
LEMMA NextLife == IInv /\ LifeInv /\ [Next]_vars => LifeStep
<1> SUFFICES ASSUME IInv, LifeInv, [Next]_vars PROVE LifeStep
  OBVIOUS
<1>1. OperandsStep
  BY NextOperands DEF IInv
<1> QED
  BY <1>1, OthersKeepDNS, OperandsLife, DNSLife

\* It begins where DNSLifecycle begins.
LEMMA InitLife == Init => LifeInv /\ Lifecycle!Init
<1> SUFFICES ASSUME Init PROVE LifeInv /\ Lifecycle!Init
  OBVIOUS
<1>1. ~dns.exists /\ dns.uid = 0 /\ \A k \in TornDown : ~obj[k].have
  BY OperandKinds DEF Init, NoDNS, Absent
<1> QED
  BY <1>1 DEF LifeInv, Installed, TornDown, Phase, Lifecycle!Init

\* The invariant of the lifecycle.
LEMMA LifeAlways == Spec => []LifeInv
BY InitLife, Inductive, NextLife, PTL DEF Spec, LifeStep

\* The controller implements DNSLifecycle: whatever interleaving of passes,
\* edits, deletions, failing calls and restarts, it installs only for a DNS
\* that carries its finalizer, and removes that only from a deleted DNS for
\* which nothing is installed.
THEOREM LifecycleImplemented == Spec => ImplementsLifecycle
BY InitLife, Inductive, LifeAlways, NextLife, PTL
   DEF Spec, LifeStep, ImplementsLifecycle, Lifecycle!Spec

\* The daemonset's owner is always the DNS there is, held by the finalizer:
\* ensureDNSDaemonSet need not renew the owner reference of what it finds.
THEOREM DaemonSetKept == Spec => []DaemonSetNeverGarbage
<1>1. IInv /\ LifeInv => DaemonSetNeverGarbage
  BY DEF LifeInv, DaemonSetNeverGarbage, OwnerGone, Installed, TornDown
<1> QED
  BY <1>1, Inductive, LifeAlways, PTL
=============================================================================
