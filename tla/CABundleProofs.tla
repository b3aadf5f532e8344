--------------------------- MODULE CABundleProofs ---------------------------
(***************************************************************************)
(* Proofs about CA bundles, for every number of bundles, every set of      *)
(* specs and every bound on edits and failures.                            *)
(*                                                                         *)
(* That the operator rests only with its daemonset and Corefile in         *)
(* agreement depends on what a pass that is under way knows: the map of    *)
(* revisions that it has read and the daemonset that it has written are    *)
(* out of date only if an event that will start another pass is on its     *)
(* way, has arrived, or the pass itself will fail.  Inv says so.           *)
(***************************************************************************)
EXTENDS CABundle, TLAPS

\* The mount is that of the copy as it is.
Current(p) == Have(p.bundle) /\ copy[p.bundle].rev = p.rev

\* Another pass will look at the bundle.
Pending(b) == b \in behind \/ queued

Shape ==
    /\ dns \in Specs
    /\ queued \in BOOLEAN
    /\ edits \in Nat
    /\ copy = [b \in Bundles |-> copy[b]]
    /\ pass # Idle =>
          /\ pass = [pc |-> pass.pc, dns |-> pass.dns, left |-> pass.left,
                     revs |-> pass.revs, failed |-> pass.failed]
          /\ pass.pc \in {"bundles", "revisions", "daemonset", "corefile"}
          /\ pass.dns \in Specs
          /\ pass.failed \in BOOLEAN

\* What the pass has read of the copies.
RevisionsRead ==
    pass # Idle /\ pass.pc \in {"daemonset", "corefile"} =>
        \A b \in DOMAIN pass.revs :
            /\ b \in Bundles
            /\ (Have(b) /\ copy[b].rev = pass.revs[b]) \/ Pending(b)

\* The daemonset, before a pass and once the pass has written it.
VolumesKnown ==
    /\ \A p \in Paths(daemonset) : p.bundle \in Bundles
    /\ pass = Idle \/ pass.pc = "corefile" =>
          \A p \in Paths(daemonset) : Current(p) \/ Pending(p.bundle)
    /\ pass # Idle /\ pass.pc = "corefile" =>
          daemonset = DesiredVolumes(pass.dns, pass.revs)

FilesKnown ==
    pass = Idle /\ ~queued => Paths(corefile.files) \subseteq Paths(daemonset)

Inv == Shape /\ RevisionsRead /\ VolumesKnown /\ FilesKnown

-----------------------------------------------------------------------------
\* A running pass is not the idle one: it has more fields than pc.
LEMMA IdlePc == Idle.pc = "idle"
  BY DEF Idle

\* The bundle files of the Corefile are among the mounts of the daemonset if
\* both are made from one spec and one map of revisions (corefileTemplate and
\* caBundleCMVolAndVolMount).
LEMMA FilesAreVolumes ==
    ASSUME NEW d, NEW revs
    PROVE  Paths(BundleFiles(d, revs)) \subseteq Paths(DesiredVolumes(d, revs))
<1> DEFINE files == BundleFiles(d, revs)
           volumes == DesiredVolumes(d, revs)
<1>1. SUFFICES ASSUME NEW i \in DOMAIN files
               PROVE  i \in DOMAIN volumes /\ files[i] = volumes[i]
  BY DEF Paths
<1>2. /\ i \in DOMAIN Uses(d)
      /\ SanitizedName(Uses(d)[i]) # ""
      /\ Uses(d)[i].bundle \in DOMAIN revs
  BY Zenon DEF BundleFiles
<1>3. SanitizedName(Uses(d)[i]) = Uses(d)[i].serverName
  BY Zenon, <1>2 DEF SanitizedName
<1>4. i \in DOMAIN volumes
  BY Zenon, <1>2 DEF DesiredVolumes
<1>5. files[i] = Path(Uses(d)[i].serverName, Uses(d)[i].bundle, revs)
  BY Zenon, <1>2, <1>3 DEF BundleFiles
<1>6. volumes[i] = Path(Uses(d)[i].serverName, Uses(d)[i].bundle, revs)
  BY Zenon, <1>2 DEF DesiredVolumes
<1> QED
  BY <1>4, <1>5, <1>6

\* A volume of the desired daemonset is that of a bundle in the map, at the
\* revision in the map.
LEMMA VolumesOfMap ==
    ASSUME NEW d, NEW revs, NEW p \in Paths(DesiredVolumes(d, revs))
    PROVE  p.bundle \in DOMAIN revs /\ p.rev = revs[p.bundle]
<1>1. PICK i \in DOMAIN DesiredVolumes(d, revs) : p = DesiredVolumes(d, revs)[i]
  BY DEF Paths
<1>2. i \in DOMAIN Uses(d) /\ Uses(d)[i].bundle \in DOMAIN revs
  BY DEF DesiredVolumes
<1>3. p = Path(Uses(d)[i].serverName, Uses(d)[i].bundle, revs)
  BY <1>1, <1>2 DEF DesiredVolumes
<1> QED
  BY <1>2, <1>3 DEF Path

\* Writing a copy leaves the others as they are, and announces itself.
LEMMA PutAnnounced ==
    ASSUME Shape, NEW b, NEW data, Put(b, data)
    PROVE  /\ copy' = [c \in Bundles |-> copy'[c]]
           /\ behind \subseteq behind'
           /\ \A c \in Bundles : c \in behind' \/ copy'[c] = copy[c]
  BY DEF Shape, Put

\* So does removing copies.
LEMMA RemoveAnnounced ==
    ASSUME Shape, NEW gone, Remove(gone)
    PROVE  /\ copy' = [c \in Bundles |-> copy'[c]]
           /\ behind \subseteq behind'
           /\ \A c \in Bundles : c \in behind' \/ copy'[c] = copy[c]
  BY DEF Shape, Remove, Have

\* A revision stays known while every change of a copy is announced and no
\* announcement is lost without a request.
LEMMA KnownKept ==
    ASSUME \A c \in Bundles : c \in behind' \/ copy'[c] = copy[c],
           \A c \in Bundles : c \in behind => c \in behind' \/ queued',
           queued => queued',
           NEW b \in Bundles, NEW r,
           (Have(b) /\ copy[b].rev = r) \/ Pending(b)
    PROVE  (Have(b)' /\ copy'[b].rev = r) \/ Pending(b)'
  BY DEF Have, Pending

\* The parts of Inv about what is known survive a step that leaves the pass
\* and the operands alone.
LEMMA OutsideStep ==
    ASSUME Inv,
           UNCHANGED <<pass, operand>>,
           \A c \in Bundles : c \in behind' \/ copy'[c] = copy[c],
           \A c \in Bundles : c \in behind => c \in behind' \/ queued',
           queued => queued'
    PROVE  RevisionsRead' /\ VolumesKnown' /\ FilesKnown'
<1>1. RevisionsRead'
  <2>1. SUFFICES ASSUME pass # Idle, pass.pc \in {"daemonset", "corefile"},
                        NEW b \in DOMAIN pass.revs
                 PROVE  /\ b \in Bundles
                        /\ (Have(b)' /\ copy'[b].rev = pass.revs[b]) \/ Pending(b)'
    BY DEF RevisionsRead, Idle
  <2>2. b \in Bundles /\ ((Have(b) /\ copy[b].rev = pass.revs[b]) \/ Pending(b))
    BY <2>1 DEF Inv, RevisionsRead
  <2> QED
    BY <2>2, KnownKept
<1>2. VolumesKnown'
  <2>1. \A p \in Paths(daemonset)' : p.bundle \in Bundles
    BY DEF Inv, VolumesKnown, operand, Paths
  <2>2. ASSUME pass = Idle \/ pass.pc = "corefile", NEW p \in Paths(daemonset)
        PROVE  Current(p)' \/ Pending(p.bundle)'
    <3>1. p.bundle \in Bundles /\ (Current(p) \/ Pending(p.bundle))
      BY <2>2 DEF Inv, VolumesKnown
    <3> QED
      BY <3>1, KnownKept DEF Current
  <2>3. (pass # Idle /\ pass.pc = "corefile" =>
            daemonset = DesiredVolumes(pass.dns, pass.revs))'
    BY DEF Inv, VolumesKnown, operand, Idle
  <2>4. (pass = Idle \/ pass.pc = "corefile" =>
            \A p \in Paths(daemonset) : Current(p) \/ Pending(p.bundle))'
    BY <2>2 DEF operand, Idle, Paths
  <2> QED
    BY <2>1, <2>3, <2>4 DEF VolumesKnown
<1>3. FilesKnown'
  BY DEF Inv, FilesKnown, operand, Idle, Paths, Shape
<1> QED
  BY <1>1, <1>2, <1>3

-----------------------------------------------------------------------------
\* The invariant holds when the operator starts.
LEMMA InitInv == Init => Inv
<1> SUFFICES ASSUME Init PROVE Inv
  OBVIOUS
<1> USE DEF Init
<1>1. Shape
  BY DEF Shape, Plain
<1>2. Paths(daemonset) = {}
  BY DEF Paths
<1>3. RevisionsRead /\ VolumesKnown /\ FilesKnown
  BY <1>2, IdlePc DEF RevisionsRead, VolumesKnown, FilesKnown
<1> QED
  BY <1>1, <1>3 DEF Inv

\* A step of others, of the cache or of the clock: the worker and what it has
\* written are left alone.
LEMMA OthersStep ==
    ASSUME Inv,
           \/ \E d \in Specs : EditDNS(d)
           \/ \E b \in Bundles, data \in Data \cup {Absent} :
                 EditSource(b, data) \/ EditCopy(b, data)
           \/ \E b \in Bundles : SeeCopy(b)
           \/ Resync
    PROVE  Inv'
<1> USE DEF Inv
<1>1. CASE \E d \in Specs : EditDNS(d)
  <2>1. PICK d \in Specs : EditDNS(d)
    BY <1>1
  <2>2. Shape'
    BY <2>1 DEF Shape, EditDNS, Edit
  <2>3. RevisionsRead' /\ VolumesKnown' /\ FilesKnown'
    BY <2>1, OutsideStep DEF EditDNS
  <2> QED
    BY <2>2, <2>3
<1>2. CASE \E b \in Bundles, data \in Data \cup {Absent} : EditSource(b, data)
  <2>1. PICK b \in Bundles, data \in Data \cup {Absent} : EditSource(b, data)
    BY <1>2
  <2>2. Shape'
    BY <2>1 DEF Shape, EditSource, Edit
  <2>3. RevisionsRead' /\ VolumesKnown' /\ FilesKnown'
    BY <2>1, OutsideStep DEF EditSource
  <2> QED
    BY <2>2, <2>3
<1>3. CASE \E b \in Bundles, data \in Data \cup {Absent} : EditCopy(b, data)
  <2>1. PICK b \in Bundles, data \in Data \cup {Absent} : EditCopy(b, data)
    BY <1>3
  <2>2. /\ copy' = [c \in Bundles |-> copy'[c]]
        /\ behind \subseteq behind'
        /\ \A c \in Bundles : c \in behind' \/ copy'[c] = copy[c]
    <3>1. CASE data = Absent
      BY <2>1, <3>1, RemoveAnnounced DEF EditCopy
    <3>2. CASE data # Absent
      BY <2>1, <3>2, PutAnnounced DEF EditCopy
    <3> QED
      BY <3>1, <3>2
  <2>3. Shape'
    BY <2>1, <2>2 DEF Shape, EditCopy, Edit
  <2>4. RevisionsRead' /\ VolumesKnown' /\ FilesKnown'
    BY <2>1, <2>2, OutsideStep DEF EditCopy
  <2> QED
    BY <2>3, <2>4
<1>4. CASE \E b \in Bundles : SeeCopy(b)
  <2>1. PICK b \in Bundles : SeeCopy(b)
    BY <1>4
  <2>2. Shape'
    BY <2>1 DEF Shape, SeeCopy, cluster
  <2>3. RevisionsRead' /\ VolumesKnown' /\ FilesKnown'
    BY <2>1, OutsideStep DEF SeeCopy, cluster
  <2> QED
    BY <2>2, <2>3
<1>5. CASE Resync
  <2>1. Shape'
    BY <1>5 DEF Shape, Resync, cluster
  <2>2. RevisionsRead' /\ VolumesKnown' /\ FilesKnown'
    BY <1>5, OutsideStep DEF Resync, cluster
  <2> QED
    BY <2>1, <2>2
<1> QED
  BY <1>1, <1>2, <1>3, <1>4, <1>5

\* A pass that has not read the revisions knows nothing yet.
LEMMA BeforeRevisions ==
    ASSUME Inv, Shape', pass' # Idle, pass'.pc \in {"bundles", "revisions"},
           daemonset' = daemonset
    PROVE  Inv'
  BY DEF Inv, RevisionsRead, VolumesKnown, FilesKnown, Idle, Paths

\* A pass that returns with an error leaves a request, and with it all that
\* Inv asks of an idle operator.
LEMMA ReturnWithRequest ==
    ASSUME Inv, Shape', pass' = Idle, queued',
           \A p \in Paths(daemonset)' : p.bundle \in Bundles
    PROVE  Inv'
  BY DEF Inv, RevisionsRead, VolumesKnown, FilesKnown, Pending, Paths

\* The steps of a pass up to the removal of copies, and a restart.
LEMMA EarlyStep ==
    ASSUME Inv,
           \/ Start \/ EnsureCABundle \/ EnsureCABundleFails
           \/ RemoveUnreferred \/ Restart
    PROVE  Inv'
<1> USE DEF Inv
<1>1. CASE Start
  <2>1. /\ pass' = [pc |-> "bundles", dns |-> dns, left |-> ConfigmapNames(dns),
                     revs |-> <<>>, failed |-> FALSE]
        /\ UNCHANGED <<dns, copy, edits>> /\ queued' = FALSE
    BY <1>1 DEF Start, cluster
  <2>2. pass'.pc = "bundles" /\ pass' # Idle
    BY <2>1, IdlePc
  <2>3. pass'.failed = FALSE
    BY <2>1
  <2>4. /\ pass' = [pc |-> pass'.pc, dns |-> pass'.dns, left |-> pass'.left,
                     revs |-> pass'.revs, failed |-> pass'.failed]
        /\ pass'.dns = dns
    BY <2>1
  <2>5. Shape'
    BY Zenon, <2>1, <2>2, <2>3, <2>4 DEF Shape
  <2> QED
    BY <1>1, <2>2, <2>5, BeforeRevisions DEF Start, operand
<1>2. CASE EnsureCABundle
  <2>1. pass # Idle
    BY <1>2, IdlePc DEF EnsureCABundle
  <2>2. copy' = [c \in Bundles |-> copy'[c]]
    <3>1. CASE UNCHANGED <<copy, behind>>
      BY <3>1 DEF Shape
    <3>2. CASE Put(Head(pass.left), source[Head(pass.left)])
      BY <3>2, PutAnnounced
    <3> QED
      BY <1>2, <3>1, <3>2 DEF EnsureCABundle, SyncCABundle
  <2>3. Shape' /\ pass' # Idle /\ pass'.pc = "bundles"
    BY Zenon, <1>2, <2>1, <2>2, IdlePc DEF Shape, EnsureCABundle, Following
  <2> QED
    BY <1>2, <2>3, BeforeRevisions DEF EnsureCABundle, operand
<1>3. CASE EnsureCABundleFails
  <2>1. pass # Idle
    BY <1>3, IdlePc DEF EnsureCABundleFails
  <2>2. copy' = [c \in Bundles |-> copy'[c]]
    <3>1. CASE UNCHANGED <<copy, behind>>
      BY <3>1 DEF Shape
    <3>2. CASE Put(Head(pass.left), source[Head(pass.left)])
      BY <3>2, PutAnnounced
    <3> QED
      BY <1>3, <3>1, <3>2 DEF EnsureCABundleFails, SyncCABundle
  <2>3. Shape' /\ pass' # Idle /\ pass'.pc = "bundles"
    BY Zenon, <1>3, <2>1, <2>2, IdlePc
       DEF Shape, EnsureCABundleFails, AfterFailure, Following
  <2> QED
    BY <1>3, <2>3, BeforeRevisions DEF EnsureCABundleFails, operand
<1>4. CASE RemoveUnreferred
  <2>1. pass # Idle
    BY Zenon, <1>4, IdlePc DEF RemoveUnreferred
  <2>2. PICK gone, failing :
            /\ Remove(gone)
            /\ pass' = [pass EXCEPT !.pc = "revisions", !.failed = @ \/ failing]
    BY Zenon, <1>4 DEF RemoveUnreferred
  <2>3. copy' = [c \in Bundles |-> copy'[c]]
    BY <2>2, RemoveAnnounced
  <2>4. Shape' /\ pass' # Idle /\ pass'.pc = "revisions"
    BY Zenon, <1>4, <2>1, <2>2, <2>3, IdlePc DEF Shape, RemoveUnreferred
  <2> QED
    BY Zenon, <1>4, <2>4, BeforeRevisions DEF RemoveUnreferred, operand
<1>5. CASE Restart
  <2>1. Shape'
    BY <1>5 DEF Shape, Restart, cluster
  <2> QED
    BY <1>5, <2>1, ReturnWithRequest DEF Restart, operand, VolumesKnown, Paths
<1> QED
  BY <1>1, <1>2, <1>3, <1>4, <1>5

\* The map of revisions is read: what it holds is what the copies are.
LEMMA RevisionStep ==
    ASSUME Inv, CABundleRevisionMap
    PROVE  Inv'
<1> USE DEF Inv
<1>1. pass # Idle
  BY IdlePc DEF CABundleRevisionMap
<1>2. PICK read \in SUBSET Referred(pass.dns) :
          /\ \A b \in read : Have(b)
          /\ pass' = [pass EXCEPT !.pc = "daemonset",
                                  !.revs = [b \in read |-> copy[b].rev]]
  <2>1. PICK unread \in SUBSET Referred(pass.dns) :
            pass' = [pass EXCEPT !.pc = "daemonset", !.revs =
                        [b \in {n \in Referred(pass.dns) \ unread : Have(n)} |->
                            copy[b].rev]]
    BY ZenonT(40) DEF CABundleRevisionMap
  <2> WITNESS {n \in Referred(pass.dns) \ unread : Have(n)}
                  \in SUBSET Referred(pass.dns)
  <2> QED
    BY <2>1
<1>3. /\ pass' # Idle /\ pass'.pc = "daemonset"
      /\ pass'.revs = [b \in read |-> copy[b].rev]
  BY Zenon, <1>1, <1>2, IdlePc DEF Shape
<1>4. Shape'
  BY Zenon, <1>1, <1>2, <1>3 DEF Shape, CABundleRevisionMap, cluster
<1>5. read \subseteq Bundles
  BY Zenon, <1>1, <1>2, BundleAssumption DEF Shape
<1>6. UNCHANGED <<copy, behind, queued, daemonset>>
  BY DEF CABundleRevisionMap, cluster, operand
<1>7. RevisionsRead'
  BY <1>2, <1>3, <1>5, <1>6 DEF RevisionsRead, Have
<1>8. VolumesKnown' /\ FilesKnown'
  BY <1>3, <1>6 DEF VolumesKnown, FilesKnown, Paths
<1> QED
  BY <1>4, <1>7, <1>8

\* The daemonset is written from the map, or the pass returns with an error.
LEMMA DaemonSetStep ==
    ASSUME Inv, EnsureDNSDaemonSet \/ EnsureDNSDaemonSetFails
    PROVE  Inv'
<1> USE DEF Inv
<1>1. CASE EnsureDNSDaemonSet
  <2>1. /\ pass # Idle /\ pass.pc = "daemonset"
        /\ pass' = [pass EXCEPT !.pc = "corefile"]
        /\ daemonset' = DesiredVolumes(pass.dns, pass.revs)
        /\ UNCHANGED <<copy, behind>> /\ (queued => queued')
    BY Zenon, <1>1, IdlePc DEF EnsureDNSDaemonSet, cluster
  <2>2. Shape'
    BY <1>1, <2>1 DEF Shape, EnsureDNSDaemonSet, cluster
  <2>3. /\ pass' # Idle /\ pass'.pc = "corefile"
        /\ pass'.dns = pass.dns /\ pass'.revs = pass.revs
    BY <2>1, IdlePc DEF Shape
  <2>4. \A b \in DOMAIN pass.revs :
            /\ b \in Bundles
            /\ (Have(b)' /\ copy'[b].rev = pass.revs[b]) \/ Pending(b)'
    BY Zenon, <2>1, KnownKept DEF RevisionsRead
  <2>5. RevisionsRead'
    BY <2>3, <2>4 DEF RevisionsRead
  <2>6. \A p \in Paths(daemonset)' :
            p.bundle \in Bundles /\ (Current(p)' \/ Pending(p.bundle)')
    <3>1. SUFFICES ASSUME NEW p \in Paths(DesiredVolumes(pass.dns, pass.revs))
                   PROVE  p.bundle \in Bundles /\ (Current(p)' \/ Pending(p.bundle)')
      BY <2>1 DEF Paths
    <3>2. p.bundle \in DOMAIN pass.revs /\ p.rev = pass.revs[p.bundle]
      BY VolumesOfMap
    <3> QED
      BY <2>4, <3>2 DEF Current
  <2>7. VolumesKnown'
    BY <2>1, <2>3, <2>6 DEF VolumesKnown
  <2>8. FilesKnown'
    BY <2>3 DEF FilesKnown
  <2> QED
    BY <2>2, <2>5, <2>7, <2>8
<1>2. CASE EnsureDNSDaemonSetFails
  <2>1. Shape'
    BY <1>2 DEF Shape, EnsureDNSDaemonSetFails, Return, cluster
  <2>2. pass # Idle /\ pass.pc = "daemonset" /\ pass' = Idle /\ queued'
    BY Zenon, <1>2, IdlePc DEF EnsureDNSDaemonSetFails, Return
  <2>3. \A p \in Paths(DesiredVolumes(pass.dns, pass.revs)) : p.bundle \in Bundles
    BY <2>2, VolumesOfMap DEF RevisionsRead
  <2>4. daemonset' \in {daemonset, DesiredVolumes(pass.dns, pass.revs)}
    BY <1>2 DEF EnsureDNSDaemonSetFails
  <2>5. \A p \in Paths(daemonset)' : p.bundle \in Bundles
    BY <2>3, <2>4 DEF VolumesKnown, Paths
  <2> QED
    BY <2>1, <2>2, <2>5, ReturnWithRequest
<1> QED
  BY <1>1, <1>2

\* The Corefile is written from the map that the daemonset was written from,
\* or the pass returns with an error.
LEMMA ConfigMapStep ==
    ASSUME Inv, EnsureDNSConfigMap \/ EnsureDNSConfigMapFails
    PROVE  Inv'
<1> USE DEF Inv
<1>1. CASE EnsureDNSConfigMap
  <2>1. /\ pass # Idle /\ pass.pc = "corefile" /\ pass' = Idle
        /\ corefile' = DesiredDNSConfigMap(pass.dns, pass.revs)
        /\ UNCHANGED <<copy, behind, daemonset>> /\ (queued => queued')
    BY Zenon, <1>1, IdlePc DEF EnsureDNSConfigMap, Return, cluster
  <2>2. Shape'
    BY <1>1, <2>1 DEF Shape, EnsureDNSConfigMap, Return, cluster
  <2>3. VolumesKnown'
    <3>1. \A p \in Paths(daemonset) :
              p.bundle \in Bundles /\ (Current(p) \/ Pending(p.bundle))
      BY <2>1 DEF VolumesKnown
    <3>2. \A p \in Paths(daemonset) :
              p.bundle \in Bundles /\ (Current(p)' \/ Pending(p.bundle)')
      BY <2>1, <3>1, KnownKept DEF Current
    <3> QED
      BY <2>1, <3>2, IdlePc DEF VolumesKnown, Paths
  <2>4. FilesKnown'
    <3>1. corefile'.files = BundleFiles(pass.dns, pass.revs)
      BY <2>1 DEF DesiredDNSConfigMap
    <3>2. daemonset = DesiredVolumes(pass.dns, pass.revs)
      BY <2>1 DEF VolumesKnown
    <3>3. Paths(BundleFiles(pass.dns, pass.revs)) \subseteq Paths(daemonset)
      BY <3>2, FilesAreVolumes
    <3>4. Paths(corefile'.files) \subseteq Paths(daemonset')
      BY <2>1, <3>1, <3>3
    <3> QED
      BY <3>4 DEF FilesKnown, Paths
  <2>5. RevisionsRead'
    BY <2>1 DEF RevisionsRead
  <2> QED
    BY <2>2, <2>3, <2>4, <2>5
<1>2. CASE EnsureDNSConfigMapFails
  <2>1. Shape'
    BY <1>2 DEF Shape, EnsureDNSConfigMapFails, Return, cluster
  <2> QED
    BY Zenon, <1>2, <2>1, ReturnWithRequest
       DEF EnsureDNSConfigMapFails, Return, VolumesKnown, Paths
<1> QED
  BY <1>1, <1>2

\* A step that changes nothing keeps the invariant.
LEMMA Stutter == Inv /\ UNCHANGED vars => Inv'
<1> SUFFICES ASSUME Inv, UNCHANGED vars PROVE Inv'
  OBVIOUS
<1>1. UNCHANGED <<dns, copy, behind, daemonset, corefile, queued, pass, edits>>
  BY DEF vars, cluster, operand
<1>2. Shape'
  BY <1>1 DEF Inv, Shape
<1>3. RevisionsRead' /\ VolumesKnown' /\ FilesKnown'
  BY <1>1, OutsideStep DEF operand
<1> QED
  BY <1>2, <1>3 DEF Inv

\* Every step keeps the invariant.
LEMMA StepInv == Inv /\ [Next]_vars => Inv'
  BY OthersStep, EarlyStep, RevisionStep, DaemonSetStep, ConfigMapStep, Stutter
     DEF Next, Work

\* The invariant is one.
LEMMA InvAlways == Spec => []Inv
  BY InitInv, StepInv, PTL DEF Spec

-----------------------------------------------------------------------------
\* At rest CoreDNS finds every bundle file that its Corefile names, and every
\* bundle volume has its configmap at the mounted version, whatever calls of
\* ensureDNS have failed and whatever others have done in between.
THEOREM RestIsMounted == Spec => []AtRestMounted
<1>1. Inv => AtRestMounted
  BY DEF Inv, FilesKnown, VolumesKnown, AtRestMounted, Rest, Current, Pending
<1> QED
  BY <1>1, InvAlways, PTL

\* ensureDNSConfigMap never writes a Corefile that names a file which the
\* daemonset does not mount.
THEOREM WrittenFilesMounted == Spec => FilesMountedWhenWritten
<1>1. Inv /\ [Next]_vars =>
          [corefile' # corefile =>
              Paths(corefile'.files) \subseteq Paths(daemonset)]_vars
  <2>1. SUFFICES ASSUME Inv, [Next]_vars, corefile' # corefile
                 PROVE  Paths(corefile'.files) \subseteq Paths(daemonset)
    OBVIOUS
  <2>2. EnsureDNSConfigMap \/ EnsureDNSConfigMapFails
    BY Zenon, <2>1 DEF Next, Work, Start, EnsureCABundle, EnsureCABundleFails,
                RemoveUnreferred, CABundleRevisionMap, EnsureDNSDaemonSet,
                EnsureDNSDaemonSetFails, EditDNS,
                EditSource, EditCopy, SeeCopy, Resync, Restart, operand, vars
  <2>3. pass # Idle /\ pass.pc = "corefile"
    BY Zenon, <2>2, IdlePc DEF EnsureDNSConfigMap, EnsureDNSConfigMapFails
  <2>4. corefile'.files = BundleFiles(pass.dns, pass.revs)
    <3>1. corefile' = DesiredDNSConfigMap(pass.dns, pass.revs)
      BY Zenon, <2>1, <2>2 DEF EnsureDNSConfigMap, EnsureDNSConfigMapFails
    <3> QED
      BY <3>1 DEF DesiredDNSConfigMap
  <2>5. daemonset = DesiredVolumes(pass.dns, pass.revs)
    BY <2>1, <2>3 DEF Inv, VolumesKnown
  <2> QED
    BY <2>4, <2>5, FilesAreVolumes
<1> QED
  BY <1>1, InvAlways, PTL DEF Spec, FilesMountedWhenWritten

\* ensureCABundleConfigMaps never deletes the copy of a bundle that the DNS of
\* its pass uses.
THEOREM ReferredAreKept == Spec => ReferredKept
<1> DEFINE Kept == \A b \in Bundles : Have(b) /\ ~Have(b)' /\ edits' = edits =>
                      pass # Idle /\ b \notin Referred(pass.dns)
<1>1. Inv /\ [Next]_vars => [Kept]_vars
  <2>1. SUFFICES ASSUME Inv, Next, NEW b \in Bundles,
                        Have(b), ~Have(b)', edits' = edits
                 PROVE  pass # Idle /\ b \notin Referred(pass.dns)
    OBVIOUS
  <2>2. copy' # copy
    BY <2>1 DEF Have
  <2>3. edits' # edits + 1
    BY <2>1 DEF Inv, Shape
  <2>4. EnsureCABundle \/ EnsureCABundleFails \/ RemoveUnreferred
    BY Zenon, <2>1, <2>2, <2>3
       DEF Next, Work, Start, CABundleRevisionMap,
           EnsureDNSDaemonSet, EnsureDNSDaemonSetFails, EnsureDNSConfigMap,
           EnsureDNSConfigMapFails, EditDNS, EditSource, EditCopy, Edit,
           SeeCopy, Resync, Restart, cluster
  <2>5. CASE EnsureCABundle \/ EnsureCABundleFails
    <3>1. PICK c : source[c] # Absent /\ Put(c, source[c])
      BY <2>2, <2>5 DEF EnsureCABundle, EnsureCABundleFails, SyncCABundle
    <3>2. copy'[b] = copy[b] \/ copy'[b].data # Absent
      BY <2>1, <3>1 DEF Put, Inv, Shape
    <3> QED
      BY <2>1, <3>2 DEF Have
  <2>6. CASE RemoveUnreferred
    <3>1. PICK gone \in SUBSET (cached \ Referred(pass.dns)) : Remove(gone)
      BY Zenon, <2>6 DEF RemoveUnreferred
    <3>2. b \in cached \ Referred(pass.dns)
      BY <2>1, <3>1 DEF Remove, Have
    <3> QED
      BY <2>6, <3>2, IdlePc DEF RemoveUnreferred
  <2> QED
    BY <2>4, <2>5, <2>6
<1> QED
  BY <1>1, InvAlways, PTL DEF Spec, ReferredKept
=============================================================================
