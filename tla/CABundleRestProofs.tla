------------------------- MODULE CABundleRestProofs -------------------------
(***************************************************************************)
(* Proofs about the types of CABundle and about what the operator leaves   *)
(* behind when it rests: the copies of the bundles and the Corefile.       *)
(***************************************************************************)
EXTENDS CABundleProofs, CorefileProofs

\* A copy that exists has been written.
Written == \A b \in Bundles : Have(b) => copy[b].rev >= 1

CopiesTyped ==
    /\ copy \in [Bundles -> [data : Data \cup {Absent}, rev : Nat]]
    /\ behind \in SUBSET Bundles
    /\ Written

PassTyped ==
    pass # Idle =>
        /\ pass.pc \in {"bundles", "revisions", "daemonset", "corefile"}
        /\ pass.dns \in Specs /\ pass.failed \in BOOLEAN
        /\ pass.left \in Seq(Referred(pass.dns))
        /\ DOMAIN pass.revs \subseteq Referred(pass.dns)
        /\ \A b \in DOMAIN pass.revs : pass.revs[b] \in 1 .. copy[b].rev

Typed ==
    /\ dns \in Specs
    /\ source \in [Bundles -> Data \cup {Absent}]
    /\ broken \in SUBSET Bundles
    /\ CopiesTyped
    /\ cached \in SUBSET Bundles
    /\ queued \in BOOLEAN
    /\ PassTyped
    /\ edits \in 0 .. MaxEdits /\ fails \in 0 .. MaxFails

\* The copies keep their types and no resource version goes back.
CopiesStep == CopiesTyped' /\ \A b \in Bundles : copy[b].rev <= copy'[b].rev

\* Writing a copy, and leaving the copies alone, does so.
LEMMA PutTyped ==
    ASSUME CopiesTyped, NEW b \in Bundles, NEW data \in Data, Put(b, data)
    PROVE  CopiesStep
<1>1. copy' \in [Bundles -> [data : Data \cup {Absent}, rev : Nat]]
  BY DEF CopiesTyped, Put
<1>2. \A c \in Bundles : copy[c].rev <= copy'[c].rev
  BY DEF CopiesTyped, Put
<1>3. Written'
  BY DEF CopiesTyped, Put, Written, Have
<1>4. behind' \in SUBSET Bundles
  BY DEF CopiesTyped, Put
<1> QED
  BY <1>1, <1>2, <1>3, <1>4 DEF CopiesStep, CopiesTyped

\* So does removing copies.
LEMMA RemoveTyped ==
    ASSUME CopiesTyped, NEW gone \in SUBSET Bundles, Remove(gone)
    PROVE  CopiesStep
<1>1. copy' \in [Bundles -> [data : Data \cup {Absent}, rev : Nat]]
  BY DEF CopiesTyped, Remove
<1>2. \A c \in Bundles : copy[c].rev <= copy'[c].rev
  BY DEF CopiesTyped, Remove
<1>3. Written'
  BY DEF CopiesTyped, Remove, Written, Have
<1>4. behind' \in SUBSET Bundles
  BY DEF CopiesTyped, Remove
<1> QED
  BY <1>1, <1>2, <1>3, <1>4 DEF CopiesStep, CopiesTyped

\* So does leaving them alone.
LEMMA KeepTyped ==
    ASSUME CopiesTyped, UNCHANGED <<copy, behind>>
    PROVE  CopiesStep
<1>1. CopiesTyped'
  BY DEF CopiesTyped, Written, Have
<1>2. \A c \in Bundles : copy[c].rev <= copy'[c].rev
  BY DEF CopiesTyped
<1> QED
  BY <1>1, <1>2 DEF CopiesStep

\* The revisions that a pass has read stay in their range while it goes on.
LEMMA PassKept ==
    ASSUME Typed, Shape', CopiesStep, pass # Idle,
           pass'.dns = pass.dns, pass'.revs = pass.revs,
           pass'.left \in Seq(Referred(pass.dns))
    PROVE  PassTyped'
<1>1. ASSUME NEW b \in DOMAIN pass.revs
      PROVE  b \in Referred(pass.dns) /\ pass.revs[b] \in 1 .. copy'[b].rev
  <2>1. /\ b \in Referred(pass.dns) /\ b \in Bundles
        /\ pass.revs[b] \in 1 .. copy[b].rev
    BY BundleAssumption DEF Typed, PassTyped
  <2>2. copy[b].rev \in Nat /\ copy'[b].rev \in Nat /\ copy[b].rev <= copy'[b].rev
    BY <2>1 DEF Typed, CopiesTyped, CopiesStep
  <2> QED
    BY <2>1, <2>2
<1>2. pass' # Idle =>
          /\ pass'.pc \in {"bundles", "revisions", "daemonset", "corefile"}
          /\ pass'.dns \in Specs /\ pass'.failed \in BOOLEAN
  BY DEF Shape, Idle
<1> QED
  BY <1>1, <1>2 DEF PassTyped, Idle

\* The count of failures stays in its bound.
LEMMA FailsTyped ==
    ASSUME Typed, UNCHANGED fails \/ Fail
    PROVE  fails' \in 0 .. MaxFails
<1>1. fails \in 0 .. MaxFails /\ MaxFails \in Nat
  BY BundleAssumption DEF Typed
<1> QED
  BY <1>1 DEF Fail

-----------------------------------------------------------------------------
\* The types hold when the operator starts.
LEMMA InitTyped == Init => Typed
<1> SUFFICES ASSUME Init PROVE Typed
  OBVIOUS
<1>1. copy = [b \in Bundles |-> [data |-> Absent, rev |-> 0]] /\ behind = {}
  BY DEF Init
<1>2. copy \in [Bundles -> [data : Data \cup {Absent}, rev : Nat]]
  BY <1>1
<1>3. CopiesTyped
  BY <1>1, <1>2 DEF CopiesTyped, Written, Have
<1>4. dns \in Specs /\ broken \in SUBSET Bundles /\ edits = 0 /\ fails = 0
  BY BundleAssumption DEF Init, Plain
<1>5. source \in [Bundles -> Data \cup {Absent}] /\ cached \in SUBSET Bundles
  BY DEF Init
<1>6. queued \in BOOLEAN /\ PassTyped
  BY Zenon DEF Init, PassTyped
<1>7. MaxEdits \in Nat /\ MaxFails \in Nat
  BY BundleAssumption
<1> QED
  BY <1>3, <1>4, <1>5, <1>6, <1>7 DEF Typed

\* Steps of others, of the cache and of the clock.
LEMMA OthersTyped ==
    ASSUME Typed, Shape',
           \/ \E s \in Specs : EditDNS(s)
           \/ \E b \in Bundles, data \in Data \cup {Absent} :
                 EditSource(b, data) \/ EditCopy(b, data)
           \/ \E b \in Bundles : SeeCopy(b)
           \/ Resync
           \/ UNCHANGED vars
    PROVE  Typed'
<1>0. CopiesTyped /\ edits \in 0 .. MaxEdits /\ MaxEdits \in Nat
  BY BundleAssumption DEF Typed
<1>1. /\ UNCHANGED <<broken, pass, fails>>
      /\ source' \in [Bundles -> Data \cup {Absent}]
      /\ cached' \in SUBSET Bundles
      /\ edits' \in 0 .. MaxEdits
  <2>1. CASE \E s \in Specs : EditDNS(s)
    BY <1>0, <2>1 DEF EditDNS, Edit, Typed
  <2>2. CASE \E b \in Bundles, data \in Data \cup {Absent} : EditSource(b, data)
    BY <1>0, <2>2 DEF EditSource, Edit, Typed
  <2>3. CASE \E b \in Bundles, data \in Data \cup {Absent} : EditCopy(b, data)
    BY <1>0, <2>3 DEF EditCopy, Edit, Typed
  <2>4. CASE \E b \in Bundles : SeeCopy(b)
    BY <1>0, <2>4 DEF SeeCopy, cluster, Typed
  <2>5. CASE Resync \/ UNCHANGED vars
    BY <1>0, <2>5 DEF Resync, vars, cluster, Typed
  <2> QED
    BY <2>1, <2>2, <2>3, <2>4, <2>5
<1>2. CopiesStep
  <2>1. CASE \E b \in Bundles, data \in Data \cup {Absent} : EditCopy(b, data)
    <3>1. PICK b \in Bundles, data \in Data \cup {Absent} : EditCopy(b, data)
      BY <2>1
    <3>2. CASE data = Absent
      BY <1>0, <3>1, <3>2, RemoveTyped DEF EditCopy
    <3>3. CASE data # Absent
      BY <1>0, <3>1, <3>3, PutTyped DEF EditCopy
    <3> QED
      BY <3>2, <3>3
  <2>2. CASE \E b \in Bundles : SeeCopy(b)
    <3>1. copy' = copy /\ behind' \in SUBSET Bundles
      BY <1>0, <2>2 DEF SeeCopy, cluster, CopiesTyped
    <3> QED
      BY <1>0, <3>1 DEF CopiesStep, CopiesTyped, Written, Have
  <2>3. CASE UNCHANGED <<copy, behind>>
    BY <1>0, <2>3, KeepTyped
  <2> QED
    BY <2>1, <2>2, <2>3 DEF EditDNS, EditSource, Resync, vars, cluster
<1>3. PassTyped'
  <2>1. CASE pass = Idle
    BY <1>1, <2>1 DEF PassTyped, Idle
  <2>2. CASE pass # Idle
    BY <1>1, <1>2, <2>2, PassKept DEF Typed, PassTyped
  <2> QED
    BY <2>1, <2>2
<1> QED
  BY <1>1, <1>2, <1>3 DEF Typed, CopiesStep, Shape

\* A pass that begins: its list holds just bundles that the DNS refers to.
LEMMA StartTyped ==
    ASSUME Typed, Shape', Start
    PROVE  Typed'
<1>1. /\ UNCHANGED <<dns, source, broken, copy, behind, cached, edits, fails>>
      /\ pass' = [pc |-> "bundles", dns |-> dns, left |-> ConfigmapNames(dns),
                  revs |-> <<>>, failed |-> FALSE]
  BY DEF Start, cluster
<1>2. CopiesStep
  BY <1>1, KeepTyped DEF Typed
<1>3. pass'.left \in Seq(Referred(dns))
  <2>1. dns.upstream \in TransportConfig /\ dns.servers \in Seq(TransportConfig)
    BY BundleAssumption DEF Typed
  <2>2. Uses(dns) \in Seq(TransportConfig)
    BY <2>1 DEF Uses
  <2> QED
    BY <1>1, <2>2, NamesAreReferred
<1>4. pass'.dns = dns /\ DOMAIN pass'.revs = {}
  BY <1>1
<1>5. PassTyped'
  BY <1>3, <1>4 DEF PassTyped, Shape, Idle
<1> QED
  BY <1>1, <1>2, <1>5 DEF Typed, CopiesStep, Shape

\* What is left of a sequence that is not empty.
LEMMA HeadAndTail ==
    ASSUME NEW S, NEW list \in Seq(S), list # <<>>
    PROVE  Head(list) \in S /\ Tail(list) \in Seq(S)
  OBVIOUS

\* The copies of one bundle and the rest of the list.
LEMMA BundleTyped ==
    ASSUME Typed, Shape, Shape', EnsureCABundle \/ EnsureCABundleFails
    PROVE  Typed'
<1>1. pass # Idle /\ pass.left \in Seq(Referred(pass.dns)) /\ pass.left # <<>>
  BY Zenon, IdlePc DEF Typed, PassTyped, EnsureCABundle, EnsureCABundleFails
<1>2. /\ Head(pass.left) \in Bundles
      /\ Tail(pass.left) \in Seq(Referred(pass.dns))
  <2>1. Referred(pass.dns) \subseteq Bundles
    BY <1>1, BundleAssumption DEF Typed, PassTyped
  <2> QED
    BY <1>1, <2>1, HeadAndTail
<1>3. /\ UNCHANGED <<dns, source, broken, cached, queued, edits>>
      /\ UNCHANGED <<copy, behind>> \/ SyncCABundle(Head(pass.left))
      /\ UNCHANGED fails \/ Fail
  BY DEF EnsureCABundle, EnsureCABundleFails
<1>4. CopiesStep
  <2>1. CASE UNCHANGED <<copy, behind>>
    BY <2>1, KeepTyped DEF Typed
  <2>2. CASE /\ source[Head(pass.left)] # Absent
             /\ Put(Head(pass.left), source[Head(pass.left)])
    <3>1. source[Head(pass.left)] \in Data
      BY <1>2, <2>2 DEF Typed
    <3> QED
      BY <1>2, <2>2, <3>1, PutTyped DEF Typed
  <2> QED
    BY <1>3, <2>1, <2>2 DEF SyncCABundle
<1>5. fails' \in 0 .. MaxFails
  BY <1>3, FailsTyped
<1>6. /\ pass'.dns = pass.dns /\ pass'.revs = pass.revs
      /\ pass'.left = Tail(pass.left)
  BY Zenon, <1>1 DEF Shape, EnsureCABundle, EnsureCABundleFails, Following,
                     AfterFailure
<1>7. PassTyped'
  BY <1>1, <1>2, <1>4, <1>6, PassKept
<1> QED
  BY <1>3, <1>4, <1>5, <1>7 DEF Typed, CopiesStep, Shape

\* The removal of copies.
LEMMA RemovalTyped ==
    ASSUME Typed, Shape, Shape', RemoveUnreferred
    PROVE  Typed'
<1>1. pass # Idle
  BY Zenon, IdlePc DEF RemoveUnreferred
<1>2. PICK gone \in SUBSET (cached \ Referred(pass.dns)), failing \in BOOLEAN :
          /\ UNCHANGED fails \/ Fail
          /\ Remove(gone)
          /\ pass' = [pass EXCEPT !.pc = "revisions", !.failed = @ \/ failing]
  BY Zenon DEF RemoveUnreferred
<1>3. UNCHANGED <<dns, source, broken, cached, queued, edits>>
  BY Zenon DEF RemoveUnreferred
<1>4. CopiesStep
  BY <1>2, RemoveTyped DEF Typed
<1>5. fails' \in 0 .. MaxFails
  BY <1>2, FailsTyped
<1>6. /\ pass'.dns = pass.dns /\ pass'.revs = pass.revs
      /\ pass'.left = pass.left
  BY Zenon, <1>1, <1>2 DEF Shape
<1>7. PassTyped'
  BY <1>1, <1>4, <1>6, PassKept DEF Typed, PassTyped
<1> QED
  BY <1>3, <1>4, <1>5, <1>7 DEF Typed, CopiesStep, Shape

\* The map of revisions holds the versions of copies that exist.
LEMMA RevisionTyped ==
    ASSUME Typed, Shape, Shape', CABundleRevisionMap
    PROVE  Typed'
<1>1. pass # Idle
  BY Zenon, IdlePc DEF CABundleRevisionMap
<1>2. PICK unread \in SUBSET Referred(pass.dns) :
          /\ IF unread = {} THEN UNCHANGED fails ELSE Fail
          /\ pass' = [pass EXCEPT !.pc = "daemonset", !.revs =
                         [b \in {n \in Referred(pass.dns) \ unread : Have(n)} |->
                             copy[b].rev]]
  BY Zenon DEF CABundleRevisionMap
<1> DEFINE read == {n \in Referred(pass.dns) \ unread : Have(n)}
<1>3. UNCHANGED <<dns, source, broken, copy, behind, cached, queued, edits>>
  BY Zenon DEF CABundleRevisionMap, cluster
<1>4. CopiesStep
  BY <1>3, KeepTyped DEF Typed
<1>5. fails' \in 0 .. MaxFails
  BY <1>2, FailsTyped
<1>6. /\ pass'.dns = pass.dns /\ pass'.left = pass.left
      /\ pass'.revs = [b \in read |-> copy[b].rev]
  BY Zenon, <1>1, <1>2 DEF Shape
<1>7. \A b \in read : b \in Referred(pass.dns) /\ copy[b].rev \in 1 .. copy[b].rev
  <2>1. SUFFICES ASSUME NEW b \in read PROVE copy[b].rev \in 1 .. copy[b].rev
    OBVIOUS
  <2>2. b \in Bundles /\ Have(b)
    BY <1>1, BundleAssumption DEF Typed, PassTyped
  <2> QED
    BY <2>2 DEF Typed, CopiesTyped, Written
<1> HIDE DEF read
<1>8. PassTyped'
  BY <1>1, <1>3, <1>6, <1>7 DEF Typed, PassTyped, Shape, Idle
<1> QED
  BY <1>3, <1>4, <1>5, <1>8 DEF Typed, CopiesStep, Shape

\* The last two calls of a pass, and a restart.
LEMMA LateTyped ==
    ASSUME Typed, Shape, Shape',
           \/ EnsureDNSDaemonSet \/ EnsureDNSDaemonSetFails
           \/ EnsureDNSConfigMap \/ EnsureDNSConfigMapFails
           \/ Restart
    PROVE  Typed'
<1>1. UNCHANGED <<dns, source, broken, copy>>
  BY Zenon DEF EnsureDNSDaemonSet, EnsureDNSDaemonSetFails, EnsureDNSConfigMap,
               EnsureDNSConfigMapFails, Restart, cluster
<1>2. behind' = behind \/ behind' = {}
  BY Zenon DEF EnsureDNSDaemonSet, EnsureDNSDaemonSetFails, EnsureDNSConfigMap,
               EnsureDNSConfigMapFails, Restart
<1>3. CopiesStep
  BY <1>1, <1>2 DEF CopiesStep, Typed, CopiesTyped, Written, Have
<1>4. cached' \in SUBSET Bundles
  BY DEF EnsureDNSDaemonSet, EnsureDNSDaemonSetFails, EnsureDNSConfigMap,
         EnsureDNSConfigMapFails, Restart, Typed
<1>5. edits' \in 0 .. MaxEdits
  <2>1. \/ UNCHANGED edits
        \/ edits < MaxEdits /\ edits' = edits + 1
    BY Zenon DEF EnsureDNSDaemonSet, EnsureDNSDaemonSetFails, EnsureDNSConfigMap,
                 EnsureDNSConfigMapFails, Restart
  <2>2. edits \in 0 .. MaxEdits /\ MaxEdits \in Nat
    BY BundleAssumption DEF Typed
  <2> QED
    BY <2>1, <2>2
<1>6. fails' \in 0 .. MaxFails
  <2>1. UNCHANGED fails \/ Fail
    BY Zenon DEF EnsureDNSDaemonSet, EnsureDNSDaemonSetFails, EnsureDNSConfigMap,
                 EnsureDNSConfigMapFails, Restart
  <2> QED
    BY <2>1, FailsTyped
<1>7. PassTyped'
  <2>1. CASE pass' = Idle
    BY <2>1 DEF PassTyped, Idle
  <2>2. CASE EnsureDNSDaemonSet
    <3>1. pass # Idle /\ pass' = [pass EXCEPT !.pc = "corefile"]
      BY Zenon, <2>2, IdlePc DEF EnsureDNSDaemonSet
    <3>2. /\ pass'.dns = pass.dns /\ pass'.revs = pass.revs
          /\ pass'.left = pass.left
      BY Zenon, <3>1 DEF Shape
    <3> QED
      BY <1>3, <3>1, <3>2, PassKept DEF Typed, PassTyped
  <2> QED
    BY Zenon, <2>1, <2>2 DEF EnsureDNSDaemonSetFails, EnsureDNSConfigMap,
                             EnsureDNSConfigMapFails, Restart, Return
<1> QED
  BY <1>1, <1>3, <1>4, <1>5, <1>6, <1>7 DEF Typed, CopiesStep, Shape

\* Every step keeps the types.
LEMMA StepTyped == Typed /\ Inv /\ Inv' /\ [Next]_vars => Typed'
  BY OthersTyped, StartTyped, BundleTyped, RemovalTyped, RevisionTyped, LateTyped
     DEF Next, Work, Inv

\* The two invariants together.
LEMMA TypedAlways == Spec => [](Typed /\ Inv)
  BY InitTyped, StepTyped, InvAlways, PTL DEF Spec

\* The variables keep their types; in particular the list of a pass holds
\* just bundles that its DNS refers to, and its map of revisions just versions
\* that the copies have had.
THEOREM TypesAlways == Spec => []TypeOK
<1>1. Typed => TypeOK
  BY DEF Typed, CopiesTyped, PassTyped, TypeOK
<1> QED
  BY <1>1, TypedAlways, PTL

-----------------------------------------------------------------------------
(***************************************************************************)
(* What the operator leaves behind.  A copy differs from what the spec of  *)
(* the pass asks for only if the pass has not come to it, has failed, or   *)
(* another pass is on its way; the copies to remove are all found because  *)
(* the cache is wrong only about bundles with an event on its way.         *)
(***************************************************************************)
Synced(b) == source[b] = Absent \/ copy[b].data = source[b]

\* The pass has not come to the bundle.
Left(b) == pass.pc = "bundles" /\ \E i \in DOMAIN pass.left : pass.left[i] = b

CacheKnown == \A b \in Bundles : b \in behind \/ (b \in cached <=> Have(b))

SpecKnown == pass # Idle => pass.dns = dns \/ queued

SyncKnown ==
    /\ pass = Idle => \A b \in Referred(dns) : Synced(b) \/ Pending(b)
    /\ pass # Idle => \A b \in Referred(pass.dns) :
          Synced(b) \/ Pending(b) \/ pass.failed \/ Left(b)

RemovalKnown ==
    /\ pass = Idle => \A b \in Bundles :
          Have(b) => b \in Referred(dns) \/ Pending(b)
    /\ pass # Idle /\ pass.pc # "bundles" => \A b \in Bundles :
          Have(b) => b \in Referred(pass.dns) \/ Pending(b) \/ pass.failed

CorefileKnown ==
    pass = Idle /\ ~queued => \E revs : corefile = DesiredDNSConfigMap(dns, revs)

Known == CacheKnown /\ SpecKnown /\ SyncKnown /\ RemovalKnown /\ CorefileKnown

\* The operator starts with a Corefile for its DNS, and with no copies.
LEMMA InitKnown == Init => Known
<1> SUFFICES ASSUME Init PROVE Known
  OBVIOUS
<1>1. CacheKnown
  BY DEF Init, CacheKnown, Have
<1>2. pass = Idle /\ queued
  BY DEF Init
<1> QED
  BY <1>1, <1>2 DEF Known, SpecKnown, SyncKnown, RemovalKnown, CorefileKnown, Pending

\* A step outside the pass: what it changes of a bundle is announced, and a
\* change of the spec is queued.
LEMMA OutsideKnown ==
    ASSUME Known, Shape, UNCHANGED <<pass, corefile>>, CacheKnown',
           queued => queued', UNCHANGED dns \/ queued',
           \A b \in Bundles : Pending(b)' \/
               (~Pending(b) /\ copy'[b] = copy[b] /\ source'[b] = source[b])
    PROVE  Known'
<1>1. SpecKnown'
  BY DEF Known, SpecKnown, Idle
<1>2. CorefileKnown'
  BY DEF Known, CorefileKnown, Idle
<1>3. \A b \in Bundles : Synced(b) \/ Pending(b) => Synced(b)' \/ Pending(b)'
  BY DEF Synced
<1>4. \A b \in Bundles : (Have(b) => Pending(b)) => (Have(b)' => Pending(b)')
  BY DEF Have
<1>5. Referred(dns) \subseteq Bundles
  BY BundleAssumption DEF Shape
<1>6. pass # Idle => Referred(pass.dns) \subseteq Bundles
  BY BundleAssumption DEF Shape
<1>7. SyncKnown'
  <2>1. ASSUME pass = Idle, NEW b \in Referred(dns)'
        PROVE  Synced(b)' \/ Pending(b)'
    <3>1. CASE queued'
      BY <3>1 DEF Pending
    <3>2. CASE ~queued'
      BY <1>3, <1>5, <2>1, <3>2 DEF Known, SyncKnown
    <3> QED
      BY <3>1, <3>2
  <2>2. ASSUME pass # Idle, NEW b \in Referred(pass.dns)
        PROVE  Synced(b)' \/ Pending(b)' \/ pass.failed \/ Left(b)
    BY <1>3, <1>6, <2>2 DEF Known, SyncKnown
  <2> QED
    BY <2>1, <2>2 DEF SyncKnown, Left, Idle
<1>8. RemovalKnown'
  <2>1. ASSUME pass = Idle, NEW b \in Bundles, Have(b)'
        PROVE  b \in Referred(dns)' \/ Pending(b)'
    <3>1. CASE queued'
      BY <3>1 DEF Pending
    <3>2. CASE ~queued'
      BY <1>4, <2>1, <3>2 DEF Known, RemovalKnown
    <3> QED
      BY <3>1, <3>2
  <2>2. ASSUME pass # Idle, pass.pc # "bundles", NEW b \in Bundles, Have(b)'
        PROVE  b \in Referred(pass.dns) \/ Pending(b)' \/ pass.failed
    BY <1>4, <2>2 DEF Known, RemovalKnown
  <2> QED
    BY <2>1, <2>2 DEF RemovalKnown, Idle
<1> QED
  BY <1>1, <1>2, <1>7, <1>8 DEF Known

\* A pass that has seen to the copies goes on.
LEMMA GoesOnKnown ==
    ASSUME Known, pass # Idle, pass' # Idle, pass.pc # "bundles",
           pass'.dns = pass.dns, pass'.failed = pass.failed,
           UNCHANGED <<dns, source, copy, cached, behind>>, queued => queued'
    PROVE  Known'
<1>1. CacheKnown' /\ SpecKnown' /\ CorefileKnown'
  BY DEF Known, CacheKnown, SpecKnown, CorefileKnown, Have
<1>2. SyncKnown'
  BY DEF Known, SyncKnown, Synced, Pending, Left
<1>3. RemovalKnown'
  BY DEF Known, RemovalKnown, Have, Pending
<1> QED
  BY <1>1, <1>2, <1>3 DEF Known

\* A pass that ends with a request to come knows nothing.
LEMMA RequestKnown ==
    ASSUME pass' = Idle, queued', CacheKnown'
    PROVE  Known'
  BY DEF Known, SpecKnown, SyncKnown, RemovalKnown, CorefileKnown, Pending

\* The cache stays right about the bundles that nothing is announced of.
LEMMA CacheKept ==
    ASSUME CacheKnown, UNCHANGED cached, behind \subseteq behind',
           \A b \in Bundles : b \in behind' \/ copy'[b] = copy[b]
    PROVE  CacheKnown'
  BY DEF CacheKnown, Have

\* Steps of others, of the cache and of the clock.
LEMMA OthersKnown ==
    ASSUME Known, Shape,
           \/ \E s \in Specs : EditDNS(s)
           \/ \E b \in Bundles, data \in Data \cup {Absent} :
                 EditSource(b, data) \/ EditCopy(b, data)
           \/ \E b \in Bundles : SeeCopy(b)
           \/ Resync
           \/ UNCHANGED vars
    PROVE  Known'
<1>1. CASE (\E s \in Specs : EditDNS(s)) \/ Resync
           \/ \E b \in Bundles, data \in Data \cup {Absent} : EditSource(b, data)
  <2>1. /\ UNCHANGED <<copy, cached, behind, corefile, pass>> /\ queued'
    BY <1>1 DEF EditDNS, EditSource, Resync, cluster, operand
  <2>2. CacheKnown'
    BY SMTT(30), <2>1, CacheKept DEF Known
  <2> QED
    BY <2>1, <2>2, OutsideKnown DEF Pending
<1>2. CASE \E b \in Bundles, data \in Data \cup {Absent} : EditCopy(b, data)
  <2>1. PICK b \in Bundles, data \in Data \cup {Absent} : EditCopy(b, data)
    BY <1>2
  <2>2. UNCHANGED <<dns, source, cached, corefile, queued, pass>>
    BY <2>1 DEF EditCopy, operand
  <2>3. /\ behind \subseteq behind'
        /\ \A c \in Bundles : c \in behind' \/ copy'[c] = copy[c]
    <3>1. CASE data = Absent
      BY <2>1, <3>1, RemoveAnnounced DEF EditCopy
    <3>2. CASE data # Absent
      BY <2>1, <3>2, PutAnnounced DEF EditCopy
    <3> QED
      BY <3>1, <3>2
  <2>4. CacheKnown'
    BY <2>2, <2>3, CacheKept DEF Known
  <2> QED
    BY <2>2, <2>3, <2>4, OutsideKnown DEF Pending
<1>3. CASE \E b \in Bundles : SeeCopy(b)
  <2>1. PICK b \in Bundles : SeeCopy(b)
    BY <1>3
  <2>2. UNCHANGED <<copy, corefile, pass>> /\ queued'
    BY <2>1 DEF SeeCopy, cluster, operand
  <2>3. CacheKnown'
    BY <2>1, <2>2 DEF Known, CacheKnown, SeeCopy, Have
  <2> QED
    BY <2>2, <2>3, OutsideKnown DEF Pending
<1>4. CASE UNCHANGED vars
  <2>1. UNCHANGED <<dns, source, copy, cached, behind, corefile, queued, pass>>
    BY <1>4 DEF vars, cluster, operand
  <2>2. CacheKnown'
    BY <2>1, CacheKept DEF Known
  <2> QED
    BY <2>1, <2>2, OutsideKnown DEF Pending
<1> QED
  BY <1>1, <1>2, <1>3, <1>4

\* A pass begins: it has come to none of the bundles, and its list names all.
LEMMA StartKnown ==
    ASSUME Known, Typed, Start
    PROVE  Known'
<1>1. /\ UNCHANGED <<dns, source, copy, cached, behind>>
      /\ pass' = [pc |-> "bundles", dns |-> dns, left |-> ConfigmapNames(dns),
                  revs |-> <<>>, failed |-> FALSE]
  BY DEF Start, cluster
<1>2. /\ pass'.pc = "bundles" /\ pass'.dns = dns
      /\ pass'.left = ConfigmapNames(dns) /\ pass' # Idle
  BY <1>1, IdlePc
<1>3. \A b \in Referred(dns) :
          \E i \in DOMAIN ConfigmapNames(dns) : ConfigmapNames(dns)[i] = b
  <2>1. dns.upstream \in TransportConfig /\ dns.servers \in Seq(TransportConfig)
    BY BundleAssumption DEF Typed
  <2>2. Uses(dns) \in Seq(TransportConfig)
    BY <2>1 DEF Uses
  <2> QED
    BY <2>2, NamesAreReferred
<1>4. CacheKnown'
  BY <1>1, CacheKept DEF Known
<1>5. SyncKnown'
  BY <1>2, <1>3 DEF SyncKnown, Left
<1>6. SpecKnown' /\ RemovalKnown' /\ CorefileKnown'
  BY <1>1, <1>2 DEF SpecKnown, RemovalKnown, CorefileKnown
<1> QED
  BY <1>4, <1>5, <1>6 DEF Known

\* The members of a sequence that is not empty are its head and its tail's.
LEMMA MembersOfTail ==
    ASSUME NEW S, NEW list \in Seq(S), list # <<>>, NEW i \in DOMAIN list
    PROVE  list[i] = Head(list) \/ \E j \in DOMAIN Tail(list) : Tail(list)[j] = list[i]
<1>1. CASE i = 1
  BY <1>1
<1>2. CASE i # 1
  <2>1. i - 1 \in DOMAIN Tail(list) /\ Tail(list)[i - 1] = list[i]
    BY <1>2
  <2> QED
    BY <2>1
<1> QED
  BY <1>1, <1>2

\* The next bundle of the list: its copy is what its source is, or the write
\* is announced; after a failure the pass will return an error.
LEMMA BundleKnown ==
    ASSUME Known, Typed, Shape, EnsureCABundle \/ EnsureCABundleFails
    PROVE  Known'
<1> DEFINE head == Head(pass.left)
<1>1. /\ pass # Idle /\ pass.pc = "bundles" /\ pass.left # <<>>
      /\ pass.left \in Seq(Referred(pass.dns)) /\ Referred(pass.dns) \subseteq Bundles
  BY Zenon, IdlePc, BundleAssumption
     DEF Typed, PassTyped, EnsureCABundle, EnsureCABundleFails
<1>2. /\ UNCHANGED <<dns, source, cached, queued>>
      /\ UNCHANGED <<copy, behind>> \/ SyncCABundle(head)
  BY DEF EnsureCABundle, EnsureCABundleFails
<1>3. /\ behind \subseteq behind'
      /\ \A c \in Bundles : c \in behind' \/ copy'[c] = copy[c]
  BY <1>2, PutAnnounced DEF SyncCABundle
<1>4. /\ pass' # Idle /\ pass'.pc = "bundles" /\ pass'.dns = pass.dns
      /\ pass'.left = Tail(pass.left)
  BY ZenonT(40), <1>1, IdlePc DEF Shape, EnsureCABundle, EnsureCABundleFails, Following,
                             AfterFailure
<1>5. SpecKnown' /\ RemovalKnown' /\ CorefileKnown'
  BY <1>1, <1>2, <1>4 DEF Known, SpecKnown, RemovalKnown, CorefileKnown
<1>6. CacheKnown'
  BY <1>2, <1>3, CacheKept DEF Known
<1>7. SyncKnown'
  <2>1. SUFFICES ASSUME NEW b \in Referred(pass.dns)
                 PROVE  (Synced(b) \/ Pending(b) \/ pass.failed \/ Left(b))'
    BY <1>4 DEF SyncKnown
  <2>2. CASE EnsureCABundleFails
    <3>1. pass'.failed = TRUE
      BY Zenon, <1>1, <2>2 DEF Shape, EnsureCABundleFails, Following, AfterFailure
    <3> QED
      BY <3>1
  <2>3. CASE EnsureCABundle /\ b = head
    <3>1. SyncCABundle(b)
      BY <2>3 DEF EnsureCABundle
    <3> QED
      BY <1>2, <3>1 DEF SyncCABundle, Put, Synced, Pending
  <2>4. CASE EnsureCABundle /\ b # head
    <3>1. pass'.failed = pass.failed
      BY Zenon, <1>1, <2>4 DEF Shape, EnsureCABundle, Following
    <3>2. Left(b) => Left(b)'
      BY <1>1, <1>4, <2>4, MembersOfTail DEF Left
    <3>3. Synced(b) \/ Pending(b) => Synced(b)' \/ Pending(b)'
      BY <1>1, <1>2, <1>3 DEF Synced, Pending
    <3>4. Synced(b) \/ Pending(b) \/ pass.failed \/ Left(b)
      BY <1>1 DEF Known, SyncKnown
    <3> QED
      BY <3>1, <3>2, <3>3, <3>4
  <2> QED
    BY <2>2, <2>3, <2>4
<1> QED
  BY <1>5, <1>6, <1>7 DEF Known

\* The removal: a copy that is not used and stays is one that the cache does
\* not list, with an event on its way, or one whose deletion has failed.
LEMMA RemovalStepKnown ==
    ASSUME Known, Typed, Shape, RemoveUnreferred
    PROVE  Known'
<1>1. /\ pass # Idle /\ pass.pc = "bundles" /\ pass.left = <<>>
      /\ Referred(pass.dns) \subseteq Bundles
  BY Zenon, IdlePc, BundleAssumption DEF Shape, RemoveUnreferred
<1>2. PICK gone \in SUBSET (cached \ Referred(pass.dns)), failing \in BOOLEAN :
          /\ failing \/ gone = cached \ Referred(pass.dns)
          /\ Remove(gone)
          /\ pass' = [pass EXCEPT !.pc = "revisions", !.failed = @ \/ failing]
  BY Zenon DEF RemoveUnreferred
<1>3. UNCHANGED <<dns, source, cached, queued>>
  BY Zenon DEF RemoveUnreferred
<1>4. /\ behind \subseteq behind'
      /\ \A c \in Bundles : c \in behind' \/ copy'[c] = copy[c]
  BY <1>2, RemoveAnnounced
<1>5. /\ pass' # Idle /\ pass'.pc = "revisions" /\ pass'.dns = pass.dns
      /\ pass'.failed = (pass.failed \/ failing)
  BY Zenon, <1>1, <1>2, IdlePc DEF Shape
<1>6. SpecKnown' /\ CorefileKnown'
  BY <1>1, <1>3, <1>5 DEF Known, SpecKnown, CorefileKnown
<1>7. CacheKnown'
  BY <1>3, <1>4, CacheKept DEF Known
<1>8. SyncKnown'
  <2>1. SUFFICES ASSUME NEW b \in Referred(pass.dns)
                 PROVE  Synced(b)' \/ Pending(b)' \/ pass'.failed
    BY <1>5 DEF SyncKnown
  <2>2. Synced(b) \/ Pending(b) \/ pass.failed
    BY <1>1 DEF Known, SyncKnown, Left
  <2>3. Synced(b) \/ Pending(b) => Synced(b)' \/ Pending(b)'
    BY <1>1, <1>3, <1>4 DEF Synced, Pending
  <2> QED
    BY <1>5, <2>2, <2>3
<1>9. RemovalKnown'
  <2>1. SUFFICES ASSUME NEW b \in Bundles, Have(b)', b \notin Referred(pass.dns),
                        b \notin behind', ~failing
                 PROVE  FALSE
    BY <1>5 DEF RemovalKnown, Pending
  <2>2. Have(b) /\ b \notin behind
    BY <1>4, <2>1 DEF Have
  <2>3. b \in cached
    BY <2>2 DEF Known, CacheKnown
  <2>4. b \in behind'
    BY <1>2, <2>1, <2>2, <2>3 DEF Remove
  <2> QED
    BY <2>1, <2>4
<1> QED
  BY <1>6, <1>7, <1>8, <1>9 DEF Known

\* The revisions are read and the daemonset is written.
LEMMA MiddleKnown ==
    ASSUME Known, Shape, CABundleRevisionMap \/ EnsureDNSDaemonSet
    PROVE  Known'
<1>1. /\ pass # Idle /\ pass.pc # "bundles"
      /\ UNCHANGED <<dns, source, copy, cached, behind>> /\ (queued => queued')
  <2>1. pass.pc \in {"revisions", "daemonset"}
    BY Zenon DEF CABundleRevisionMap, EnsureDNSDaemonSet
  <2>2. UNCHANGED <<dns, source, copy, cached, behind>>
    BY Zenon DEF CABundleRevisionMap, EnsureDNSDaemonSet, cluster
  <2>3. queued => queued'
    BY Zenon DEF CABundleRevisionMap, EnsureDNSDaemonSet
  <2> QED
    BY <2>1, <2>2, <2>3, IdlePc
<1>2. pass' # Idle /\ pass'.dns = pass.dns /\ pass'.failed = pass.failed
  <2>1. CASE CABundleRevisionMap
    <3>1. PICK revs : pass' = [pass EXCEPT !.pc = "daemonset", !.revs = revs]
      BY Zenon, <2>1 DEF CABundleRevisionMap
    <3> QED
      BY Zenon, <1>1, <3>1, IdlePc DEF Shape
  <2>2. CASE EnsureDNSDaemonSet
    <3>1. pass' = [pass EXCEPT !.pc = "corefile"]
      BY Zenon, <2>2 DEF EnsureDNSDaemonSet
    <3> QED
      BY Zenon, <1>1, <3>1, IdlePc DEF Shape
  <2> QED
    BY <2>1, <2>2
<1> QED
  BY <1>1, <1>2, GoesOnKnown

\* A pass that fails and a restart leave a request.
LEMMA FailedKnown ==
    ASSUME Known, EnsureDNSDaemonSetFails \/ EnsureDNSConfigMapFails \/ Restart
    PROVE  Known'
<1>1. pass' = Idle /\ queued' /\ UNCHANGED copy
  BY Zenon DEF EnsureDNSDaemonSetFails, EnsureDNSConfigMapFails, Restart, Return,
               cluster
<1>2. CacheKnown'
  <2>1. CASE Restart
    BY <1>1, <2>1 DEF Restart, CacheKnown, Have
  <2>2. CASE EnsureDNSDaemonSetFails \/ EnsureDNSConfigMapFails
    BY <1>1, <2>2, CacheKept
       DEF EnsureDNSDaemonSetFails, EnsureDNSConfigMapFails, Known
  <2> QED
    BY <2>1, <2>2
<1> QED
  BY <1>1, <1>2, RequestKnown

\* A pass that ends well has seen to every copy and written the Corefile, for
\* a spec that is still that of the DNS or else with a request to come.
LEMMA CorefileStepKnown ==
    ASSUME Known, EnsureDNSConfigMap
    PROVE  Known'
<1>1. /\ pass # Idle /\ pass.pc = "corefile" /\ pass' = Idle
      /\ UNCHANGED <<dns, source, copy, cached, behind>>
      /\ corefile' = DesiredDNSConfigMap(pass.dns, pass.revs)
  BY Zenon, IdlePc DEF EnsureDNSConfigMap, Return, cluster
<1>2. queued \/ pass.failed => queued'
  BY Zenon DEF EnsureDNSConfigMap, Return
<1>3. CacheKnown'
  BY <1>1, CacheKept DEF Known
<1>4. CASE queued'
  BY <1>1, <1>3, <1>4, RequestKnown
<1>5. CASE ~queued'
  <2>1. pass.dns = dns /\ ~pass.failed /\ ~queued
    BY <1>1, <1>2, <1>5 DEF Known, SpecKnown
  <2>2. SyncKnown'
    BY <1>1, <2>1 DEF Known, SyncKnown, Synced, Pending, Left
  <2>3. RemovalKnown'
    BY <1>1, <2>1 DEF Known, RemovalKnown, Have, Pending
  <2>4. SpecKnown' /\ CorefileKnown'
    BY <1>1, <2>1 DEF SpecKnown, CorefileKnown
  <2> QED
    BY <1>3, <2>2, <2>3, <2>4 DEF Known
<1> QED
  BY <1>4, <1>5

\* Every step keeps what is known.
LEMMA StepKnown == Known /\ Typed /\ Inv /\ [Next]_vars => Known'
  BY OthersKnown, StartKnown, BundleKnown, RemovalStepKnown, MiddleKnown,
     FailedKnown, CorefileStepKnown
     DEF Next, Work, Inv

\* The invariants together.
LEMMA KnownAlways == Spec => [](Known /\ Typed)
  BY InitKnown, StepKnown, TypedAlways, PTL DEF Spec

-----------------------------------------------------------------------------
\* At rest the copies in openshift-dns are those of the bundles that the DNS
\* uses, and each is what its source is, whatever others have done to the
\* copies and whatever calls of ensureCABundleConfigMaps have failed.
THEOREM RestCopiesRight == Spec => []AtRestCopies
<1>1. Known => AtRestCopies
  BY DEF Known, SyncKnown, RemovalKnown, AtRestCopies, Rest, Synced, Pending
<1> QED
  BY <1>1, KnownAlways, PTL

\* At rest the Corefile is made for the spec that the DNS has.
LEMMA RestCorefile ==
    ASSUME Known, Typed, Rest
    PROVE  /\ \E revs : corefile = DesiredDNSConfigMap(dns, revs)
           /\ dns.resolvers \in Seq(Upstream)
           /\ dns.cache \in [DOMAIN DefaultTTL -> Nat]
<1>1. \E revs : corefile = DesiredDNSConfigMap(dns, revs)
  BY DEF Known, CorefileKnown, Rest
<1>2. dns.resolvers \in Seq(Upstream) /\ dns.cache \in [DOMAIN DefaultTTL -> Nat]
  BY BundleAssumption DEF Typed
<1> QED
  BY <1>1, <1>2

\* At rest the Corefile forwards to just the resolvers that the DNS names, for
\* every list of resolvers.
THEOREM RestForwardsRight == Spec => []AtRestForwards
<1>1. Known /\ Typed => AtRestForwards
  BY RestCorefile, ForwardsRight DEF AtRestForwards
<1> QED
  BY <1>1, KnownAlways, PTL

\* At rest the Corefile has cache times that CoreDNS takes, and those that the
\* DNS gives as far as a uint32 holds them, for every duration that the CRD
\* admits and on every processor.
THEOREM RestCachesRight == Spec => []AtRestCaches
<1>1. Known /\ Typed => AtRestCaches
  BY RestCorefile, CachesRight DEF AtRestCaches
<1> QED
  BY <1>1, KnownAlways, PTL
=============================================================================
