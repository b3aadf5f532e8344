------------------------------ MODULE CABundle ------------------------------
(***************************************************************************)
(* CA bundles for DNS over TLS, from the configmap that an administrator   *)
(* keeps in openshift-config to the file that CoreDNS reads.  A pass of    *)
(* the main controller copies each bundle that the DNS uses to             *)
(* openshift-dns, removes the copies that it no longer uses, reads the     *)
(* resource versions of the copies, and puts them in the daemonset's       *)
(* mounts and in the Corefile, in that order: ensureCABundleConfigMaps,    *)
(* caBundleRevisionMap, ensureDNSDaemonSet and ensureDNSConfigMap, called  *)
(* one after the other by ensureDNS.                                       *)
(*                                                                         *)
(* Any of the calls may fail.  Others edit the DNS and the configmaps      *)
(* between the calls.  The copies to remove are listed from the cache,     *)
(* which lags behind the API server.                                       *)
(***************************************************************************)
EXTENDS Corefile

CONSTANTS
    Bundles,    \* the names of CA bundles
    Data,       \* the contents of a bundle
    Specs,      \* the specs the DNS may have
    Unreadable, \* the sets of sources that may be beyond the operator's reach
    MaxEdits,   \* bound: changes by others to the DNS, the sources, the copies
    MaxFails    \* bound: calls that fail

VARIABLES
    dns,        \* the spec of the DNS
    source,     \* the configmaps in openshift-config
    broken,     \* the sources whose Get always fails
    copy,       \* the copies in openshift-dns
    cached,     \* the copies that the operator's cache lists
    behind,     \* the copies with an event that has not reached the cache
    daemonset,  \* the CA bundle volumes of the DNS daemonset
    corefile,   \* the Corefile
    queued,     \* whether the work queue holds the request for the DNS
    pass,       \* the pass that runs
    edits, fails

cluster == <<dns, source, broken, copy>>
operand == <<daemonset, corefile>>
vars == <<cluster, cached, behind, operand, queued, pass, edits, fails>>

Absent == "absent"

ASSUME BundleAssumption ==
    /\ "" \notin Bundles /\ Absent \notin Data
    /\ \A s \in Specs :
          /\ s.upstream \in TransportConfig /\ s.servers \in Seq(TransportConfig)
          /\ s.resolvers \in Seq(Upstream)
          /\ s.cache \in [DOMAIN DefaultTTL -> Nat]
          /\ Referred(s) \subseteq Bundles
    /\ Unreadable \subseteq SUBSET Bundles
    /\ MaxEdits \in Nat /\ MaxFails \in Nat

Idle == [pc |-> "idle"]
Plain == {s \in Specs : Referred(s) = {} /\ ~Invalid(s)}

\* The operator starts on a cluster whose DNS uses no bundle yet.
Init ==
    /\ dns \in Plain
    /\ source \in [Bundles -> Data \cup {Absent}]
    /\ broken \in Unreadable
    /\ copy = [b \in Bundles |-> [data |-> Absent, rev |-> 0]]
    /\ cached = {} /\ behind = {}
    /\ daemonset = <<>>
    /\ corefile = DesiredDNSConfigMap(dns, <<>>)
    /\ queued = TRUE
    /\ pass = Idle
    /\ edits = 0 /\ fails = 0

-----------------------------------------------------------------------------
Have(b) == copy[b].data # Absent

\* Every write of a copy gives it a resource version that it never had.
Put(b, data) ==
    /\ copy' = [copy EXCEPT ![b] = [data |-> data, rev |-> @.rev + 1]]
    /\ behind' = behind \cup {b}

Remove(gone) ==
    LET there == {b \in gone : Have(b)}
    IN  /\ copy' = [b \in Bundles |->
                       IF b \in there THEN [copy[b] EXCEPT !.data = Absent]
                                      ELSE copy[b]]
        /\ behind' = behind \cup there

\* A call that fails, within the bound.
Fail == fails < MaxFails /\ fails' = fails + 1

\* The pass returns.  An error puts the request back in the queue.
Return(failed) ==
    /\ pass' = Idle
    /\ queued' = (queued \/ failed)

Start ==
    /\ pass = Idle /\ queued
    /\ queued' = FALSE
    /\ pass' = [pc |-> "bundles", dns |-> dns, left |-> ConfigmapNames(dns),
                revs |-> <<>>, failed |-> FALSE]
    /\ UNCHANGED <<cluster, cached, behind, operand, edits, fails>>

(***************************************************************************)
(* ensureCABundleConfigMaps, the next bundle of its list.  Without a       *)
(* source there is nothing to do, not even if there is a copy.             *)
(***************************************************************************)
Following == [pass EXCEPT !.left = Tail(@)]

\* A plausible fault: a copy without a source is not wanted.
SyncCABundleBySource(b) ==
    IF source[b] = Absent
    THEN Remove({b})
    ELSE IF copy[b].data = source[b] THEN UNCHANGED <<copy, behind>>
                                     ELSE Put(b, source[b])

SyncCABundle(b) ==
    IF source[b] = Absent \/ copy[b].data = source[b]
    THEN UNCHANGED <<copy, behind>>
    ELSE Put(b, source[b])

EnsureCABundle ==
    /\ pass.pc = "bundles" /\ pass.left # <<>>
    /\ Head(pass.left) \notin broken
    /\ SyncCABundle(Head(pass.left))
    /\ pass' = Following
    /\ UNCHANGED <<dns, source, broken, cached, operand, queued, edits, fails>>

\* Plausible faults: the first bundle that fails ends the loop; its error is
\* not kept.
AfterFailureForgotten == Following
AfterFailureStop == [pass EXCEPT !.left = <<>>, !.failed = TRUE]

AfterFailure == [Following EXCEPT !.failed = TRUE]

\* A write that is reported as failed may have taken effect.
EnsureCABundleFails ==
    /\ pass.pc = "bundles" /\ pass.left # <<>>
    /\ IF Head(pass.left) \in broken
       THEN UNCHANGED <<copy, behind, fails>>
       ELSE Fail /\ (UNCHANGED <<copy, behind>> \/ SyncCABundle(Head(pass.left)))
    /\ pass' = AfterFailure
    /\ UNCHANGED <<dns, source, broken, cached, operand, queued, edits>>

\* A plausible fault: nothing is removed after a failure.
RemoveUnreferredUnlessFailed ==
    /\ pass.pc = "bundles" /\ pass.left = <<>>
    /\ Remove(IF pass.failed THEN {} ELSE cached \ Referred(pass.dns))
    /\ pass' = [pass EXCEPT !.pc = "revisions"]
    /\ UNCHANGED <<dns, source, broken, cached, operand, queued, edits, fails>>

\* The copies that the cache lists and the DNS does not refer to are deleted;
\* a copy that is gone by now is no error.  If the list fails nothing is
\* deleted; a deletion that is reported as failed may have taken effect.
RemoveUnreferred ==
    /\ pass.pc = "bundles" /\ pass.left = <<>>
    /\ LET unreferred == cached \ Referred(pass.dns)
       IN  \E gone \in SUBSET unreferred, failing \in BOOLEAN :
              /\ IF failing THEN Fail ELSE gone = unreferred /\ UNCHANGED fails
              /\ Remove(gone)
              /\ pass' = [pass EXCEPT !.pc = "revisions", !.failed = @ \/ failing]
    /\ UNCHANGED <<dns, source, broken, cached, operand, queued, edits>>

\* A plausible fault: the transport is not looked at.
CABundleRevisionMapAnyTransport ==
    /\ pass.pc = "revisions"
    /\ LET named == {Uses(pass.dns)[i].bundle : i \in DOMAIN Uses(pass.dns)} \ {""}
       IN  pass' = [pass EXCEPT !.pc = "daemonset", !.revs =
                       [b \in {n \in named : Have(n)} |-> copy[b].rev]]
    /\ UNCHANGED <<cluster, cached, behind, operand, queued, edits, fails>>

\* caBundleRevisionMap.  A copy that cannot be read is left out like one that
\* does not exist, and the pass does not fail for it.
CABundleRevisionMap ==
    /\ pass.pc = "revisions"
    /\ \E unread \in SUBSET Referred(pass.dns) :
          /\ IF unread = {} THEN UNCHANGED fails ELSE Fail
          /\ pass' = [pass EXCEPT !.pc = "daemonset", !.revs =
                         [b \in {n \in Referred(pass.dns) \ unread : Have(n)} |->
                             copy[b].rev]]
    /\ UNCHANGED <<cluster, cached, behind, operand, queued, edits>>

\* The API server rejects a pod template with two volumes of one name, and
\* the volume has the bundle's name.
Rejected(volumes) ==
    \E i, j \in DOMAIN volumes : i # j /\ volumes[i].bundle = volumes[j].bundle

\* daemonsetConfigChanged, as far as volumes and their mounts go.
VolumesChanged(current, expected) == current # expected

\* ensureDNSDaemonSet.  A change of the daemonset is an event of the DNS.
EnsureDNSDaemonSet ==
    /\ pass.pc = "daemonset"
    /\ LET desired == DesiredVolumes(pass.dns, pass.revs)
       IN  /\ ~Rejected(desired)
           /\ daemonset' = desired
           /\ queued' = (queued \/ VolumesChanged(daemonset, desired))
           /\ pass' = [pass EXCEPT !.pc = "corefile"]
    /\ UNCHANGED <<cluster, cached, behind, corefile, edits, fails>>

\* A plausible fault: the Corefile is written whatever becomes of the daemonset.
EnsureDNSDaemonSetFailsOn ==
    /\ pass.pc = "daemonset"
    /\ IF Rejected(DesiredVolumes(pass.dns, pass.revs)) THEN UNCHANGED fails
                                                        ELSE Fail
    /\ pass' = [pass EXCEPT !.pc = "corefile", !.failed = TRUE]
    /\ UNCHANGED <<cluster, cached, behind, operand, queued, edits>>

\* The APIServer or the daemonset cannot be read or written, or the answer to
\* the write is lost: ensureDNS leaves the Corefile alone.
EnsureDNSDaemonSetFails ==
    /\ pass.pc = "daemonset"
    /\ LET desired == DesiredVolumes(pass.dns, pass.revs)
       IN  IF Rejected(desired) THEN UNCHANGED <<daemonset, fails>>
           ELSE Fail /\ daemonset' \in {daemonset, desired}
    /\ Return(TRUE)
    /\ UNCHANGED <<cluster, cached, behind, corefile, edits>>

\* ensureDNSConfigMap, the last of the calls this module is about.
EnsureDNSConfigMap ==
    /\ pass.pc = "corefile"
    /\ ~Invalid(pass.dns)
    /\ corefile' = DesiredDNSConfigMap(pass.dns, pass.revs)
    /\ Return(pass.failed \/ corefile' # corefile)
    /\ UNCHANGED <<cluster, cached, behind, daemonset, edits, fails>>

EnsureDNSConfigMapFails ==
    /\ pass.pc = "corefile"
    /\ IF Invalid(pass.dns) THEN UNCHANGED <<corefile, fails>>
       ELSE Fail /\ corefile' \in {corefile, DesiredDNSConfigMap(pass.dns, pass.revs)}
    /\ Return(TRUE)
    /\ UNCHANGED <<cluster, cached, behind, daemonset, edits>>

-----------------------------------------------------------------------------
(***************************************************************************)
(* Others.  A change of the DNS or of a configmap in openshift-config      *)
(* queues the DNS; so does a change of a copy, once the cache has seen it. *)
(***************************************************************************)
Edit == edits < MaxEdits /\ edits' = edits + 1

EditDNS(s) ==
    /\ Edit /\ s # dns
    /\ dns' = s /\ queued' = TRUE
    /\ UNCHANGED <<source, broken, copy, cached, behind, operand, pass, fails>>

EditSource(b, data) ==
    /\ Edit /\ data # source[b]
    /\ source' = [source EXCEPT ![b] = data] /\ queued' = TRUE
    /\ UNCHANGED <<dns, broken, copy, cached, behind, operand, pass, fails>>

\* Somebody else deletes or overwrites a copy.
EditCopy(b, data) ==
    /\ Edit /\ Have(b) /\ data # copy[b].data
    /\ IF data = Absent THEN Remove({b}) ELSE Put(b, data)
    /\ UNCHANGED <<dns, source, broken, cached, operand, queued, pass, fails>>

\* A plausible fault: the copies are not watched.
SeeCopyUnwatched(b) ==
    /\ b \in behind
    /\ behind' = behind \ {b}
    /\ cached' = IF Have(b) THEN cached \cup {b} ELSE cached \ {b}
    /\ UNCHANGED <<cluster, operand, queued, pass, edits, fails>>

SeeCopy(b) ==
    /\ b \in behind
    /\ behind' = behind \ {b}
    /\ cached' = IF Have(b) THEN cached \cup {b} ELSE cached \ {b}
    /\ queued' = TRUE
    /\ UNCHANGED <<cluster, operand, pass, edits, fails>>

\* The informers' resync.
Resync ==
    /\ queued' = TRUE
    /\ UNCHANGED <<cluster, cached, behind, operand, pass, edits, fails>>

\* The operator stops; its successor reads the cluster into a new cache and
\* takes every object it finds for new.
Restart ==
    /\ edits < MaxEdits /\ edits' = edits + 1
    /\ pass' = Idle /\ queued' = TRUE
    /\ behind' = {} /\ cached' = {b \in Bundles : Have(b)}
    /\ UNCHANGED <<cluster, operand, fails>>

Work ==
    \/ Start
    \/ EnsureCABundle \/ EnsureCABundleFails
    \/ RemoveUnreferred \/ CABundleRevisionMap
    \/ EnsureDNSDaemonSet \/ EnsureDNSDaemonSetFails
    \/ EnsureDNSConfigMap \/ EnsureDNSConfigMapFails

Next ==
    \/ Work
    \/ \E s \in Specs : EditDNS(s)
    \/ \E b \in Bundles, data \in Data \cup {Absent} :
          EditSource(b, data) \/ EditCopy(b, data)
    \/ \E b \in Bundles : SeeCopy(b)
    \/ Resync
    \/ Restart

Spec == Init /\ [][Next]_vars

(***************************************************************************)
(* The worker does not stop while there is work, the cache catches up with *)
(* the API server and the resync comes, again and again.  The first two    *)
(* are WF_vars(Work) and WF_vars(SeeCopy(b)), written out: Work is enabled *)
(* just if a pass runs or a request waits, and SeeCopy(b) ends b's delay.  *)
(***************************************************************************)
Fairness ==
    /\ []<>(pass = Idle /\ ~queued) \/ []<><<Work>>_vars
    /\ \A b \in Bundles : []<>(b \notin behind)
    /\ WF_vars(Resync)

FairSpec == Spec /\ Fairness

-----------------------------------------------------------------------------
Paths(volumes) == {volumes[i] : i \in DOMAIN volumes}

\* Type correctness; a pass works on bundles that its DNS refers to, with
\* revisions that their copies have had.
TypeOK ==
    /\ dns \in Specs
    /\ source \in [Bundles -> Data \cup {Absent}]
    /\ broken \in SUBSET Bundles
    /\ copy \in [Bundles -> [data : Data \cup {Absent}, rev : Nat]]
    /\ cached \in SUBSET Bundles /\ behind \in SUBSET Bundles
    /\ queued \in BOOLEAN
    /\ pass # Idle =>
          /\ pass.pc \in {"bundles", "revisions", "daemonset", "corefile"}
          /\ pass.dns \in Specs /\ pass.failed \in BOOLEAN
          /\ pass.left \in Seq(Referred(pass.dns))
          /\ DOMAIN pass.revs \subseteq Referred(pass.dns)
          /\ \A b \in DOMAIN pass.revs : pass.revs[b] \in 1 .. copy[b].rev
    /\ edits \in 0 .. MaxEdits /\ fails \in 0 .. MaxFails

\* The operator is at rest: no pass, no request, no event on its way.
Rest == pass = Idle /\ ~queued /\ behind = {}

\* At rest CoreDNS finds every bundle file that its Corefile names, and every
\* bundle volume of the daemonset has its configmap, at the version in the
\* mount: the two are written apart, from one map of revisions.
AtRestMounted ==
    Rest => /\ Paths(corefile.files) \subseteq Paths(daemonset)
            /\ \A p \in Paths(daemonset) :
                  Have(p.bundle) /\ copy[p.bundle].rev = p.rev

\* At rest the copies are those of the bundles that the DNS uses, and each is
\* what its source is, if that exists.
AtRestCopies ==
    Rest => \A b \in Bundles :
                /\ Have(b) => b \in Referred(dns)
                /\ b \in Referred(dns) /\ source[b] # Absent =>
                      copy[b].data = source[b]

\* At rest the Corefile forwards to just the resolvers that the DNS names, in
\* its order, and to each address once however it is written.
AtRestForwards == Rest => ForwardsAsNamed(dns, corefile.upstreams)

\* At rest the Corefile has cache times that CoreDNS takes, and those that the
\* DNS gives as far as a uint32 holds them.
AtRestCaches == Rest => CachesAsGiven(dns, corefile.ttl)

\* The operator never writes a Corefile that names a bundle file which the
\* daemonset does not mount, whichever of the calls before it have failed.
FilesMountedWhenWritten ==
    [][corefile' # corefile =>
          Paths(corefile'.files) \subseteq Paths(daemonset)]_vars

\* The operator never deletes the copy of a bundle that the DNS of the pass
\* uses, not even if the source is missing or cannot be read.
ReferredKept ==
    [][\A b \in Bundles : Have(b) /\ ~Have(b)' /\ edits' = edits =>
          pass # Idle /\ b \notin Referred(pass.dns)]_vars

\* Two volumes of the daemonset would have the name of one bundle.
SharesBundle == Rejected(DesiredVolumes(dns, [b \in Referred(dns) |-> 0]))

\* The bundle that the DNS uses, and its source can be copied.
Wanted(b) ==
    /\ b \in Referred(dns) \ broken
    /\ source[b] # Absent
    /\ ~Invalid(dns)

\* CoreDNS reads what the source of the bundle holds, in every use of it.
Served(b) ==
    /\ copy[b].data = source[b]
    /\ \A i \in DOMAIN Uses(dns) : BundleOf(Uses(dns)[i]) = b =>
          /\ i \in DOMAIN corefile.files
          /\ corefile.files[i] =
                [server |-> Uses(dns)[i].serverName, bundle |-> b,
                 rev |-> copy[b].rev]
          /\ corefile.files[i] \in Paths(daemonset)

\* A bundle that is used, or renewed, reaches CoreDNS in the end, also if
\* another bundle of the same DNS can never be read.
BundleIsServed ==
    \A b \in Bundles :
        Wanted(b) /\ ~SharesBundle ~> Served(b) \/ ~Wanted(b) \/ SharesBundle

\* A copy that the DNS does not use any more goes in the end, also if another
\* bundle of the same DNS can never be read.
UnreferredIsRemoved ==
    \A b \in Bundles :
        Have(b) /\ b \notin Referred(dns) ~> ~Have(b) \/ b \in Referred(dns)

(***************************************************************************)
(* What the repository says and the code does otherwise.                   *)
(***************************************************************************)

\* One bundle may serve two servers: "server name is also used in the path of
\* ca bundles in case the same ca bundle configmap is specified for two
\* different servers" (caBundleRevisionMap).
SharedBundleIsServed ==
    \A b \in Bundles : Wanted(b) ~> Served(b) \/ ~Wanted(b)

\* "Values that are fractions of a second are rounded down to the nearest
\* second.  If the configured value is less than 1s, the default value will be
\* used" (spec.cache.positiveTTL and negativeTTL of the DNS).
AtRestRoundedDown == Rest => CachesRoundedDown(dns, corefile.ttl)

\* Address and port of an upstream "will be ignored" unless its type is
\* Network, so that all upstreams of another type are one (spec.
\* upstreamResolvers of the DNS).
AtRestResolvConfOnce == Rest => ResolvConfOnce(corefile.upstreams)
=============================================================================
