# TLA+ models of the cluster DNS operator

This directory models the DNS operator under `pkg/operator/` in TLA+, checks
the models with TLC on small instances and proves the main safety properties
with TLAPS for every value of the constants.  `PROJECT.json` lists the
components, the runs, the line range each definition stands for, the hazards
and the theorems.

## The system

The operator keeps one custom resource, the DNS `default`, and makes the
cluster's DNS from it.

| part | source | module |
|---|---|---|
| main controller: a pass of `Reconcile`, finalizer, deletion, requeue | `controller.go` | `DNSLifecycle` (what the finalizer promises), `DNSController` |
| the objects it ensures: namespace and RBAC scaffolding, CA bundle copies, CoreDNS daemonset, Corefile configmap, network policies, service, metrics integration, node-resolver daemonset, external name service | `controller_*.go` | `DNSController`, one object per kind |
| the status of the DNS: Progressing, Available, Upgradeable, Degraded | `dns_status.go` | `DNSStatus` |
| the loop that recreates the default DNS | `operator.go` | `DNSController` |
| retryable errors | `util/retryableerror` | their effect in `DNSController` and `DNSStatus` |
| status controller: the ClusterOperator, its conditions and versions | `status/controller.go` | `Upgrade` (what it promises), `ClusterOperatorStatus` |
| the copies of CA bundles, their volumes and paths, and the contents of the Corefile | `controller_cabundle_configmap.go`, `controller_dns_configmap.go`, `controller_dns_daemonset.go` | `Corefile` (pure), `CABundle` |
| node placement, topology-aware hints, the filter of node events | `controller_dns_daemonset.go`, `controller_dns_service.go`, `controller.go` | `NodePlacement` |
| kube-rbac-proxy arguments, node-resolver script | `tls.go`, `manifests/assets` | not modelled, see the end |
| names, configuration, client set-up, manifests, `main` | `names.go`, `config`, `client`, `manifests`, `cmd` | not modelled: no state, no control |

One worker takes the DNS from a work queue.  A pass reads the DNS once and
works from that copy, object by object, against the API server (the client
does not cache; lists of copies, nodes and pods come from the informer cache,
which lags).  A second controller with a queue of its own makes the
ClusterOperator from the DNS, the two daemonsets and their pods.  Around it
administrators edit the DNS and the objects, the garbage collector follows owner
references, pods come and go, API calls fail and the operator restarts.

## DNSController

State: the DNS (`dns`), the managed objects (`obj`, each with owner and
content), the UID of the latest daemonset and whether its pods are degraded;
the queue (`queued`, `delayed`); and the running pass: its program counter
`pc`, its copy `cur`, whether that copy still has the server's resource
version (`fresh`), the errors collected by `Reconcile` and `ensureDNS`
(`errs`, `dnsErrs`), `clusterIP` and what it read of the daemonset (`seen`).
Beside the passes runs the loop of `Start` that ensures the default DNS:
`missing` is TRUE between its read (`GetDefaultDNS`) and its creation
(`CreateDefaultDNS`).  In between somebody else may create the DNS (`CreateDNS`),
edit and delete it again; the loop then creates one more, or is told
AlreadyExists.  A DNS has no management state until somebody sets one, since the
CRD has no default for it; `Reconcile` takes this for `Managed`.

There is one action per ensure function, named after it.  `Ensure` is their
common shape: read, compare, write if different, collect an error.  A failing
call may have taken effect or not.  `Reconcile`, `EnsureDNS` and
`EnsureDNSNamespace` are the disjunctions of the steps the functions call in
turn; the order is in the program counter, with the early returns of the code:
a scaffolding error ends the scaffolding only, a daemonset error skips to the
node resolver, a deny-all error ends the pass, a retryable error alone drops
every other one.  The Updates of the DNS itself send the whole copy and succeed
only if the copy is `fresh`; `PublishStatus` may send one although the cluster IP
is unchanged, because of the conditions, which are in `DNSStatus`.

Abstractions: a spec is one value, and an object's content is the spec it was
made for, `good`, `drifted` or `noNameserver`.  Node placement is left out of
the spec, the CA bundles the spec names exist, and one object stands for all
their copies; `CABundle` and `NodePlacement` model what is left out here.
Whether a degraded cluster is reported as Degraded=True depends on the age of
conditions, so here both outcomes are possible.

`DNSLifecycle` is the promise of the finalizer, in the words of its comment
(`controller.go:46`): a DNS is created, held, deleted and released; operands
are installed only while it is held, also by a pass that began before the
deletion, and it is released only when it has been deleted and no operand is
left.  It knows nothing of passes, copies or failures.  `DNSController` maps
its state to the phase of the DNS (`Phase`) and to the operands that the
deletion branch of `Reconcile` removes, the daemonset and the external name
service (`Installed`).  The other objects are left to the garbage collector.

## DNSStatus

State: what a pass finds in the cluster (`world`), the published conditions
with their ages (`cond`), the queue and the requeue timer.  A pass is one action,
`SyncDNSStatus`, with the outcomes of the code: publish and ask for a
requeue if Progressing was suppressed; return early without an update when
Degraded=True was computed; fail to update.  Time is relative: ages stop at
the toleration plus one and timers count down, so that no bound on time is
needed.  A pass may run long after its timer is due.  The clock may be set back
(`ClockBack`), which makes an age negative: `lastTransitionTimeIsRecent` does not
take that for recent.  The wording of messages and the published cluster IP are
left out.

## ClusterOperatorStatus and Upgrade

`Upgrade` is the promise to the cluster-version operator: a reported version
moves to the version the operator is configured with and nowhere else, the two
containers of the DNS pods move together, and the operator's own version moves
only in a report with every operand at its new version.  It says nothing of
pods, conditions or failures.

`ClusterOperatorStatus` is the status controller.  State: the release that
runs; what the caches hold of the DNS (`dns`), of the daemonsets (`desired`)
and of their pods (`ready`), each arriving on its own; the ClusterOperator
(`co`); the queue.  A pass is one action, `Reconcile`, because it reads the
ClusterOperator once and its Update is guarded by the resource version;
`ReconcileFails` is a failure or a stop between creation and update.  (A failure
before or without them changes nothing; an update whose answer is lost looks
like `Reconcile`, since an update queues another pass anyway.)  The definitions
`Compute...` carry the names of the functions.  Others may write or delete the
ClusterOperator, and the operator may be replaced by another release at any
time.  The refinement mapping takes an empty and an `unknown` version to
"nothing reported".

Left out: reasons, messages, transition times and related objects.

## Corefile and CABundle

`Corefile` has the pure part: which bundles a spec refers to, the volumes of
the daemonset and the paths in the Corefile, `sanitizeTLSSettings`, the removal
of repeated upstreams, and the cache times.  Addresses are names with a capitals
flag.  A time is in milliseconds, is rounded to seconds and converted to the width
of the code's `uint32` (`TTLRange`, which the runs make 1024 because TLC computes
with 32 bits).  What the conversion makes of a number out of range depends on the
processor: it wraps around (`Wraps`) or stops at the largest number.
`ForwardsAsNamed` and `CachesAsGiven` say what a Corefile owes to its spec,
without the code's loop and rounding; `ResolvConfOnce` and `CachesRoundedDown`
say what the API documentation promises beyond that, and the code does not keep.
Zones, policies, log levels and layout are left out.

`CABundle` has the part of a pass that starts at `ensureCABundleConfigMaps` and
ends at the Corefile, one action per call: `EnsureCABundle` for each bundle in
turn, `RemoveUnreferred` from the cached list, `CABundleRevisionMap`,
`EnsureDNSDaemonSet`, `EnsureDNSConfigMap`, and the failure of each, which may
have taken effect.  State: the spec, the sources, the copies with their
resource versions, the cached list, the daemonset's volumes, the Corefile.
`Rejected` is the API server's rule that volume names are unique within a pod.
An error in one bundle does not keep the next from being copied; an error in
the daemonset keeps the Corefile from being written.  Others edit the DNS, the
sources and the copies; nobody but the operator edits the daemonset or the
Corefile here.  That they are put right again is `DNSController`'s matter
(`QuietMeansSettled`, with both among the objects that are watched).

## NodePlacement

State: the placement in the spec, the nodes on the API server and in the cache,
whether the daemonset has pods, its placement and image, the service's hints.
`Updated` is what `updateDNSDaemonSet` decides to write: an unsafe placement is
left out and the rest goes on.  `CheckDNSDaemonSet` decides, from the daemonset
and the cached lists of pods and nodes, and records them in the pass;
`UpdateDNSDaemonSet` writes, in a later step, and is refused if somebody else
has written the daemonset since (`fresh`).  Nodes may change in between, which
the code does not notice, so `NeverStranded` is about the nodes that the pass
has listed.  Pods and nodes are listed in one step although the code has two
calls: the events of the two are independent, so nothing is lost.  `NodeEvent`
is the filter in `New`.  `Comparable` stands for a defect of `cmpTolerations`:
it tests equality but is used as the "less" of `cmpopts.SortSlices`, whose
documentation asks for an irreflexive one
(`vendor/github.com/google/go-cmp/cmp/cmpopts/sort.go:24`).  With equal
neighbours in a list `cmp.Equal` panics; the panic is recovered and the pass
fails, each time.  The properties about the end of things leave such placements
out.  The daemonset exists from the start, and those who edit it give it
comparable tolerations.

## Runs

| run | asks |
|---|---|
| `deletion` | May the DNS disappear while its objects are made, or before they are torn down?  Does an Update, or the creation of the default DNS, undo an edit?  May the garbage collector take the daemonset, or an idle operator leave an object of the new DNS wrong?  (`FinalizerProtects`, `TeardownBeforeRelease`, `AdminEditsSurvive`, `DaemonSetNeverGarbage`, `QuietMeansSettled`: no)  Does the controller implement `DNSLifecycle`?  (`ImplementsLifecycle`: yes) |
| `drift` | Can an idle operator leave a watched object wrong, after edits, one failing call at any step, and restarts?  (`QuietMeansSettled`: no) |
| `liveness` | Does everything settle, and a deleted DNS go away, once others stop?  (`Convergence`, `DeletionCompletes`: yes) |
| `status` | Does Progressing flap, is a status lost, is a rollout or a recovery reported in the end?  (`NoFlapping`, `TransitionTimes`, `QuietMeansReported`, `ProgressingIsReported`, `RecoveryIsReported`) |
| `removed` | Violated: the documentation says `Removed` tears the components down; the code treats it as `Managed`. |
| `unavailable` | Violated: the comment of `syncDNSStatus` says the status is updated upon any change; when Degraded=True is computed it is not written, and neither is Available=False. |
| `clusteroperator` | Are versions reported too early, apart or never, is a condition stale at rest, is an unavailable DNS kept from the ClusterOperator, through upgrades, rollbacks and foreign writes?  (`ImplementsUpgrade`, `ReportedPaired`, `UpgradeIsReported`, `AtRestConditionsCurrent`, `UnavailableIsReported`: no) |
| `bundles` | Can CoreDNS be told of a file that is not mounted, a copy in use be deleted, a bundle be lost because another one fails, a copy be left for ever?  Can a resolver be lost, repeated or misplaced, or a cache time be wrong or zero?  (`FilesMountedWhenWritten`, `AtRestMounted`, `ReferredKept`, `AtRestCopies`, `BundleIsServed`, `UnreferredIsRemoved`; `AtRestForwards`, `AtRestCaches`: no) |
| `samebundle` | Violated: a comment on `caBundleRevisionMap` provides for one bundle with two servers; both volumes get the bundle's name, the API server rejects the daemonset, and the bundle is never served. |
| `rounding` | Violated: the CRD says that fractions of a second are rounded down in cache times; the code rounds to the nearest second. |
| `resolvconf` | Violated: the API documentation says that address and port of an upstream that is not of type Network are ignored; the code compares them, so that the Corefile may name `/etc/resolv.conf` twice. |
| `placement` | Can the daemonset lose its last node by the operator's hand, does a placement that was held back come into force, does it hold an image back, do the hints follow the nodes?  (`NeverStranded`: no; `PlacementIsApplied`, `ImageIsApplied`, `HintsFollowNodes`, `AtRestHints`: yes) |

Every property of a passing run has a mutant of the code's model that breaks
it (the definitions marked "Mutant" or "a plausible fault").

Bounds.  They differ from run to run:

| run | incarnations | edits | failing calls, at | restarts |
|---|---|---|---|---|
| `deletion` | 2 | 2, of the DNS, its creation included | 1, at the finalizer, teardown and release steps | any number |
| `drift` | 1 | 2, of the DNS, namespace, daemonset and service | 1, at every step, and at the creation of the DNS | any number |
| `liveness` | 2 | 1, of the DNS or daemonset | 1, at the deny-all policy, release and status steps | none |

Two incarnations of the DNS are enough for an object of the old one to meet a
pass of the new one.  Two edits allow a change and its counterpart, or changes
of the DNS and of an object, at any two points of a pass.  `liveness` is
smaller because TLC searches its whole graph for cycles: its three failing
steps are a sample, and it has no restart.  The last incarnation of a run is
not deleted, so `drift` has no deletion at all.  The safety theorems below
hold without any of these bounds.

In `status` the clusters differ from a healthy one of eleven pods in one respect
each, at the boundary of every comparison (two of eleven pods may be unavailable,
three may not).  The toleration is one tick, so that a pass can fall at the start
of it, on its edge and beyond; the clock is set back once (`MaxBack`), one update
fails.  `RecoveryIsReported` takes its notion of enough pods not from the code's
computation but from the fraction it stands for (`EnoughPods`).

In `clusteroperator` two releases share one image, so that pods of the old one
count for the new one; there are two DNS pods, one node-resolver pod, a healthy
DNS and one that is not, and one foreign write.  Events of the DNS, daemonsets
and pods, restarts and failures are not bounded.

In `bundles` there are two bundles with two contents, one of whose sources may
be unreadable for ever, two edits and one failing call.  The specs use no
bundle, one beside a TLS section left over from an earlier setting, both, one
for two servers, and TLS without a server name; their resolvers and cache times
lie at the boundaries of the comparisons (499, 999, 1499 and 1500 milliseconds,
and just out of the range of the conversion).  Two edits are a change and its
reversal, or a change of the spec and a renewal within one pass.  The refused
specs and the shared bundle are outside `BundleIsServed`.

In `placement` there are two nodes in six states (two zones and none, drained,
infra, control plane), four placements, two releases, two changes by others
and one failing write.  Two nodes in two zones are what the hints need, and
two changes can take away one node and then the other.

Fairness.  The worker, the requeue timers, the default-DNS loop (its read and its
creation each), the informer resync and the garbage collector go on for ever
(weak fairness): the first
four are goroutines of the process, the last one a controller of the cluster.
Nobody has to edit, fail or crash anything, and pods need not recover, which
is why `Convergence` excludes the external name service of a degraded DNS.
The later modules assume the same of the worker, of the cache, which catches up
with the API server, and of the resync, without which pods that become ready,
nodes that move between zones and placements that were held back would never
be noticed: no watch tells the controllers of them.  The weak fairness of the
worker is written out there as "idle again and again, or at work again and
again", which is the same formula without ENABLED.

## Proofs

`DNSControllerProofs` proves `TypeOK`, `FinalizerProtects`,
`TeardownBeforeRelease`, `AdminEditsSurvive`, `QuietMeansSettled`,
`DaemonSetNeverGarbage` and the refinement `ImplementsLifecycle` for every set
of specs, objects and fallible steps and all bounds, from `ConstantsAssumption`
alone.  None but the first is inductive.  The invariant `IInv` adds:

- `CopyInv`: a fresh copy equals the DNS, and a copy that is not fresh means
  another pass is queued;
- `HeldInv`: a copy with the finalizer means that the DNS is held by it, since
  only the pass itself removes it;
- `TornDownInv`: what the deletion has removed while no error was collected;
- `RouteInv`: where a pass can be, given its copy and its errors;
- `SettledInv`: while nothing asks for another pass, every watched object is
  settled except those the pass has still to ensure (`Pending`).

`SettledInv` is the heart of `NoLostWakeup`: each step either settles the next
object, or records an error or a queue entry, and every way out of a pass turns
a recorded error into a requeue.  The ensure actions share one effect
(`EnsureEffect`), so that one lemma covers them all.

For the refinement `LifeInv` is added: a deleted DNS that is still there is
held, operands belong to a DNS that is held, and the owner of the daemonset is
the DNS there is.  A step changes either the operands or the DNS
(`NextOperands`, `OthersKeepDNS`).  In the first case it is an `Install`, for a
DNS that is held by `HeldInv`, or an `Uninstall`; in the second a `Create`,
`Hold`, `Delete` or `Release`, or a stutter, and that nothing is installed at
a `Release` is `TornDownInv`.  `DaemonSetNeverGarbage` follows from `LifeInv`.

`DNSStatusProofs` proves `TypeOK`, `QuietMeansReported`, `NoFlapping` and
`TransitionTimes` from `StatusAssumption`.  `QuietMeansReported` is inductive
beside `TypeOK`: only a pass that found nothing to write and suppressed nothing
leaves queue and timer empty.
`DegradedThreshold` compares the code's integer computation with the fraction it
stands for, for every number of pods.
`DegradedNeverPublished` generalises what the run `unavailable` shows: the code
publishes Degraded=True of no cluster at all, because the pass that computes it
returns before the update.

`ClusterOperatorStatusProofs` proves `TypeOK`, `AtRestConditionsCurrent`,
`ReportedPaired` and the refinement `ImplementsUpgrade` for every set of
releases, pods and conditions, from `ReleaseAssumption`.  A pass that changes
nothing found its conditions current, and every other step queues a request or
leaves what the conditions depend on alone; `MergeReplacesAll` is the lemma
that the merged conditions do not depend on those that were there.  For the
refinement each step is a `Report`, a `Retarget`, a `Forget` or a stutter;
`ReportedPaired` then follows from the refinement, by an invariant of
`Upgrade`.

`CABundleProofs` proves `AtRestMounted`, `FilesMountedWhenWritten` and
`ReferredKept` for any bundles, specs and bounds, from `BundleAssumption`.  The
inductive invariant says what a running pass knows: the revisions it has read
are those of the copies, unless a request is queued or an event under way
(`RevisionsRead`); past the
daemonset its volumes are those of these revisions (`VolumesKnown`); and
at rest the files of the Corefile are among them (`FilesKnown`).

`CABundleRestProofs` adds `TypeOK`, `AtRestCopies`, `AtRestForwards` and
`AtRestCaches`.
`AtRestCopies` depends on the list that a pass works off: `Typed` says that it
holds just bundles of the pass's spec, and `Known` that, unless a request is
queued or an event under way, the cached list is the list of copies
(`CacheKnown`), the spec of the pass is the spec (`SpecKnown`), every bundle
that is neither on the list any more nor failed is copied as its source is
(`SyncKnown`), what is not referred to is gone after the removal
(`RemovalKnown`), and the Corefile is that of the spec (`CorefileKnown`).  A
pass that failed leaves a request behind, so that none of this is owed at rest.

`CorefileProofs` proves that the Corefile of a spec with any list of resolvers
satisfies `ForwardsAsNamed` (`ForwardsRight`), that with any cache times, any
width and either conversion it satisfies `CachesAsGiven` (`CachesRight`, from
`TTLAssumption`), and that the bundles listed by the loop are those referred to.
The loops are recursive functions; what they compute is shown by induction on
the length of the list, in the form of one lemma about sets of numbers
(`InductionOverSet`, from the well-foundedness of the order on `Nat`): the
installed provers cannot instantiate the library's induction theorems, whose
parameter is an operator.

`NodePlacementProofs` proves `TypeOK`, `AtRestHints`, `NeverStranded` and that
placements are never mixed, for any nodes and placements, from `NodeAssumption`.
For `AtRestHints` the lemma that matters is that an event which the filter drops
does not change which nodes count, whether they are valid, or their zones, unless
a node has moved between zones.  For `NeverStranded` the invariant `Checked` carries
the check over to the write: as long as a pass is fresh, what it is about to write
keeps the placement of the daemonset, or has a node among those listed, or no pod
was listed.

Every invariant, action property and refinement of a passing run is proved.
Only model-checked: the liveness properties, since TLAPS does not reason about
fairness and ENABLED, and the violations, which are counterexamples.

## Seen while modelling

- The comment of `ensureDNSDeleted` (`controller.go:378`) says that configmap and
  service are owned by the daemonset and go with it.  They carry an owner
  reference to the DNS (`dnsOwnerRef`; `desiredDNSService` does not use its
  parameter `daemonsetRef`) and stay until the DNS is gone.
- `ensureDNS` empties the cluster IP "to cause ClusterOperator to report
  Available=False and Degraded=True" (`controller.go:595`).  Progressing=True is
  published instead, which keeps Degraded at False; `DegradedNeverPublished`
  covers the rest.
- The comment of `coreDNSCache` and its tests agree with the code on rounding to
  the nearest second; it is the CRD that says otherwise.
- `caBundleRevisionMap` takes a copy it cannot read for one that does not
  exist.  The bundle is then left out until the next pass.
- A spec that `sanitizeTLSSettings` refuses does not keep the daemonset from
  being updated.  If a bundle is renewed meanwhile, the Corefile that stands
  names a path that is not mounted any more, until the spec is corrected.
- A version counts as reached if no pods are desired, and so also if the
  daemonset does not exist yet.

## Not modelled

- The node-resolver script: a shell program on the nodes, embedded as text.
  The operator neither sees its state nor takes part in its steps.
- A second operator process during a rollout.  Updates of the DNS and of the
  ClusterOperator are guarded by resource versions whoever sends them; a second
  worker squares the state of a pass, beyond TLC with the objects of
  `DNSController`.
- The TLS profile and the kube-rbac-proxy arguments: a table of cipher names.
- The minimum of retry times: a pass has at most one retryable error.
- Log levels, policies and logging, the set-up of the manager and the wait for
  feature gates at start, embedded manifests and names.
