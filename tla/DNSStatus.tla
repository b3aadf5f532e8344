------------------------------ MODULE DNSStatus ------------------------------
(***************************************************************************)
(* The status of the DNS "default" (dns_status.go): the four conditions    *)
(* that syncDNSStatus computes from the daemonsets and the service's       *)
(* cluster IP, how it keeps Progressing and Degraded from flapping, and    *)
(* when it asks for another pass.                                          *)
(*                                                                         *)
(* Time is relative.  A condition carries its age, the time since its      *)
(* LastTransitionTime, and the requeue timer the time that is left; both   *)
(* stop where no comparison of the code can tell any more, so that time    *)
(* itself needs no bound.  A clock that is set back makes ages smaller,    *)
(* even negative, but not the time that is left.  DNSController models the *)
(* pass around this step: here a pass is one action.                       *)
(***************************************************************************)
EXTENDS Integers

CONSTANTS
    Worlds,     \* what a pass may find in the cluster
    Toleration, \* transitionUnchangedToleration, in ticks
    MaxBack,    \* bound: ticks by which the clock is set back
    MaxFails    \* bound: failing updates of the status

VARIABLES
    world,      \* the daemonsets, the cluster IP, the management state
    cond,       \* the published conditions
    queued,     \* whether the work queue holds the DNS
    timer,      \* the time until a requeue, NoTimer if there is none
    back,       \* by how much the clock has been set back
    fails       \* how many updates have failed

vars == <<world, cond, queued, timer, back, fails>>

\* What syncDNSStatus looks at: the cluster IP, the DNS daemonset (its
\* numbers and whether its placement is the one the spec asks for), the
\* node-resolver daemonset and the management state.
World == [ip : BOOLEAN, ds : BOOLEAN, want : Nat, updated : Nat, available : Nat,
          placed : BOOLEAN, resolver : BOOLEAN, resolverWant : Nat,
          resolverUpdated : Nat, unmanaged : BOOLEAN]

ASSUME StatusAssumption ==
    /\ Worlds \subseteq World /\ Worlds # {}
    /\ Toleration \in Nat /\ MaxBack \in Nat /\ MaxFails \in Nat

\* An age at which a condition is not recent, nor will be after the clock has
\* been set back.
MaxAge == Toleration + 1 + MaxBack
Condition == [status : {"True", "False", "None"}, age : -MaxBack .. MaxAge]
None == [status |-> "None", age |-> MaxAge]
Types == {"Progressing", "Available", "Upgradeable", "Degraded"}

NoTimer == -1

-----------------------------------------------------------------------------
(* The conditions.                                                         *)

\* setDNSLastTransitionTime: a changed status has just changed.
SetDNSLastTransitionTime(status, old) ==
    IF old.status = status THEN old ELSE [status |-> status, age |-> 0]

\* Mutant: the toleration is not looked at.
NeverRecent(age) == FALSE

\* lastTransitionTimeIsRecent.  A transition in the future is not recent.
LastTransitionTimeIsRecent(age) == 0 <= age /\ age <= Toleration

\* A condition that became False only just now stays False.
Suppressed(old) == old.status = "False" /\ LastTransitionTimeIsRecent(old.age)

\* What computeDNSProgressingCondition collects messages for.
IsProgressing(w) ==
    \/ ~w.ip
    \/ ~w.ds
    \/ w.ds /\ (w.updated < w.want \/ ~w.placed)
    \/ ~w.resolver
    \/ w.resolver /\ w.resolverUpdated < w.resolverWant

ComputeDNSProgressingCondition(old, w) ==
    IF IsProgressing(w) /\ Suppressed(old) THEN old
    ELSE SetDNSLastTransitionTime(IF IsProgressing(w) THEN "True" ELSE "False", old)

\* Mutant: every condition computed starts a new transition.
ComputeDNSAvailableConditionAnew(old, w) ==
    [status |-> IF w.ip /\ w.ds /\ w.available # 0 THEN "True" ELSE "False", age |-> 0]

IsAvailable(w) == w.ip /\ w.ds /\ w.available # 0
ComputeDNSAvailableCondition(old, w) ==
    SetDNSLastTransitionTime(IF IsAvailable(w) THEN "True" ELSE "False", old)

ComputeDNSUpgradeableCondition(old, w) ==
    SetDNSLastTransitionTime(IF w.unmanaged THEN "False" ELSE "True", old)

\* A plausible fault: the percentage is rounded down.
MaxUnavailableRoundedDown(want) == want \div 10

\* Ten percent of the pods, rounded up, may be unavailable.
MaxUnavailable(want) == (want + 9) \div 10

IsDegraded(w) ==
    \/ ~w.ip
    \/ ~w.ds
    \/ w.ds /\ \/ w.want = 0
               \/ w.available = 0
               \/ w.want - w.available > MaxUnavailable(w.want)

\* Mutant: nothing decides a degraded operator that progresses, and the
\* Unknown the condition starts with stays.
ComputeDNSDegradedConditionUnset(old, newProg, w) ==
    IF IsDegraded(w) /\ Suppressed(old) THEN old
    ELSE SetDNSLastTransitionTime(
            IF ~IsDegraded(w) THEN "False"
            ELSE IF newProg.status = "True" THEN "Unknown" ELSE "True", old)

\* Degraded waits until the operator no longer progresses.
ComputeDNSDegradedCondition(old, newProg, w) ==
    IF IsDegraded(w) /\ Suppressed(old) THEN old
    ELSE SetDNSLastTransitionTime(
            IF IsDegraded(w) /\ newProg.status # "True" THEN "True" ELSE "False", old)

-----------------------------------------------------------------------------
(* A pass.                                                                 *)

ComputeDNSStatusConditions(old, w) ==
    LET newProg == ComputeDNSProgressingCondition(old["Progressing"], w)
    IN  [t \in Types |->
            CASE t = "Progressing" -> newProg
              [] t = "Available" -> ComputeDNSAvailableCondition(old[t], w)
              [] t = "Upgradeable" -> ComputeDNSUpgradeableCondition(old[t], w)
              [] t = "Degraded" -> ComputeDNSDegradedCondition(old[t], newProg, w)]

\* A delayed requeue keeps an earlier one.
Sooner(a, b) == IF a = NoTimer \/ (b # NoTimer /\ b < a) THEN b ELSE a

\* Mutant: a suppressed Progressing is forgotten.
NoProgressingTimer == NoTimer

\* A suppressed Progressing asks for a pass after the toleration.
ProgressingTimer ==
    IF IsProgressing(world) /\ Suppressed(cond["Progressing"]) THEN Toleration ELSE NoTimer

\* syncDNSStatus.  Without an error the conditions are written if they
\* differ, and then the watch on the DNS enqueues it again (a write that
\* changes only the wording of a message is left out).  Degraded=True
\* comes with a retryable error and syncDNSStatus returns before the update:
\* Reconcile requeues after the toleration; in the Unmanaged branch the error
\* is wrapped and the rate limiter requeues, as it does if the update fails.
SyncDNSStatus ==
    LET new == ComputeDNSStatusConditions(cond, world)
        isDegraded == new["Degraded"].status = "True"
    IN  /\ queued
        /\ \/ /\ ~isDegraded
              /\ cond' = new /\ queued' = (new # cond)
              /\ timer' = Sooner(timer, ProgressingTimer)
              /\ UNCHANGED fails
           \/ /\ isDegraded
              /\ queued' = FALSE
              /\ timer' = Sooner(timer, IF world.unmanaged THEN 0 ELSE Toleration)
              /\ UNCHANGED <<cond, fails>>
           \/ /\ ~isDegraded /\ new # cond
              /\ fails < MaxFails /\ fails' = fails + 1
              /\ queued' = FALSE /\ timer' = 0
              /\ UNCHANGED cond
        /\ UNCHANGED <<world, back>>

RequeueDue ==
    /\ timer = 0
    /\ timer' = NoTimer /\ queued' = TRUE
    /\ UNCHANGED <<world, cond, back, fails>>

-----------------------------------------------------------------------------
(* The cluster and time.                                                   *)

\* Anything syncDNSStatus looks at changes; the watches enqueue the DNS.
ChangeWorld ==
    /\ \E w \in Worlds : w # world /\ world' = w
    /\ queued' = TRUE
    /\ UNCHANGED <<cond, timer, back, fails>>

Older(c) == [c EXCEPT !.age = IF @ < MaxAge THEN @ + 1 ELSE @]

\* Time passes, possibly past the moment a timer is due.
Tick ==
    /\ cond' = [t \in Types |-> Older(cond[t])]
    /\ timer' = IF timer > 0 THEN timer - 1 ELSE timer
    /\ UNCHANGED <<world, queued, back, fails>>

Younger(c) == [c EXCEPT !.age = @ - 1]

\* The clock is set back by a tick, and with it the ages.
ClockBack ==
    /\ back < MaxBack /\ back' = back + 1
    /\ cond' = [t \in Types |-> Younger(cond[t])]
    /\ UNCHANGED <<world, queued, timer, fails>>

\* A restart loses the queue and its timers; the first list of the DNS
\* enqueues it.
Restart ==
    /\ queued' = TRUE /\ timer' = NoTimer
    /\ UNCHANGED <<world, cond, back, fails>>

Init ==
    /\ world \in Worlds
    /\ cond = [t \in Types |-> None]
    /\ queued = TRUE /\ timer = NoTimer
    /\ back = 0 /\ fails = 0

Next == SyncDNSStatus \/ RequeueDue \/ ChangeWorld \/ Tick \/ ClockBack \/ Restart

Spec == Init /\ [][Next]_vars

\* The worker runs a queued pass, timers fire and time passes; the cluster
\* need not change and nothing has to fail.
Fairness == WF_vars(SyncDNSStatus) /\ WF_vars(RequeueDue) /\ WF_vars(Tick)

FairSpec == Spec /\ Fairness

-----------------------------------------------------------------------------
(* Properties.                                                             *)

\* Type correctness; a published condition is never Unknown, and its
\* transition is in the future only by as much as the clock was set back.
TypeOK ==
    /\ world \in Worlds
    /\ cond \in [Types -> Condition]
    /\ queued \in BOOLEAN
    /\ timer \in NoTimer .. Toleration
    /\ back \in 0 .. MaxBack /\ \A t \in Types : cond[t].age >= -back
    /\ fails \in 0 .. MaxFails

\* The flap protection of computeDNSProgressingCondition: Progressing never
\* goes from False to True while its last transition is within the
\* toleration, across restarts and delayed passes, because the only memory
\* is the published condition itself.  A clock that was set back behind the
\* transition takes the protection away.
NoFlapping ==
    [][cond["Progressing"].status = "False" /\ cond'["Progressing"].status = "True"
        => cond["Progressing"].age \notin 0 .. Toleration]_vars

\* setDNSLastTransitionTime: a condition's LastTransitionTime is renewed
\* exactly when its status changes, so that the age counts from there; else
\* an age shrinks only with the clock.
TransitionTimes ==
    [][\A t \in Types :
        /\ cond'[t].status # cond[t].status => cond'[t].age = 0
        /\ cond'[t].age < cond[t].age =>
              cond'[t].status # cond[t].status \/ back' # back]_vars

\* What the conditions should say of the cluster.
Holds(t) ==
    CASE t = "Progressing" -> IsProgressing(world)
      [] t = "Available" -> IsAvailable(world)
      [] t = "Upgradeable" -> ~world.unmanaged
      [] t = "Degraded" -> IsDegraded(world) /\ ~IsProgressing(world)

Reported(t) == cond[t].status = IF Holds(t) THEN "True" ELSE "False"

\* No status is lost: when no pass is queued or due, Progressing, Available
\* and Upgradeable say what the cluster is like, although a pass may have
\* kept back Progressing, or everything (the early return of syncDNSStatus
\* for Degraded=True).
QuietMeansReported ==
    ~queued /\ timer = NoTimer
        => \A t \in Types \ {"Degraded"} : Reported(t)

\* A rollout that goes on is reported in the end, although Progressing=True
\* is first suppressed and Degraded=True keeps every update back meanwhile.
ProgressingIsReported ==
    IsProgressing(world) ~> cond["Progressing"].status = "True" \/ ~IsProgressing(world)

\* Of the pods that are wanted, fewer than a tenth and one more are missing.
EnoughPods(w) == w.want > 0 /\ w.available > 0 /\ 10 * (w.want - w.available) < w.want + 10

Healthy(w) ==
    /\ w.ip /\ w.ds /\ w.resolver /\ w.placed
    /\ EnoughPods(w)
    /\ w.updated >= w.want /\ w.resolverUpdated >= w.resolverWant

\* A healthy DNS is reported as such in the end, at the very number of pods
\* from which on it is healthy.
RecoveryIsReported ==
    Healthy(world) ~> \/ /\ cond["Progressing"].status = "False"
                         /\ cond["Degraded"].status = "False"
                         /\ cond["Available"].status = "True"
                         /\ Reported("Upgradeable")
                      \/ ~Healthy(world)

(* What the repository says and the code does otherwise.                   *)

\* syncDNSStatus "updates status upon any changes since last sync": that no
\* DNS pod is available any more reaches the published Available condition.
UnavailableIsReported ==
    ~IsAvailable(world) ~> cond["Available"].status = "False" \/ IsAvailable(world)

=============================================================================
