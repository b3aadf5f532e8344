--------------------------- MODULE DNSStatusProofs ---------------------------
(***************************************************************************)
(* Proofs about DNSStatus, for every set of clusters and every toleration: *)
(* the conditions keep their type, Progressing does not flap, transition   *)
(* times move only with the status, no status is lost, and Degraded is     *)
(* never published as True.                                                *)
(***************************************************************************)
EXTENDS DNSStatus, TLAPS

\* A recorded transition is a condition again.
LEMMA SetType ==
    ASSUME NEW old \in Condition, NEW s \in {"True", "False"}
    PROVE  SetDNSLastTransitionTime(s, old) \in Condition
BY StatusAssumption DEF SetDNSLastTransitionTime, Condition, MaxAge

\* Each condition a pass computes is one, and has the status of the old one
\* or a new transition.
LEMMA ComputeType ==
    ASSUME NEW old \in [Types -> Condition], NEW w \in Worlds
    PROVE  ComputeDNSStatusConditions(old, w) \in [Types -> Condition]
<1> DEFINE newProg == ComputeDNSProgressingCondition(old["Progressing"], w)
<1>1. newProg \in Condition
  BY SetType DEF ComputeDNSProgressingCondition, Types
<1>2. ComputeDNSAvailableCondition(old["Available"], w) \in Condition
  BY SetType DEF ComputeDNSAvailableCondition, Types
<1>3. ComputeDNSUpgradeableCondition(old["Upgradeable"], w) \in Condition
  BY SetType DEF ComputeDNSUpgradeableCondition, Types
<1>4. ComputeDNSDegradedCondition(old["Degraded"], newProg, w) \in Condition
  BY SetType DEF ComputeDNSDegradedCondition, Types
<1> QED
  BY <1>1, <1>2, <1>3, <1>4 DEF ComputeDNSStatusConditions, Types

\* Its transition is the old one or is now.
LEMMA AgeKeptOrZero ==
    ASSUME NEW old \in [Types -> Condition], NEW w, NEW t \in Types
    PROVE  LET age == ComputeDNSStatusConditions(old, w)[t].age
           IN  age = old[t].age \/ age = 0
<1> DEFINE newProg == ComputeDNSProgressingCondition(old["Progressing"], w)
           new == ComputeDNSStatusConditions(old, w)
<1>1. ASSUME NEW c, NEW s
      PROVE  LET age == SetDNSLastTransitionTime(s, c).age IN age = c.age \/ age = 0
  BY DEF SetDNSLastTransitionTime
<1>2. /\ new["Progressing"] = newProg
      /\ new["Available"] = ComputeDNSAvailableCondition(old["Available"], w)
      /\ new["Upgradeable"] = ComputeDNSUpgradeableCondition(old["Upgradeable"], w)
      /\ new["Degraded"] = ComputeDNSDegradedCondition(old["Degraded"], newProg, w)
  BY DEF ComputeDNSStatusConditions, Types
<1> HIDE DEF new
<1>3. CASE t = "Progressing"
  BY <1>1, <1>2, <1>3 DEF ComputeDNSProgressingCondition, new
<1>4. CASE t = "Available"
  BY <1>1, <1>2, <1>4 DEF ComputeDNSAvailableCondition, new
<1>5. CASE t = "Upgradeable"
  BY <1>1, <1>2, <1>5 DEF ComputeDNSUpgradeableCondition, new
<1> HIDE DEF newProg
<1>6. CASE t = "Degraded"
  BY <1>1, <1>2, <1>6 DEF ComputeDNSDegradedCondition, new
<1> QED
  BY <1>3, <1>4, <1>5, <1>6 DEF Types

\* Time leaves a condition a condition, of the same status and no younger.
LEMMA OlderFacts ==
    ASSUME NEW c \in Condition
    PROVE  /\ Older(c) \in Condition
           /\ Older(c).status = c.status
           /\ Older(c).age >= c.age
BY StatusAssumption DEF Older, Condition, MaxAge

\* So does setting the clock back, which makes it younger by a tick.
LEMMA YoungerFacts ==
    ASSUME NEW c \in Condition
    PROVE  /\ Younger(c).status = c.status
           /\ Younger(c).age = c.age - 1
           /\ c.age > -MaxBack => Younger(c) \in Condition
BY StatusAssumption DEF Younger, Condition, MaxAge

\* The requeue timer stays within the toleration.
LEMMA SoonerType ==
    ASSUME NEW a \in NoTimer .. Toleration, NEW b \in NoTimer .. Toleration
    PROVE  Sooner(a, b) \in NoTimer .. Toleration
BY DEF Sooner

\* Every step keeps the type invariant.
LEMMA NextType == TypeOK /\ [Next]_vars => TypeOK'
<1> SUFFICES ASSUME TypeOK, [Next]_vars PROVE TypeOK'
  OBVIOUS
<1> USE StatusAssumption
<1>t. /\ Toleration \in NoTimer .. Toleration /\ 0 \in NoTimer .. Toleration
      /\ NoTimer \in NoTimer .. Toleration
  BY DEF NoTimer
<1>1. CASE SyncDNSStatus
  <2>1. ComputeDNSStatusConditions(cond, world) \in [Types -> Condition]
    BY ComputeType DEF TypeOK
  <2>2. cond' \in [Types -> Condition]
    BY <1>1, <2>1 DEF SyncDNSStatus, TypeOK
  <2>3. timer' \in NoTimer .. Toleration
    <3>1. ProgressingTimer \in NoTimer .. Toleration
      BY <1>t DEF ProgressingTimer
    <3> QED
      BY Zenon, <1>1, <1>t, <3>1, SoonerType DEF SyncDNSStatus, TypeOK
  <2>4. fails' \in 0 .. MaxFails
    BY <1>1 DEF SyncDNSStatus, TypeOK
  <2>5. queued' \in BOOLEAN
    BY <1>1, Zenon DEF SyncDNSStatus, TypeOK
  <2>6. back' = back
    BY <1>1 DEF SyncDNSStatus
  <2>7. \A t \in Types : cond'[t].age >= -back'
    <3>1. cond' = cond \/ cond' = ComputeDNSStatusConditions(cond, world)
      BY <1>1, Zenon DEF SyncDNSStatus
    <3>2. ASSUME NEW t \in Types
          PROVE  cond'[t].age >= -back'
      <4>1. cond'[t].age = cond[t].age \/ cond'[t].age = 0
        BY <3>1, AgeKeptOrZero DEF TypeOK
      <4> QED
        BY <2>6, <4>1 DEF TypeOK
    <3> QED
      BY <3>2
  <2> QED
    BY <1>1, <2>2, <2>3, <2>4, <2>5, <2>6, <2>7 DEF SyncDNSStatus, TypeOK
<1>2. CASE RequeueDue
  BY <1>2, <1>t DEF RequeueDue, TypeOK
<1>3. CASE ChangeWorld
  BY <1>3 DEF ChangeWorld, TypeOK
<1>4. CASE Tick
  <2>1. cond' \in [Types -> Condition]
    BY <1>4, OlderFacts DEF Tick, TypeOK
  <2>2. timer' \in NoTimer .. Toleration
    BY <1>4 DEF Tick, TypeOK, NoTimer
  <2>3. \A t \in Types : cond'[t].age >= -back'
    BY <1>4, OlderFacts DEF Tick, TypeOK, Condition, MaxAge
  <2> QED
    BY <1>4, <2>1, <2>2, <2>3 DEF Tick, TypeOK
<1>5. CASE ClockBack
  <2>1. back \in 0 .. MaxBack /\ back < MaxBack /\ back' = back + 1
    BY <1>5 DEF ClockBack, TypeOK
  <2>2. ASSUME NEW t \in Types
        PROVE  cond'[t] \in Condition /\ cond'[t].age >= -back'
    <3>1. cond[t] \in Condition /\ cond[t].age >= -back /\ cond[t].age \in Int
      BY DEF TypeOK, Condition, MaxAge
    <3>2. cond[t].age > -MaxBack
      BY <2>1, <3>1
    <3>3. cond'[t] = Younger(cond[t])
      BY <1>5 DEF ClockBack
    <3> QED
      BY <2>1, <3>1, <3>2, <3>3, YoungerFacts
  <2>3. cond' \in [Types -> Condition]
    BY <1>5, <2>2 DEF ClockBack
  <2>4. back' \in 0 .. MaxBack
    BY <2>1
  <2> QED
    BY <1>5, <2>2, <2>3, <2>4 DEF ClockBack, TypeOK
<1>6. CASE Restart
  BY <1>6, <1>t DEF Restart, TypeOK
<1>7. CASE UNCHANGED vars
  BY <1>7 DEF vars, TypeOK
<1> QED
  BY <1>1, <1>2, <1>3, <1>4, <1>5, <1>6, <1>7 DEF Next

\* The conditions and the timer keep their types, for every toleration; in
\* particular no pass publishes an undecided condition.
THEOREM TypeCorrect == Spec => []TypeOK
<1>1. Init => TypeOK
  BY StatusAssumption DEF Init, TypeOK, None, Condition, MaxAge, NoTimer
<1> QED
  BY <1>1, NextType, PTL DEF Spec

\* What a pass that leaves a condition as it is says about it.
LEMMA UnchangedIsReported ==
    ASSUME TypeOK, ComputeDNSStatusConditions(cond, world) = cond,
           ProgressingTimer = NoTimer
    PROVE  \A t \in Types \ {"Degraded"} : Reported(t)
<1> USE StatusAssumption DEF NoTimer, Types
<1>1. /\ cond["Progressing"] = ComputeDNSProgressingCondition(cond["Progressing"], world)
      /\ cond["Available"] = ComputeDNSAvailableCondition(cond["Available"], world)
      /\ cond["Upgradeable"] = ComputeDNSUpgradeableCondition(cond["Upgradeable"], world)
  BY DEF ComputeDNSStatusConditions
<1>2. Reported("Progressing")
  <2>1. ~(IsProgressing(world) /\ Suppressed(cond["Progressing"]))
    BY DEF ProgressingTimer
  <2> QED
    BY <1>1, <2>1
       DEF ComputeDNSProgressingCondition, SetDNSLastTransitionTime, Reported, Holds
<1>3. Reported("Available")
  BY <1>1 DEF ComputeDNSAvailableCondition, SetDNSLastTransitionTime, Reported, Holds
<1>4. Reported("Upgradeable")
  BY <1>1 DEF ComputeDNSUpgradeableCondition, SetDNSLastTransitionTime, Reported, Holds
<1> QED
  BY <1>2, <1>3, <1>4

\* Every step keeps QuietMeansReported: only a pass that finds nothing to
\* write and suppresses nothing leaves the queue and the timer empty.
LEMMA NextReported == TypeOK /\ QuietMeansReported /\ [Next]_vars => QuietMeansReported'
<1> SUFFICES ASSUME TypeOK, QuietMeansReported, [Next]_vars, ~queued', timer' = NoTimer
             PROVE  (\A t \in Types \ {"Degraded"} : Reported(t))'
  BY DEF QuietMeansReported
<1> USE StatusAssumption
<1>1. CASE SyncDNSStatus
  <2>1. /\ timer = NoTimer /\ ProgressingTimer = NoTimer
        /\ ComputeDNSStatusConditions(cond, world) = cond
        /\ UNCHANGED <<cond, world>>
    <3> DEFINE new == ComputeDNSStatusConditions(cond, world)
    <3> HIDE DEF new
    <3>1. UNCHANGED world
      BY <1>1 DEF SyncDNSStatus
    <3>2. cond' = new /\ queued' = (new # cond) /\ timer' = Sooner(timer, ProgressingTimer)
      <4>1. \/ cond' = new /\ queued' = (new # cond) /\ timer' = Sooner(timer, ProgressingTimer)
            \/ timer' = Sooner(timer, IF world.unmanaged THEN 0 ELSE Toleration)
            \/ timer' = 0
        BY <1>1, Zenon DEF SyncDNSStatus, new
      <4>2. timer' # Sooner(timer, 0) /\ timer' # Sooner(timer, Toleration) /\ timer' # 0
        BY DEF Sooner, NoTimer, TypeOK
      <4> QED
        BY <4>1, <4>2, Zenon
    <3>3. new = cond
      BY <3>2, Zenon
    <3>4. timer = NoTimer /\ ProgressingTimer = NoTimer
      BY <3>2 DEF Sooner, NoTimer, TypeOK, ProgressingTimer
    <3> QED
      BY <3>1, <3>2, <3>3, <3>4 DEF new
  <2>2. \A t \in Types \ {"Degraded"} : Reported(t)
    BY <2>1, UnchangedIsReported
  <2> QED
    BY Zenon, <2>1, <2>2 DEF Reported, Holds
<1>2. CASE Tick
  <2>1. ~queued /\ timer = NoTimer /\ UNCHANGED world
    BY <1>2 DEF Tick, TypeOK, NoTimer
  <2>2. \A t \in Types : cond'[t].status = cond[t].status
    BY <1>2, OlderFacts DEF Tick, TypeOK
  <2> QED
    BY Zenon, <2>1, <2>2 DEF QuietMeansReported, Reported, Holds
<1>3. CASE ClockBack
  <2>1. ~queued /\ timer = NoTimer /\ UNCHANGED world
    BY <1>3 DEF ClockBack
  <2>2. \A t \in Types : cond'[t].status = cond[t].status
    BY <1>3, YoungerFacts DEF ClockBack, TypeOK
  <2> QED
    BY Zenon, <2>1, <2>2 DEF QuietMeansReported, Reported, Holds
<1>4. CASE UNCHANGED vars
  BY Zenon, <1>4 DEF vars, QuietMeansReported, Reported, Holds
<1> QED
  BY <1>1, <1>2, <1>3, <1>4 DEF Next, RequeueDue, ChangeWorld, Restart

\* No status is lost, for every toleration and any number of clusters: an
\* idle operator has published Progressing, Available and Upgradeable.
THEOREM NoLostStatus == Spec => []QuietMeansReported
<1>1. Init => QuietMeansReported
  BY DEF Init, QuietMeansReported
<1> QED
  BY <1>1, NextReported, TypeCorrect, PTL DEF Spec

\* Progressing does not flap: the suppression in
\* computeDNSProgressingCondition alone protects it, whatever happens to the
\* queue and the process.
THEOREM ProgressingDoesNotFlap == Spec => NoFlapping
<1> DEFINE NoFlap == cond["Progressing"].status = "False" /\ cond'["Progressing"].status = "True"
                        => cond["Progressing"].age \notin 0 .. Toleration
<1>1. ASSUME TypeOK, [Next]_vars PROVE [NoFlap]_vars
  <2> SUFFICES ASSUME cond["Progressing"].status = "False", cond'["Progressing"].status = "True"
               PROVE  cond["Progressing"].age \notin 0 .. Toleration
    OBVIOUS
  <2>0. cond["Progressing"] \in Condition
    BY <1>1 DEF TypeOK, Types
  <2>1. CASE SyncDNSStatus
    <3>1. cond'["Progressing"] = ComputeDNSProgressingCondition(cond["Progressing"], world)
      BY <2>1 DEF SyncDNSStatus, ComputeDNSStatusConditions, Types
    <3>2. ~Suppressed(cond["Progressing"])
      BY <3>1 DEF ComputeDNSProgressingCondition, SetDNSLastTransitionTime
    <3> QED
      BY <2>0, <3>2, StatusAssumption
         DEF Suppressed, LastTransitionTimeIsRecent, Condition, MaxAge
  <2>2. CASE Tick
    BY <2>0, <2>2, OlderFacts DEF Tick, Types
  <2>3. CASE ClockBack
    BY <2>0, <2>3, YoungerFacts DEF ClockBack, Types
  <2>4. CASE UNCHANGED cond
    BY <2>4
  <2> QED
    BY <1>1, <2>1, <2>2, <2>3, <2>4 DEF Next, RequeueDue, ChangeWorld, Restart, vars
<1> QED
  BY <1>1, TypeCorrect, PTL DEF Spec, NoFlapping

-----------------------------------------------------------------------------
\* The transition time of a condition moves with its status.
TimeFollows(old, new) ==
    /\ new.status # old.status => new.age = 0
    /\ new.age < old.age => new.status # old.status

\* setDNSLastTransitionTime sees to it.
LEMMA SetFollows ==
    ASSUME NEW old \in Condition, NEW s
    PROVE  TimeFollows(old, SetDNSLastTransitionTime(s, old))
BY StatusAssumption DEF TimeFollows, SetDNSLastTransitionTime, Condition, MaxAge

\* A condition that is kept, suppressed ones included, keeps its time.
LEMMA KeptFollows ==
    ASSUME NEW old \in Condition
    PROVE  TimeFollows(old, old)
BY StatusAssumption DEF TimeFollows, Condition, MaxAge

\* So does each of the four computations of a condition.
LEMMA ComputeFollows ==
    ASSUME NEW old \in [Types -> Condition], NEW w, NEW t \in Types
    PROVE  TimeFollows(old[t], ComputeDNSStatusConditions(old, w)[t])
<1> DEFINE newProg == ComputeDNSProgressingCondition(old["Progressing"], w)
           new == ComputeDNSStatusConditions(old, w)
<1>1. TimeFollows(old["Progressing"], newProg)
  BY SetFollows, KeptFollows DEF ComputeDNSProgressingCondition, Types
<1>2. TimeFollows(old["Available"], ComputeDNSAvailableCondition(old["Available"], w))
  BY SetFollows DEF ComputeDNSAvailableCondition, Types
<1>3. TimeFollows(old["Upgradeable"],
                  ComputeDNSUpgradeableCondition(old["Upgradeable"], w))
  BY SetFollows DEF ComputeDNSUpgradeableCondition, Types
<1>4. TimeFollows(old["Degraded"],
                  ComputeDNSDegradedCondition(old["Degraded"], newProg, w))
  BY SetFollows, KeptFollows DEF ComputeDNSDegradedCondition, Types
<1>5. /\ new["Progressing"] = newProg
      /\ new["Available"] = ComputeDNSAvailableCondition(old["Available"], w)
      /\ new["Upgradeable"] = ComputeDNSUpgradeableCondition(old["Upgradeable"], w)
      /\ new["Degraded"] = ComputeDNSDegradedCondition(old["Degraded"], newProg, w)
  BY DEF ComputeDNSStatusConditions, Types
<1> HIDE DEF newProg, new
<1>6. TimeFollows(old[t], new[t])
  BY <1>1, <1>2, <1>3, <1>4, <1>5 DEF Types
<1> QED
  BY <1>6 DEF new

\* LastTransitionTime is renewed exactly when the status changes, for each of
\* the four conditions: neither a suppressed change nor a restart renews it.
THEOREM TransitionTimesFollow == Spec => TransitionTimes
<1>1. ASSUME TypeOK, [Next]_vars, NEW t \in Types
      PROVE  \/ TimeFollows(cond[t], cond'[t])
             \/ cond'[t].status = cond[t].status /\ back' # back
  <2>0. cond \in [Types -> Condition] /\ cond[t] \in Condition
    BY <1>1 DEF TypeOK
  <2>1. CASE cond' = ComputeDNSStatusConditions(cond, world)
    BY <2>0, <2>1, ComputeFollows
  <2>2. CASE Tick
    BY <2>0, <2>2, OlderFacts, StatusAssumption
       DEF Tick, TimeFollows, Condition, MaxAge
  <2>3. CASE ClockBack
    <3>1. back' # back
      BY <2>3 DEF ClockBack, TypeOK
    <3>2. cond'[t].status = cond[t].status
      BY <2>0, <2>3, YoungerFacts DEF ClockBack
    <3> QED
      BY <3>1, <3>2
  <2>4. CASE UNCHANGED cond
    BY <2>0, <2>4, KeptFollows
  <2> QED
    BY <1>1, <2>1, <2>2, <2>3, <2>4
       DEF Next, SyncDNSStatus, RequeueDue, ChangeWorld, Restart, vars
<1>2. TypeOK /\ [Next]_vars =>
          [\A t \in Types :
              /\ cond'[t].status # cond[t].status => cond'[t].age = 0
              /\ cond'[t].age < cond[t].age =>
                    cond'[t].status # cond[t].status \/ back' # back]_vars
  BY <1>1 DEF TimeFollows
<1> QED
  BY <1>2, TypeCorrect, PTL DEF Spec, TransitionTimes

-----------------------------------------------------------------------------
\* Where computeDNSDegradedCondition draws the line, for every number of pods:
\* a DNS is not degraded just if it has its service and its daemonset and
\* fewer than a tenth of the pods and one more are missing.
THEOREM DegradedThreshold ==
    ASSUME NEW w \in World
    PROVE  ~IsDegraded(w) <=> w.ip /\ w.ds /\ EnoughPods(w)
<1>1. w.want \in Nat /\ w.available \in Nat
  BY DEF World
<1>2. w.want - w.available > MaxUnavailable(w.want)
          <=> ~(10 * (w.want - w.available) < w.want + 10)
  BY <1>1 DEF MaxUnavailable
<1>3. /\ w.want = 0 <=> ~(w.want > 0)
      /\ w.available = 0 <=> ~(w.available > 0)
  BY <1>1
<1> QED
  BY Zenon, <1>2, <1>3 DEF IsDegraded, EnoughPods

\* syncDNSStatus never publishes Degraded=True, whatever the cluster is like
\* and however long it is so: the pass that computes it returns before the
\* update, and a suppressed condition is one that was False.
THEOREM DegradedNeverPublished == Spec => [](cond["Degraded"].status # "True")
<1> DEFINE Hidden == cond["Degraded"].status # "True"
<1>1. Init => Hidden
  BY DEF Init, None, Types
<1>2. TypeOK /\ Hidden /\ [Next]_vars => Hidden'
  <2> SUFFICES ASSUME TypeOK, Hidden, [Next]_vars PROVE Hidden'
    OBVIOUS
  <2>1. CASE SyncDNSStatus
    <3>1. \/ UNCHANGED cond
          \/ /\ cond' = ComputeDNSStatusConditions(cond, world)
             /\ ComputeDNSStatusConditions(cond, world)["Degraded"].status # "True"
      BY Zenon, <2>1 DEF SyncDNSStatus
    <3> QED
      BY <3>1
  <2>2. CASE Tick
    <3>1. cond["Degraded"] \in Condition /\ cond'["Degraded"] = Older(cond["Degraded"])
      BY <2>2 DEF Tick, Types, TypeOK
    <3> QED
      BY <3>1, OlderFacts
  <2>3. CASE ClockBack
    <3>1. cond["Degraded"] \in Condition /\ cond'["Degraded"] = Younger(cond["Degraded"])
      BY <2>3 DEF ClockBack, Types, TypeOK
    <3> QED
      BY <3>1, YoungerFacts
  <2>4. CASE RequeueDue \/ ChangeWorld \/ Restart \/ UNCHANGED vars
    BY <2>4 DEF RequeueDue, ChangeWorld, Restart, vars
  <2> QED
    BY <2>1, <2>2, <2>3, <2>4 DEF Next
<1> HIDE DEF Hidden
<1>3. Spec => []Hidden
  BY <1>1, <1>2, TypeCorrect, PTL DEF Spec
<1> QED
  BY <1>3 DEF Hidden
=============================================================================
