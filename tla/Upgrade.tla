------------------------------- MODULE Upgrade -------------------------------
(***************************************************************************)
(* What the ClusterOperator "dns" promises the cluster-version operator    *)
(* about versions (the comment on curVersions in Reconcile of the status   *)
(* controller): a reported version moves to the version the operator is    *)
(* configured with and nowhere else, the two containers of the DNS pods    *)
(* move together, and the operator's own version moves only in a report    *)
(* that has every operand at its new version.                              *)
(***************************************************************************)
CONSTANTS
    Targets, \* the versions of each release: functions on Names
    Unset    \* nothing is reported, or "unknown"

Operands == {"coredns", "kube-rbac-proxy", "openshift-cli"}
Names == Operands \cup {"operator"}

VARIABLES
    reported, \* the version reported under each name
    target    \* the versions the running operator is configured with

Nothing == [n \in Names |-> Unset]

Init == reported = Nothing /\ target \in Targets

\* A report moves some names to the target.
Report ==
    \E Moved \in SUBSET Names :
        /\ "coredns" \in Moved <=> "kube-rbac-proxy" \in Moved
        /\ "operator" \in Moved => Operands \subseteq Moved
        /\ reported' = [n \in Names |-> IF n \in Moved THEN target[n] ELSE reported[n]]
        /\ UNCHANGED target

\* Another release of the operator starts.
Retarget == target' \in Targets /\ UNCHANGED reported

\* The ClusterOperator is deleted.
Forget == reported' = Nothing /\ UNCHANGED target

Next == Report \/ Retarget \/ Forget

Spec == Init /\ [][Next]_<<reported, target>>

\* The versions reported for the two containers of the DNS pods are those of
\* one release, through every upgrade and rollback.
Paired ==
    \/ reported["coredns"] = Unset /\ reported["kube-rbac-proxy"] = Unset
    \/ \E t \in Targets : /\ reported["coredns"] = t["coredns"]
                          /\ reported["kube-rbac-proxy"] = t["kube-rbac-proxy"]

=============================================================================
