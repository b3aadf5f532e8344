----------------------- MODULE MCClusterOperatorStatus -----------------------
(* Instances of ClusterOperatorStatus for TLC.                             *)
EXTENDS ClusterOperatorStatus

\* An image that both releases share does not tell their pods apart.
ImagesOf(operator, coredns, proxy, cli) ==
    [n \in Names |-> CASE n = "operator" -> operator [] n = "coredns" -> coredns
                       [] n = "kube-rbac-proxy" -> proxy [] n = "openshift-cli" -> cli]

TwoReleases ==
    [r \in {"r1", "r2"} |->
        IF r = "r1" THEN ImagesOf("v1", "dns1", "proxy1", "cli1")
        ELSE ImagesOf("v2", "dns2", "proxy1", "cli2")]

\* Two DNS pods and one node-resolver pod.
FewPods == [d \in Daemonsets |-> IF d = "dns" THEN {"p1", "p2"} ELSE {"p1"}]

Conds(available, progressing, degraded, upgradeable) ==
    [t \in Types |-> CASE t = "Available" -> available [] t = "Progressing" -> progressing
                       [] t = "Degraded" -> degraded [] t = "Upgradeable" -> upgradeable]

\* A DNS that is healthy, and one that is not.
FewConditions == {Conds("True", "False", "False", "True"),
                  Conds("False", "Unknown", "True", "Unknown")}

=============================================================================
