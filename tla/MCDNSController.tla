--------------------------- MODULE MCDNSController ---------------------------
(* Instances of DNSController for TLC.                                     *)
EXTENDS DNSController

\* Every step whose API call can fail.
AllSteps == (Steps \cup {"get", "create"}) \ {"idle", "done"}

\* The steps whose failure bears on the finalizer: its own, and the deletion.
FinalizerSteps == {"finalizer", "deleteExternalName", "deleteDaemonset", "release"}

=============================================================================
