----------------------------- MODULE MCDNSStatus -----------------------------
(* Instances of DNSStatus for TLC.                                         *)
EXTENDS DNSStatus

Well == [ip |-> TRUE, ds |-> TRUE, want |-> 11, updated |-> 11, available |-> 11,
         placed |-> TRUE, resolver |-> TRUE, resolverWant |-> 2,
         resolverUpdated |-> 2, unmanaged |-> FALSE]

\* The healthy cluster and one that differs from it in each respect the
\* conditions look at, at the boundaries of every comparison.
OneOff ==
    {Well,
     [Well EXCEPT !.ip = FALSE],
     [Well EXCEPT !.ds = FALSE],
     [Well EXCEPT !.want = 0, !.updated = 0, !.available = 0],
     [Well EXCEPT !.updated = 10],
     [Well EXCEPT !.available = 9],
     [Well EXCEPT !.available = 8],
     [Well EXCEPT !.available = 0],
     [Well EXCEPT !.updated = 10, !.available = 0],
     [Well EXCEPT !.placed = FALSE],
     [Well EXCEPT !.resolver = FALSE],
     [Well EXCEPT !.resolverUpdated = 1],
     [Well EXCEPT !.unmanaged = TRUE],
     [Well EXCEPT !.unmanaged = TRUE, !.available = 0]}

\* A cluster that loses all DNS pods.
NoPods == {Well, [Well EXCEPT !.available = 0]}

=============================================================================
