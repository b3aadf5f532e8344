----------------------------- MODULE MCCABundle -----------------------------
(***************************************************************************)
(* A small instance of CABundle: two bundles and the specs in which they   *)
(* may appear.  The cache times, in milliseconds, are on either side of    *)
(* what is rounded, and one is of TTLRange seconds (1024 in the configs).  *)
(***************************************************************************)
EXTENDS CABundle

TLS(server, bundle) ==
    [transport |-> "TLS", serverName |-> server, bundle |-> bundle, ips |-> TRUE]
Clear == [transport |-> "", serverName |-> "", bundle |-> "", ips |-> FALSE]
\* A TLS section that was left when the transport went back to Cleartext.
Leftover == [transport |-> "Cleartext", serverName |-> "s2", bundle |-> "b2",
             ips |-> TRUE]

Net(host, capitals, port) ==
    [type |-> "Network", host |-> host, capitals |-> capitals, port |-> port]
Sys(type, port) == [SystemResolver EXCEPT !.type = type, !.port = port]

DNS(upstream, servers, resolvers, positive, negative) ==
    [upstream |-> upstream, servers |-> servers, resolvers |-> resolvers,
     cache |-> [positive |-> positive, negative |-> negative]]

NoTLS   == DNS(Clear, <<>>, <<Sys("", 0), Net("r1", FALSE, 53),
               Sys("SystemResolvConf", 0), Sys("SystemResolvConf", 5353)>>, 0, 499)
OneTLS  == DNS(Clear, <<Leftover, TLS("s1", "b1")>>, <<>>, 1024000, 1499)
TwoTLS  == DNS(TLS("s1", "b1"), <<TLS("s2", "b2")>>,
               <<Net("r1", FALSE, 0), Net("r2", FALSE, 53), Net("r1", TRUE, 53),
                 Net("r1", FALSE, 853)>>, 1500, 999)
Shared  == DNS(Clear, <<TLS("s1", "b1"), TLS("s2", "b1")>>, <<>>, 0, 0)
NoName  == DNS(Clear, <<TLS("", "b1")>>, <<>>, 0, 0)

FewSpecs == {NoTLS, OneTLS, TwoTLS, Shared, NoName}
FewUnreadable == {{}, {"b1"}}
=============================================================================
