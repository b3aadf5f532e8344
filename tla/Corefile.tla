------------------------------ MODULE Corefile ------------------------------
(***************************************************************************)
(* What the operator makes of a DNS's spec: the Corefile of CoreDNS        *)
(* (controller_dns_configmap.go) and the CA bundle volumes of its          *)
(* daemonset (controller_dns_daemonset.go).                                *)
(*                                                                         *)
(* A DNS has one use of a transport for its upstream resolvers and one for *)
(* each of its servers.  A use names its transport, the TLS server name,   *)
(* the CA bundle ("" if there is none) and whether its upstreams are all   *)
(* IP addresses.  A nil TLS section is one with neither name nor bundle:   *)
(* the code treats the two alike.                                          *)
(***************************************************************************)
EXTENDS Integers, Sequences

CONSTANTS
    TTLRange, \* how many values a uint32 has
    Wraps     \* what a number beyond them becomes: see Uint32

TransportConfig ==
    [transport : {"", "Cleartext", "TLS"}, serverName : STRING,
     bundle : STRING, ips : BOOLEAN]
Upstream ==
    [type : {"", "SystemResolvConf", "Network"}, host : STRING,
     capitals : BOOLEAN, port : Nat]

Uses(dns) == <<dns.upstream>> \o dns.servers

\* The CA bundles that the DNS uses, in the order of the spec.  A bundle
\* counts only if the transport is TLS.
BundleOf(use) == IF use.transport = "TLS" THEN use.bundle ELSE ""
AppendBundle(names, use) ==
    IF BundleOf(use) = "" THEN names ELSE Append(names, BundleOf(use))
ConfigmapNames(dns) ==
    LET names[n \in 0 .. Len(Uses(dns))] ==
            IF n = 0 THEN <<>> ELSE AppendBundle(names[n - 1], Uses(dns)[n])
    IN  names[Len(Uses(dns))]
Referred(dns) == {BundleOf(Uses(dns)[i]) : i \in DOMAIN Uses(dns)} \ {""}

(***************************************************************************)
(* The directory a bundle is mounted at, /etc/pki/<server>-<configmap>-    *)
(* <resource version>.  revs maps the bundles whose copy was read to the   *)
(* resource version of the copy.                                           *)
(***************************************************************************)
Path(server, bundle, revs) ==
    [server |-> server, bundle |-> bundle, rev |-> revs[bundle]]

\* The CA bundle volumes of the daemonset, each with its mount, by the place
\* of the use in the spec.  The transport makes no difference here.
DesiredVolumes(dns, revs) ==
    [i \in {j \in DOMAIN Uses(dns) : Uses(dns)[j].bundle \in DOMAIN revs} |->
        Path(Uses(dns)[i].serverName, Uses(dns)[i].bundle, revs)]

\* The specs that sanitizeTLSSettings refuses, and the resolver without an
\* address that desiredDNSConfigMap refuses.
Invalid(dns) ==
    \/ \E i \in DOMAIN dns.servers :
          /\ dns.servers[i].transport = "TLS"
          /\ dns.servers[i].serverName = "" \/ ~dns.servers[i].ips
    \/ /\ dns.upstream.transport = "TLS"
       /\ \/ dns.upstream.serverName = ""
          \/ dns.resolvers = <<>>
          \/ \E i \in DOMAIN dns.resolvers :
                dns.resolvers[i].type = "SystemResolvConf"
    \/ \E i \in DOMAIN dns.resolvers :
          dns.resolvers[i].type = "Network" /\ dns.resolvers[i].host = ""

\* The server name that is left after sanitizeTLSSettings.
SanitizedName(use) == IF use.transport = "TLS" THEN use.serverName ELSE ""

\* The bundle files that the Corefile names, by the place of the use.
BundleFiles(dns, revs) ==
    [i \in {j \in DOMAIN Uses(dns) :
               /\ SanitizedName(Uses(dns)[j]) # ""
               /\ Uses(dns)[j].bundle \in DOMAIN revs} |->
        Path(SanitizedName(Uses(dns)[i]), Uses(dns)[i].bundle, revs)]

-----------------------------------------------------------------------------
(***************************************************************************)
(* The upstream resolvers.  An address is its host and whether it is       *)
(* written in capitals; port 0 is a port that is not given.                *)
(***************************************************************************)
DefaultDNSPort == 53
SystemResolver ==
    [type |-> "SystemResolvConf", host |-> "", capitals |-> FALSE, port |-> 0]

CmpUpstreamType(a, b) ==
    LET Type(t) == IF t = "" THEN "SystemResolvConf" ELSE t
    IN  Type(a) = Type(b)
CmpPort(a, b) ==
    LET Port(p) == IF p = 0 THEN DefaultDNSPort ELSE p IN Port(a) = Port(b)
\* A plausible fault: ports compared as they are written.
ContainsAsWritten(upstreams, upstream) ==
    \E i \in DOMAIN upstreams :
        /\ CmpUpstreamType(upstreams[i].type, upstream.type)
        /\ upstreams[i].host = upstream.host
        /\ upstreams[i].port = upstream.port

SameUpstream(a, b) ==
    /\ CmpUpstreamType(a.type, b.type)
    /\ a.host = b.host
    /\ CmpPort(a.port, b.port)
Contains(upstreams, upstream) ==
    \E i \in DOMAIN upstreams : SameUpstream(upstreams[i], upstream)

\* The resolvers of the Corefile, each once.
AppendNew(upstreams, upstream) ==
    IF Contains(upstreams, upstream) THEN upstreams ELSE Append(upstreams, upstream)
Upstreams(dns) ==
    IF dns.resolvers = <<>> THEN <<SystemResolver>>
    ELSE LET upstreams[n \in 0 .. Len(dns.resolvers)] ==
                 IF n = 0 THEN <<>>
                 ELSE AppendNew(upstreams[n - 1], dns.resolvers[n])
         IN  upstreams[Len(dns.resolvers)]

\* An upstream as the Corefile writes it.
CoreDNSResolver(upstream) ==
    IF upstream.type = "Network"
    THEN [upstream EXCEPT !.capitals = TRUE]
    ELSE SystemResolver

(***************************************************************************)
(* The cache times.  A duration in milliseconds is rounded to the nearest  *)
(* second; zero seconds stand for the default.  The CRD admits no negative *)
(* duration.                                                               *)
(***************************************************************************)
DefaultTTL == [positive |-> 900, negative |-> 30]

ASSUME TTLAssumption ==
    /\ TTLRange \in Nat /\ TTLRange > 900
    /\ Wraps \in BOOLEAN

\* What the conversion to uint32 makes of a number of seconds.  Beyond the
\* range, of 136 years, it depends on the processor the operator is built
\* for: the number wraps around (amd64) or the largest uint32 is taken (arm64).
Uint32(seconds) ==
    CASE seconds < TTLRange -> seconds
      [] seconds >= TTLRange /\ Wraps -> seconds % TTLRange
      [] OTHER -> TTLRange - 1

\* A plausible fault: the default is taken for a duration of zero, not for the
\* zero that is left after rounding and conversion.
SecondsOrDefaultUnchecked(ms, default) ==
    IF ms = 0 THEN default ELSE Uint32((ms + 500) \div 1000)

SecondsOrDefault(ms, default) ==
    LET seconds == Uint32((ms + 500) \div 1000)
    IN  IF seconds = 0 THEN default ELSE seconds

CoreDNSCache(cache) ==
    [t \in DOMAIN DefaultTTL |-> SecondsOrDefault(cache[t], DefaultTTL[t])]

DesiredDNSConfigMap(dns, revs) ==
    [files     |-> BundleFiles(dns, revs),
     upstreams |-> [i \in DOMAIN Upstreams(dns) |->
                       CoreDNSResolver(Upstreams(dns)[i])],
     ttl       |-> CoreDNSCache(dns.cache)]

-----------------------------------------------------------------------------
(***************************************************************************)
(* What a Corefile promises to the DNS it is made for.                     *)
(***************************************************************************)

\* Where the queries to an upstream go.
Endpoint(upstream) ==
    IF upstream.type = "Network"
    THEN <<upstream.host, IF upstream.port = 0 THEN DefaultDNSPort ELSE upstream.port>>
    ELSE <<"/etc/resolv.conf">>

NamedEndpoints(dns) ==
    IF dns.resolvers = <<>> THEN {<<"/etc/resolv.conf">>}
    ELSE {Endpoint(dns.resolvers[i]) : i \in DOMAIN dns.resolvers}

\* Upstream i of the Corefile is named before upstream j is.
NamedBefore(dns, i, j, upstreams) ==
    \E k \in DOMAIN dns.resolvers :
        /\ Endpoint(dns.resolvers[k]) = Endpoint(upstreams[i])
        /\ \A l \in 1 .. k : Endpoint(dns.resolvers[l]) # Endpoint(upstreams[j])

\* The Corefile forwards to the resolvers that the DNS names and to no others,
\* in the order in which the DNS names them, to each address just once.  How
\* often it names /etc/resolv.conf is ResolvConfOnce's matter.
ForwardsAsNamed(dns, upstreams) ==
    /\ {Endpoint(upstreams[i]) : i \in DOMAIN upstreams} = NamedEndpoints(dns)
    /\ \A i, j \in DOMAIN upstreams :
          i < j /\ upstreams[j].type = "Network" => NamedBefore(dns, i, j, upstreams)

\* No two upstreams are /etc/resolv.conf.
ResolvConfOnce(upstreams) ==
    \A i, j \in DOMAIN upstreams :
        Endpoint(upstreams[i]) = Endpoint(upstreams[j])
            /\ upstreams[i].type # "Network" => i = j

\* A cache time is one that CoreDNS takes, which zero is not, and that a uint32
\* holds.  If no time is given it is the default.  If the time that is given is
\* a second or more and a uint32 holds it, it is that time, to less than a
\* second: how fractions are rounded is CachesRoundedDown's matter.
CachesFor(ms, default, ttl) ==
    /\ ttl \in 1 .. TTLRange - 1
    /\ ms = 0 => ttl = default
    /\ ms \in 1 .. 999 => ttl \in {1, default}
    /\ ms \in 1000 .. 1000 * (TTLRange - 1) =>
          1000 * (ttl - 1) < ms /\ ms < 1000 * (ttl + 1)

CachesAsGiven(dns, ttl) ==
    \A t \in DOMAIN DefaultTTL : CachesFor(dns.cache[t], DefaultTTL[t], ttl[t])

\* A fraction of a second is dropped, and less than a second is the default.
CachesRoundedDown(dns, ttl) ==
    \A t \in DOMAIN DefaultTTL :
        dns.cache[t] < 1000 * TTLRange =>
            ttl[t] = IF dns.cache[t] < 1000 THEN DefaultTTL[t]
                                            ELSE dns.cache[t] \div 1000
=============================================================================
