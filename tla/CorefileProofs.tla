--------------------------- MODULE CorefileProofs ---------------------------
(***************************************************************************)
(* What the operators of Corefile compute, for every spec: the bundles     *)
(* that ConfigmapNames lists, the resolvers that Upstreams keeps and the   *)
(* times that CoreDNSCache gives.                                          *)
(*                                                                         *)
(* The first two are loops over a sequence.  A loop is reasoned about by   *)
(* induction in terms of sets: if a set holds 0 and with every number its  *)
(* successor, it holds every number.  Of each loop it is shown in this way *)
(* that the function exists that the recursive definition chooses, and     *)
(* then what it holds after n elements.                                    *)
(***************************************************************************)
EXTENDS Corefile, WellFoundedInduction, TLAPS

\* Induction over the natural numbers, for a set.
LEMMA InductionOverSet ==
    ASSUME NEW S, 0 \in S, \A n \in Nat : n \in S => n + 1 \in S
    PROVE  Nat \subseteq S
<1> DEFINE Rest == Nat \ S
           Less == OpToRel(<, Nat)
<1> SUFFICES ASSUME Rest # {} PROVE FALSE
  OBVIOUS
<1>1. PICK least \in Rest : \A n \in Rest : <<n, least>> \notin Less
  <2>1. IsWellFoundedOn(Less, Nat)
    BY NatLessThanWellFounded
  <2>2. Rest \subseteq Nat
    OBVIOUS
  <2> HIDE DEF Rest, Less
  <2> QED
    BY <2>1, <2>2, WFMin
<1>2. \A m, n \in Nat : m < n => <<m, n>> \in Less
  BY DEF OpToRel
<1> HIDE DEF Less
<1>3. least \in Nat /\ least # 0 /\ least \notin S
  BY <1>1
<1>4. least - 1 \in Nat /\ least - 1 < least
  BY <1>3
<1>5. least - 1 \in S
  BY <1>1, <1>2, <1>3, <1>4
<1> QED
  BY <1>3, <1>4, <1>5

\* What is known of a list more of elements of T that is list with e appended.
Extends(more, list, e, T) ==
    /\ more \in Seq(T)
    /\ \E i \in DOMAIN more : more[i] = e
    /\ \A i \in DOMAIN list : i \in DOMAIN more /\ more[i] = list[i]
    /\ \A i \in DOMAIN more :
          i \in DOMAIN list \/ (i = Len(list) + 1 /\ more[i] = e)

\* A sequence with an element appended.
LEMMA Appended ==
    ASSUME NEW T, NEW list \in Seq(T), NEW e \in T
    PROVE  Extends(Append(list, e), list, e, T)
<1> DEFINE more == Append(list, e)
<1>1. DOMAIN list = 1 .. Len(list) /\ Len(list) \in Nat
  OBVIOUS
<1>2. more \in Seq(T) /\ DOMAIN more = 1 .. Len(list) + 1
  OBVIOUS
<1>3. more[Len(list) + 1] = e /\ \A i \in 1 .. Len(list) : more[i] = list[i]
  OBVIOUS
<1>4. Len(list) + 1 \in DOMAIN more
  BY <1>1, <1>2
<1>5. \E i \in DOMAIN more : more[i] = e
  BY <1>3, <1>4
<1>6. \A i \in DOMAIN list : i \in DOMAIN more /\ more[i] = list[i]
  BY <1>1, <1>2, <1>3
<1>7. \A i \in DOMAIN more :
          i \in DOMAIN list \/ (i = Len(list) + 1 /\ more[i] = e)
  BY <1>1, <1>2, <1>3
<1> QED
  BY Zenon, <1>2, <1>5, <1>6, <1>7 DEF Extends

-----------------------------------------------------------------------------
\* The list of names after n uses.
NamesUpTo(uses, names, last) ==
    names = [n \in 0 .. last |->
                IF n = 0 THEN <<>> ELSE AppendBundle(names[n - 1], uses[n])]

\* The loop of ensureCABundleConfigMaps that collects the names is defined for
\* every list of uses.
LEMMA NamesExist ==
    ASSUME NEW uses, NEW last \in Nat
    PROVE  \E names : NamesUpTo(uses, names, last)
<1> DEFINE S == {m \in Nat : \E names : NamesUpTo(uses, names, m)}
<1>1. 0 \in S
  <2>1. NamesUpTo(uses, [n \in 0 .. 0 |-> <<>>], 0)
    BY DEF NamesUpTo
  <2> QED
    BY <2>1
<1>2. ASSUME NEW m \in Nat, m \in S
      PROVE  m + 1 \in S
  <2>1. PICK names : NamesUpTo(uses, names, m)
    BY <1>2
  <2> DEFINE more == [n \in 0 .. m + 1 |->
                         IF n = m + 1 THEN AppendBundle(names[m], uses[n])
                                      ELSE names[n]]
  <2>2. NamesUpTo(uses, more, m + 1)
    <3>1. ASSUME NEW n \in 0 .. m + 1
          PROVE  more[n] = IF n = 0 THEN <<>>
                           ELSE AppendBundle(more[n - 1], uses[n])
      <4>1. CASE n = m + 1
        BY <4>1
      <4>2. CASE n \in 0 .. m
        BY <2>1, <4>2 DEF NamesUpTo
      <4> QED
        BY <4>1, <4>2
    <3> QED
      BY <3>1 DEF NamesUpTo
  <2> QED
    BY <2>2
<1> HIDE DEF S
<1>3. last \in S
  BY <1>1, <1>2, InductionOverSet
<1> QED
  BY <1>3 DEF S

\* Its equations.
LEMMA NamesUnfold ==
    ASSUME NEW uses, NEW names, NEW last \in Nat, NamesUpTo(uses, names, last)
    PROVE  /\ names[0] = <<>>
           /\ \A n \in 1 .. last : names[n] = AppendBundle(names[n - 1], uses[n])
<1>1. \A n \in 0 .. last :
          names[n] = IF n = 0 THEN <<>> ELSE AppendBundle(names[n - 1], uses[n])
  BY Zenon DEF NamesUpTo
<1> QED
  BY <1>1

\* What a list of names holds after n uses.
Collected(list, d, n) ==
    /\ list \in Seq(Referred(d))
    /\ \A j \in 1 .. n : BundleOf(Uses(d)[j]) # "" =>
          \E i \in DOMAIN list : list[i] = BundleOf(Uses(d)[j])

\* One more use.
LEMMA CollectNext ==
    ASSUME NEW d, NEW list, NEW n \in Nat, Collected(list, d, n),
           n + 1 \in DOMAIN Uses(d)
    PROVE  Collected(AppendBundle(list, Uses(d)[n + 1]), d, n + 1)
<1> DEFINE b == BundleOf(Uses(d)[n + 1])
           more == AppendBundle(list, Uses(d)[n + 1])
<1>1. \A j \in 1 .. n + 1 : j \in 1 .. n \/ j = n + 1
  OBVIOUS
<1>2. CASE b = ""
  BY <1>1, <1>2 DEF Collected, AppendBundle
<1>3. CASE b # ""
  <2>1. b \in Referred(d)
    BY <1>3 DEF Referred
  <2>2. more = Append(list, b)
    BY <1>3 DEF AppendBundle
  <2>3. list \in Seq(Referred(d))
    BY DEF Collected
  <2> HIDE DEF b, more
  <2>4. /\ more \in Seq(Referred(d))
        /\ \E i \in DOMAIN more : more[i] = b
        /\ \A i \in DOMAIN list : i \in DOMAIN more /\ more[i] = list[i]
    <3>1. Extends(Append(list, b), list, b, Referred(d))
      BY Zenon, <2>1, <2>3, Appended
    <3> QED
      BY Zenon, <2>2, <3>1 DEF Extends
  <2>5. ASSUME NEW j \in 1 .. n + 1, BundleOf(Uses(d)[j]) # ""
        PROVE  \E i \in DOMAIN more : more[i] = BundleOf(Uses(d)[j])
    BY Zenon, <1>1, <2>4, <2>5 DEF Collected, b
  <2> QED
    BY <2>4, <2>5 DEF Collected, more
<1> QED
  BY <1>2, <1>3

\* ConfigmapNames lists the bundles that the DNS refers to, all of them and no
\* others: what ensureCABundleConfigMaps copies is what it does not delete.
LEMMA NamesAreReferred ==
    ASSUME NEW d, NEW U, Uses(d) \in Seq(U)
    PROVE  /\ ConfigmapNames(d) \in Seq(Referred(d))
           /\ \A b \in Referred(d) : \E i \in DOMAIN ConfigmapNames(d) :
                 ConfigmapNames(d)[i] = b
<1> DEFINE last == Len(Uses(d))
           names == CHOOSE g : NamesUpTo(Uses(d), g, last)
           S == {n \in Nat : n <= last => Collected(names[n], d, n)}
<1>1. last \in Nat /\ DOMAIN Uses(d) = 1 .. last
  OBVIOUS
<1>2. NamesUpTo(Uses(d), names, last)
  <2>1. \E g : NamesUpTo(Uses(d), g, last)
    BY <1>1, NamesExist
  <2> QED
    BY <2>1
<1>3. ConfigmapNames(d) = names[last]
  BY Zenon DEF ConfigmapNames, NamesUpTo
<1> HIDE DEF names
<1>4. /\ names[0] = <<>>
      /\ \A n \in 1 .. last : names[n] = AppendBundle(names[n - 1], Uses(d)[n])
  BY <1>1, <1>2, NamesUnfold
<1>5. 0 \in S
  <2>1. Collected(<<>>, d, 0)
    BY DEF Collected
  <2> QED
    BY <1>4, <2>1
<1>6. ASSUME NEW n \in Nat, n \in S
      PROVE  n + 1 \in S
  <2>1. SUFFICES ASSUME n + 1 <= last
                 PROVE  Collected(names[n + 1], d, n + 1)
    OBVIOUS
  <2>2. Collected(names[n], d, n)
    BY <1>1, <1>6, <2>1
  <2>3. names[n + 1] = AppendBundle(names[n], Uses(d)[n + 1])
    BY <1>1, <1>4, <2>1
  <2>4. n + 1 \in DOMAIN Uses(d)
    BY <1>1, <2>1
  <2> QED
    BY <2>2, <2>3, <2>4, CollectNext
<1>7. last \in S
  <2> HIDE DEF S
  <2> QED
    BY <1>1, <1>5, <1>6, InductionOverSet
<1>8. Collected(names[last], d, last)
  BY <1>1, <1>7
<1> QED
  BY <1>1, <1>3, <1>8 DEF Collected, Referred

-----------------------------------------------------------------------------
\* The resolvers that are kept of the first n.
KeptUpTo(resolvers, kept, last) ==
    kept = [n \in 0 .. last |->
               IF n = 0 THEN <<>> ELSE AppendNew(kept[n - 1], resolvers[n])]

\* The loop of desiredDNSConfigMap that drops the duplicates is defined for
\* every list of resolvers.
LEMMA KeptExist ==
    ASSUME NEW resolvers, NEW last \in Nat
    PROVE  \E kept : KeptUpTo(resolvers, kept, last)
<1> DEFINE S == {m \in Nat : \E kept : KeptUpTo(resolvers, kept, m)}
<1>1. 0 \in S
  <2>1. KeptUpTo(resolvers, [n \in 0 .. 0 |-> <<>>], 0)
    BY DEF KeptUpTo
  <2> QED
    BY <2>1
<1>2. ASSUME NEW m \in Nat, m \in S
      PROVE  m + 1 \in S
  <2>1. PICK kept : KeptUpTo(resolvers, kept, m)
    BY <1>2
  <2> DEFINE more == [n \in 0 .. m + 1 |->
                         IF n = m + 1 THEN AppendNew(kept[m], resolvers[n])
                                      ELSE kept[n]]
  <2>2. KeptUpTo(resolvers, more, m + 1)
    <3>1. ASSUME NEW n \in 0 .. m + 1
          PROVE  more[n] = IF n = 0 THEN <<>>
                           ELSE AppendNew(more[n - 1], resolvers[n])
      <4>1. CASE n = m + 1
        BY <4>1
      <4>2. CASE n \in 0 .. m
        BY <2>1, <4>2 DEF KeptUpTo
      <4> QED
        BY <4>1, <4>2
    <3> QED
      BY <3>1 DEF KeptUpTo
  <2> QED
    BY <2>2
<1> HIDE DEF S
<1>3. last \in S
  BY <1>1, <1>2, InductionOverSet
<1> QED
  BY <1>3 DEF S

\* Its equations.
LEMMA KeptUnfold ==
    ASSUME NEW resolvers, NEW kept, NEW last \in Nat,
           KeptUpTo(resolvers, kept, last)
    PROVE  /\ kept[0] = <<>>
           /\ \A n \in 1 .. last : kept[n] = AppendNew(kept[n - 1], resolvers[n])
<1>1. \A n \in 0 .. last :
          kept[n] = IF n = 0 THEN <<>> ELSE AppendNew(kept[n - 1], resolvers[n])
  BY Zenon DEF KeptUpTo
<1> QED
  BY <1>1

\* contains compares upstreams by an equivalence relation.
LEMMA SameEquivalence ==
    ASSUME NEW a, NEW b, NEW c
    PROVE  /\ SameUpstream(a, a)
           /\ SameUpstream(a, b) => SameUpstream(b, a)
           /\ SameUpstream(a, b) /\ SameUpstream(b, c) => SameUpstream(a, c)
  BY Zenon DEF SameUpstream, CmpUpstreamType, CmpPort

\* What is kept of the first n resolvers: resolvers of the list, one for each
\* of them, and each only if no resolver was equal to it when the one kept
\* before it was met.
Deduplicated(kept, resolvers, n) ==
    /\ kept \in Seq(Upstream)
    /\ \A i \in DOMAIN kept : \E k \in 1 .. n : kept[i] = resolvers[k]
    /\ \A k \in 1 .. n : Contains(kept, resolvers[k])
    /\ \A i, j \in DOMAIN kept : i < j =>
          \E k \in 1 .. n :
              /\ kept[i] = resolvers[k]
              /\ \A l \in 1 .. k : ~SameUpstream(resolvers[l], kept[j])

\* One more resolver.
LEMMA KeepNext ==
    ASSUME NEW kept, NEW resolvers \in Seq(Upstream), NEW n \in Nat,
           Deduplicated(kept, resolvers, n), n + 1 \in DOMAIN resolvers
    PROVE  Deduplicated(AppendNew(kept, resolvers[n + 1]), resolvers, n + 1)
<1> DEFINE next == resolvers[n + 1]
           more == AppendNew(kept, next)
<1>1. /\ \A k \in 1 .. n + 1 : k \in 1 .. n \/ k = n + 1
      /\ n + 1 \in 1 .. n + 1
      /\ \A k \in 1 .. n : k \in 1 .. n + 1 /\ \A l \in 1 .. k : l \in 1 .. n
  OBVIOUS
<1>2. kept \in Seq(Upstream) /\ next \in Upstream
  BY DEF Deduplicated
<1>3. \A i \in DOMAIN kept : \E k \in 1 .. n : kept[i] = resolvers[k]
  BY Zenon DEF Deduplicated
<1>4. \A k \in 1 .. n : Contains(kept, resolvers[k])
  BY Zenon DEF Deduplicated
<1>5. \A i, j \in DOMAIN kept : i < j =>
          \E k \in 1 .. n :
              /\ kept[i] = resolvers[k]
              /\ \A l \in 1 .. k : ~SameUpstream(resolvers[l], kept[j])
  BY Zenon DEF Deduplicated
<1>6. CASE Contains(kept, next)
  <2>1. more = kept
    BY <1>6 DEF AppendNew
  <2>2. \A k \in 1 .. n + 1 : Contains(kept, resolvers[k])
    BY Zenon, <1>1, <1>4, <1>6
  <2>3. \A i \in DOMAIN kept : \E k \in 1 .. n + 1 : kept[i] = resolvers[k]
    BY Zenon, <1>1, <1>3
  <2>4. \A i, j \in DOMAIN kept : i < j =>
            \E k \in 1 .. n + 1 :
                /\ kept[i] = resolvers[k]
                /\ \A l \in 1 .. k : ~SameUpstream(resolvers[l], kept[j])
    BY Zenon, <1>1, <1>5
  <2>5. Deduplicated(kept, resolvers, n + 1)
    BY Zenon, <1>2, <2>2, <2>3, <2>4 DEF Deduplicated
  <2> QED
    BY <2>1, <2>5
<1>7. CASE ~Contains(kept, next)
  <2>1. more = Append(kept, next)
    BY <1>7 DEF AppendNew
  <2>2. ASSUME NEW k \in 1 .. n
        PROVE  ~SameUpstream(resolvers[k], next)
    <3>1. PICK i \in DOMAIN kept : SameUpstream(kept[i], resolvers[k])
      BY Zenon, <1>4 DEF Contains
    <3>2. ~SameUpstream(kept[i], next)
      BY Zenon, <1>7 DEF Contains
    <3> QED
      BY Zenon, <3>1, <3>2, SameEquivalence
  <2> HIDE DEF next, more
  <2>3. /\ more \in Seq(Upstream)
        /\ \E i \in DOMAIN more : more[i] = next
        /\ \A i \in DOMAIN kept : i \in DOMAIN more /\ more[i] = kept[i]
        /\ \A i \in DOMAIN more :
              i \in DOMAIN kept \/ (i = Len(kept) + 1 /\ more[i] = next)
    <3>1. Extends(Append(kept, next), kept, next, Upstream)
      BY Zenon, <1>2, Appended
    <3> QED
      BY Zenon, <2>1, <3>1 DEF Extends
  <2>4. ASSUME NEW i \in DOMAIN more
        PROVE  \E k \in 1 .. n + 1 : more[i] = resolvers[k]
    BY Zenon, <1>1, <1>3, <2>3 DEF next
  <2>5. \A k \in 1 .. n + 1 : Contains(more, resolvers[k])
    <3>1. Contains(more, next)
      BY Zenon, <2>3, SameEquivalence DEF Contains
    <3>2. \A k \in 1 .. n : Contains(more, resolvers[k])
      BY Zenon, <1>4, <2>3 DEF Contains
    <3> QED
      BY Zenon, <1>1, <3>1, <3>2 DEF next
  <2>6. ASSUME NEW i \in DOMAIN more, NEW j \in DOMAIN more, i < j
        PROVE  \E k \in 1 .. n + 1 :
                   /\ more[i] = resolvers[k]
                   /\ \A l \in 1 .. k : ~SameUpstream(resolvers[l], more[j])
    <3>1. i \in DOMAIN kept
      <4>1. /\ DOMAIN kept = 1 .. Len(kept) /\ Len(kept) \in Nat
            /\ DOMAIN more = 1 .. Len(more) /\ Len(more) \in Nat
        BY <1>2, <2>3
      <4> QED
        BY <2>3, <2>6, <4>1
    <3>2. more[i] = kept[i]
      BY <2>3, <3>1
    <3>3. CASE j \in DOMAIN kept
      <4>1. more[j] = kept[j]
        BY <2>3, <3>3
      <4> QED
        BY Zenon, <1>1, <1>5, <2>6, <3>1, <3>2, <3>3, <4>1
    <3>4. CASE more[j] = next
      <4>1. PICK k \in 1 .. n : kept[i] = resolvers[k]
        BY <1>3, <3>1
      <4> QED
        BY Zenon, <1>1, <2>2, <3>2, <3>4, <4>1
    <3> QED
      BY Zenon, <2>3, <3>3, <3>4
  <2> QED
    BY Zenon, <2>3, <2>4, <2>5, <2>6 DEF Deduplicated, more, next
<1> QED
  BY <1>6, <1>7

\* Upstreams keeps one of each class of equal resolvers, the first, in the
\* order of the spec.
LEMMA UpstreamsDeduplicated ==
    ASSUME NEW d, d.resolvers \in Seq(Upstream), d.resolvers # <<>>
    PROVE  Deduplicated(Upstreams(d), d.resolvers, Len(d.resolvers))
<1> DEFINE resolvers == d.resolvers
           last == Len(resolvers)
           kept == CHOOSE g : KeptUpTo(resolvers, g, last)
           S == {n \in Nat : n <= last => Deduplicated(kept[n], resolvers, n)}
<1>1. last \in Nat /\ DOMAIN resolvers = 1 .. last
  OBVIOUS
<1>2. KeptUpTo(resolvers, kept, last)
  <2>1. \E g : KeptUpTo(resolvers, g, last)
    BY SMTT(30), <1>1, KeptExist
  <2> QED
    BY <2>1
<1>3. Upstreams(d) = kept[last]
  BY Zenon DEF Upstreams, KeptUpTo
<1> HIDE DEF kept
<1>4. /\ kept[0] = <<>>
      /\ \A n \in 1 .. last : kept[n] = AppendNew(kept[n - 1], resolvers[n])
  BY <1>1, <1>2, KeptUnfold
<1>5. 0 \in S
  <2>1. Deduplicated(<<>>, resolvers, 0)
    BY DEF Deduplicated
  <2> QED
    BY <1>4, <2>1
<1>6. ASSUME NEW n \in Nat, n \in S
      PROVE  n + 1 \in S
  <2>1. SUFFICES ASSUME n + 1 <= last
                 PROVE  Deduplicated(kept[n + 1], resolvers, n + 1)
    OBVIOUS
  <2>2. Deduplicated(kept[n], resolvers, n)
    BY <1>1, <1>6, <2>1
  <2>3. kept[n + 1] = AppendNew(kept[n], resolvers[n + 1])
    BY <1>1, <1>4, <2>1
  <2>4. n + 1 \in DOMAIN resolvers
    BY <1>1, <2>1
  <2> QED
    BY <2>2, <2>3, <2>4, KeepNext
<1>7. last \in S
  <2> HIDE DEF S
  <2> QED
    BY <1>1, <1>5, <1>6, InductionOverSet
<1> QED
  BY <1>1, <1>3, <1>7

-----------------------------------------------------------------------------
\* contains takes two upstreams for one only if queries to them go to the same
\* place, and it does so of any two with the same address.
LEMMA SameEndpoint ==
    ASSUME NEW a \in Upstream, NEW b \in Upstream
    PROVE  /\ SameUpstream(a, b) => Endpoint(a) = Endpoint(b)
           /\ b.type = "Network" /\ Endpoint(a) = Endpoint(b) => SameUpstream(a, b)
<1>1. /\ a.type \in {"", "SystemResolvConf", "Network"}
      /\ b.type \in {"", "SystemResolvConf", "Network"}
  BY DEF Upstream
<1>2. ASSUME SameUpstream(a, b)
      PROVE  Endpoint(a) = Endpoint(b)
  BY <1>1, <1>2 DEF SameUpstream, CmpUpstreamType, CmpPort, Endpoint
<1>3. ASSUME b.type = "Network", Endpoint(a) = Endpoint(b)
      PROVE  SameUpstream(a, b)
  BY <1>3 DEF SameUpstream, CmpUpstreamType, CmpPort, Endpoint
<1> QED
  BY <1>2, <1>3

\* The Corefile writes an upstream so that queries go where they went.
LEMMA ResolverEndpoint ==
    ASSUME NEW a \in Upstream
    PROVE  /\ Endpoint(CoreDNSResolver(a)) = Endpoint(a)
           /\ CoreDNSResolver(a).type = "Network" <=> a.type = "Network"
<1>1. CASE a.type = "Network"
  BY <1>1 DEF Upstream, CoreDNSResolver, Endpoint
<1>2. CASE a.type # "Network"
  BY <1>2 DEF CoreDNSResolver, SystemResolver, Endpoint
<1> QED
  BY <1>1, <1>2

\* What the conversion to uint32 gives.
LEMMA Converted ==
    ASSUME NEW seconds \in Nat
    PROVE  /\ Uint32(seconds) \in 0 .. TTLRange - 1
           /\ seconds < TTLRange => Uint32(seconds) = seconds
<1>1. TTLRange \in Nat /\ TTLRange > 0
  BY TTLAssumption
<1>2. seconds % TTLRange \in 0 .. TTLRange - 1
  BY <1>1
<1>3. /\ seconds < TTLRange => Uint32(seconds) = seconds
      /\ ~(seconds < TTLRange) => Uint32(seconds) \in {seconds % TTLRange, TTLRange - 1}
  BY <1>1 DEF Uint32
<1> QED
  BY <1>1, <1>2, <1>3

\* The cache time for a duration.
LEMMA CacheTime ==
    ASSUME NEW ms \in Nat, NEW t \in DOMAIN DefaultTTL
    PROVE  CachesFor(ms, DefaultTTL[t], SecondsOrDefault(ms, DefaultTTL[t]))
<1> DEFINE default == DefaultTTL[t]
           seconds == (ms + 500) \div 1000
           ttl == IF Uint32(seconds) = 0 THEN default ELSE Uint32(seconds)
<1>1. TTLRange \in Nat /\ TTLRange > 900 /\ default \in 1 .. 900
  BY TTLAssumption DEF DefaultTTL
<1>2. /\ seconds \in Nat
      /\ 1000 * seconds <= ms + 500 /\ ms + 500 < 1000 * seconds + 1000
  OBVIOUS
<1> HIDE DEF seconds, default
<1>3. /\ Uint32(seconds) \in 0 .. TTLRange - 1
      /\ seconds < TTLRange => Uint32(seconds) = seconds
  BY <1>2, Converted
<1>4. ttl \in 1 .. TTLRange - 1
  BY <1>1, <1>3
<1>5. ms = 0 => ttl = default
  BY <1>1, <1>2, <1>3
<1>6. ms \in 1 .. 999 => ttl \in {1, default}
  BY <1>1, <1>2, <1>3
<1>7. ASSUME ms \in 1000 .. 1000 * (TTLRange - 1)
      PROVE  1000 * (ttl - 1) < ms /\ ms < 1000 * (ttl + 1)
  <2>1. 1000 <= ms /\ ms <= 1000 * (TTLRange - 1)
    BY <1>1, <1>7
  <2>2. seconds # 0 /\ seconds < TTLRange
    BY <1>1, <1>2, <2>1
  <2>3. ttl = seconds
    BY <1>3, <2>2
  <2> QED
    BY <1>2, <2>3
<1>8. SecondsOrDefault(ms, default) = ttl
  BY Zenon DEF SecondsOrDefault, seconds
<1> HIDE DEF ttl
<1>9. CachesFor(ms, default, ttl)
  BY <1>4, <1>5, <1>6, <1>7 DEF CachesFor
<1> QED
  BY Zenon, <1>8, <1>9 DEF default

\* For every duration that the CRD admits, coreDNSCache gives CoreDNS a time
\* that a uint32 holds and that is not zero, the time of the spec to less than a
\* second if a uint32 holds that, and the default if the spec gives none; what
\* the conversion makes of a longer one does not matter.
THEOREM CachesRight ==
    ASSUME NEW d, NEW revs, d.cache \in [DOMAIN DefaultTTL -> Nat]
    PROVE  CachesAsGiven(d, DesiredDNSConfigMap(d, revs).ttl)
<1>1. DesiredDNSConfigMap(d, revs).ttl =
          [t \in DOMAIN DefaultTTL |-> SecondsOrDefault(d.cache[t], DefaultTTL[t])]
  BY DEF DesiredDNSConfigMap, CoreDNSCache
<1>2. ASSUME NEW t \in DOMAIN DefaultTTL
      PROVE  d.cache[t] \in Nat
  OBVIOUS
<1>3. ASSUME NEW t \in DOMAIN DefaultTTL
      PROVE  CachesFor(d.cache[t], DefaultTTL[t], DesiredDNSConfigMap(d, revs).ttl[t])
  <2>1. CachesFor(d.cache[t], DefaultTTL[t], SecondsOrDefault(d.cache[t], DefaultTTL[t]))
    BY Zenon, <1>2, CacheTime
  <2>2. DesiredDNSConfigMap(d, revs).ttl[t] = SecondsOrDefault(d.cache[t], DefaultTTL[t])
    BY <1>1
  <2> QED
    BY <2>1, <2>2
<1> QED
  BY <1>3 DEF CachesAsGiven

\* For every spec, desiredDNSConfigMap writes a Corefile that forwards to the
\* resolvers of the spec, in their order and to each address once.
THEOREM ForwardsRight ==
    ASSUME NEW d, NEW revs, d.resolvers \in Seq(Upstream)
    PROVE  ForwardsAsNamed(d, DesiredDNSConfigMap(d, revs).upstreams)
<1> DEFINE kept == Upstreams(d)
           written == DesiredDNSConfigMap(d, revs).upstreams
<1>2. written = [i \in DOMAIN kept |-> CoreDNSResolver(kept[i])]
  BY DEF DesiredDNSConfigMap
<1> HIDE DEF kept, written
<1>3. CASE d.resolvers = <<>>
  <2>1. DOMAIN kept = {1} /\ kept[1] = SystemResolver
    BY <1>3 DEF kept, Upstreams
  <2>2. SystemResolver.type # "Network"
    BY DEF SystemResolver
  <2>3. DOMAIN written = {1} /\ written[1] = SystemResolver
    BY <1>2, <2>1, <2>2 DEF CoreDNSResolver
  <2>4. Endpoint(written[1]) = <<"/etc/resolv.conf">>
    BY Zenon, <2>2, <2>3 DEF Endpoint
  <2>5. {Endpoint(written[i]) : i \in DOMAIN written} = {<<"/etc/resolv.conf">>}
    BY <2>3, <2>4
  <2>6. \A i, j \in DOMAIN written : ~(i < j)
    BY <2>3
  <2> QED
    BY <1>3, <2>5, <2>6 DEF ForwardsAsNamed, NamedEndpoints, written
<1>4. CASE d.resolvers # <<>>
  <2> DEFINE resolvers == d.resolvers
             last == Len(resolvers)
  <2>1. /\ DOMAIN written = DOMAIN kept
        /\ \A i \in DOMAIN kept :
              /\ kept[i] \in Upstream
              /\ Endpoint(written[i]) = Endpoint(kept[i])
              /\ written[i].type = "Network" <=> kept[i].type = "Network"
    <3>1. kept \in Seq(Upstream)
      BY Zenon, <1>4, UpstreamsDeduplicated DEF Deduplicated, kept
    <3>2. \A i \in DOMAIN kept : kept[i] \in Upstream
      BY <3>1
    <3>3. DOMAIN written = DOMAIN kept
      BY <1>2
    <3>4. \A i \in DOMAIN kept : written[i] = CoreDNSResolver(kept[i])
      BY <1>2
    <3> QED
      BY Zenon, <3>2, <3>3, <3>4, ResolverEndpoint
  <2>2. /\ DOMAIN resolvers = 1 .. last /\ last \in Nat
        /\ \A k \in 1 .. last : resolvers[k] \in Upstream
        /\ \A k \in 1 .. last : \A l \in 1 .. k : l \in 1 .. last
    OBVIOUS
  <2>3. /\ \A i \in DOMAIN kept : \E k \in 1 .. last : kept[i] = resolvers[k]
        /\ \A k \in 1 .. last : \E i \in DOMAIN kept : SameUpstream(kept[i], resolvers[k])
        /\ \A i, j \in DOMAIN kept : i < j =>
              \E k \in 1 .. last :
                  /\ kept[i] = resolvers[k]
                  /\ \A l \in 1 .. k : ~SameUpstream(resolvers[l], kept[j])
    BY ZenonT(40), <1>4, UpstreamsDeduplicated DEF Deduplicated, Contains, kept
  <2> HIDE DEF resolvers
  <2>4. {Endpoint(written[i]) : i \in DOMAIN written} = NamedEndpoints(d)
    <3>1. NamedEndpoints(d) = {Endpoint(resolvers[k]) : k \in 1 .. last}
      BY <1>4, <2>2 DEF NamedEndpoints, resolvers
    <3>2. ASSUME NEW i \in DOMAIN written
          PROVE  \E k \in 1 .. last : Endpoint(written[i]) = Endpoint(resolvers[k])
      <4>1. i \in DOMAIN kept /\ Endpoint(written[i]) = Endpoint(kept[i])
        BY <2>1
      <4>2. PICK k \in 1 .. last : kept[i] = resolvers[k]
        BY <2>3, <4>1
      <4> QED
        BY <4>1, <4>2
    <3>3. ASSUME NEW k \in 1 .. last
          PROVE  \E i \in DOMAIN written : Endpoint(written[i]) = Endpoint(resolvers[k])
      <4>1. PICK i \in DOMAIN kept : SameUpstream(kept[i], resolvers[k])
        BY <2>3
      <4>2. kept[i] \in Upstream /\ resolvers[k] \in Upstream
        BY <2>1, <2>2
      <4>3. Endpoint(kept[i]) = Endpoint(resolvers[k])
        BY <4>1, <4>2, SameEndpoint
      <4> QED
        BY <2>1, <4>3
    <3> QED
      BY <3>1, <3>2, <3>3
  <2>5. ASSUME NEW i \in DOMAIN written, NEW j \in DOMAIN written, i < j,
               written[j].type = "Network"
        PROVE  NamedBefore(d, i, j, written)
    <3>1. PICK k \in 1 .. last :
              /\ kept[i] = resolvers[k]
              /\ \A l \in 1 .. k : ~SameUpstream(resolvers[l], kept[j])
      BY Zenon, <2>1, <2>3, <2>5
    <3>2. kept[j] \in Upstream /\ kept[j].type = "Network"
      BY Zenon, <2>1, <2>5
    <3>3. ASSUME NEW l \in 1 .. k
          PROVE  Endpoint(resolvers[l]) # Endpoint(written[j])
      <4>1. resolvers[l] \in Upstream /\ ~SameUpstream(resolvers[l], kept[j])
        BY <2>2, <3>1
      <4>2. Endpoint(resolvers[l]) # Endpoint(kept[j])
        BY <3>2, <4>1, SameEndpoint
      <4> QED
        BY <2>1, <4>2
    <3>4. k \in DOMAIN resolvers /\ Endpoint(resolvers[k]) = Endpoint(written[i])
      BY Zenon, <2>1, <2>2, <3>1
    <3> QED
      BY Zenon, <3>3, <3>4 DEF NamedBefore, resolvers
  <2> QED
    BY Zenon, <2>4, <2>5 DEF ForwardsAsNamed, written
<1> QED
  BY <1>3, <1>4
=============================================================================
