---------------------------- MODULE RequestProofs ----------------------------
(***************************************************************************)
(* Proofs about what is decided for a request: the route that serves it    *)
(* and its path, for any configurations and patterns; whether the circuit  *)
(* breaker lets it through, for every number of concurrent requests, every *)
(* ProbeCount, Timeout and positive Threshold; and whether the rate        *)
(* limiter does, for every capacity, cost, lifetime, window, limit and     *)
(* skew.  The three share no state.                                        *)
(***************************************************************************)
EXTENDS RouteMatch, CircuitBreaker, RateLimiter, FiniteSetTheorems, TLAPS

(***************************************************************************)
(*                                The route                                *)
(*                                                                         *)
(* While a request is being matched the invariant remembers which entries  *)
(* it has passed: in the list of prefixes no exact route matches, in the   *)
(* list of patterns neither an exact nor a prefix route does.              *)
(***************************************************************************)

Passed ==
  /\ req.stage = "prefix" => \A a \in asked : a.mode = "exact" => ~MatchEntry(a, req.q)
  /\ req.stage = "regex" => \A a \in asked : a.mode # "regex" => ~MatchEntry(a, req.q)

MatchInv == MatchTypeOK /\ Passed /\ RightRoute /\ PathIntact

\* A listing holds the routes of its set, and every one of them.
LEMMA ListingFacts ==
  ASSUME NEW S, NEW s \in Listings(S)
  PROVE  /\ \A i \in DOMAIN s : s[i] \in S /\ i \in Int
         /\ \A r \in S : \E i \in DOMAIN s : s[i] = r
BY DEF Listings

\* The first match of a sorted list is as long as any other match.
LEMMA FirstIsLongest ==
  ASSUME NEW S, NEW s \in Listings(S), Sorted(s), NEW q,
         \A r \in S : r.path \in Paths,
         NEW i \in DOMAIN s, IsFirst(s, i, q),
         NEW a \in S, MatchEntry(a, q)
  PROVE  ~(Len(a.path) > Len(s[i].path))
<1>1. PICK j \in DOMAIN s : s[j] = a
  BY ListingFacts
<1>2. i \in Int /\ j \in Int /\ s[i] \in S
  BY ListingFacts
<1>3. ~(j < i)
  BY <1>1 DEF IsFirst
<1>4. Len(s[i].path) \in Int /\ Len(a.path) \in Int
  BY <1>2 DEF Paths
<1>5. CASE i = j
  BY <1>1, <1>4, <1>5
<1>6. CASE i < j
  BY <1>1, <1>4, <1>6 DEF Sorted
<1> QED
  BY <1>2, <1>3, <1>5, <1>6

\* A mode decides which entries a route can be before.
LEMMA Ranks ==
  ASSUME NEW a, a.mode \in Modes
  PROVE  /\ a.mode = "exact" <=> Class(a) = 1
         /\ a.mode = "regex" <=> Class(a) = 3
         /\ a.mode \in {"prefix", "unset"} <=> Class(a) = 2
         /\ Class(a) \in 1..3
BY DEF Class, Modes

\* Sequences with the same elements at the same places are equal.
LEMMA SameElements ==
  ASSUME NEW S, NEW s \in Seq(S), NEW t \in Seq(S), Len(s) = Len(t),
         \A i \in 1 .. Len(s) : s[i] = t[i]
  PROVE  s = t
<1>1. /\ s = [i \in 1 .. Len(s) |-> s[i]]
      /\ t = [i \in 1 .. Len(t) |-> t[i]]
  OBVIOUS
<1> QED BY Zenon, <1>1

\* Stripping a prefix takes nothing else away, and never leaves an empty path.
LEMMA TrimFacts ==
  ASSUME NEW path \in Paths, NEW p \in Paths, HasPrefix(path, p)
  PROVE  /\ Trim(path, p) \in Paths
         /\ \/ path = p \o Trim(path, p) /\ Trim(path, p) # <<>>
            \/ path = p /\ Trim(path, p) = <<"/">>
<1>1. CASE path = p
  BY <1>1, MatchAssumption DEF Trim, Paths
<1>2. CASE path # p
  <2> DEFINE rest == SubSeq(path, Len(p) + 1, Len(path))
  <2>1. Len(p) \in Nat /\ Len(path) \in Nat /\ Len(p) <= Len(path)
    BY DEF HasPrefix, Paths
  <2>2. rest \in Seq(Letters) /\ Len(rest) = Len(path) - Len(p)
    BY <2>1 DEF Paths
  <2>3. \A i \in 1..Len(rest) : rest[i] = path[Len(p) + i]
    BY <2>1 DEF Paths
  <2>4. p \o rest \in Seq(Letters) /\ Len(p \o rest) = Len(path)
    BY <2>1, <2>2 DEF Paths
  <2>5. \A i \in 1..Len(path) : (p \o rest)[i] = path[i]
    BY <2>1, <2>2, <2>3 DEF HasPrefix, Paths
  <2> HIDE DEF rest
  <2>6. path = p \o rest
    BY Zenon, <2>4, <2>5, SameElements DEF Paths
  <2>7. Len(p) # Len(path)
    BY <1>2, SameElements DEF HasPrefix, Paths
  <2>8. rest # <<>>
    BY <2>1, <2>2, <2>7
  <2> QED
    BY <1>2, <2>2, <2>6, <2>8 DEF Trim, rest, Paths
<1> QED
  BY <1>1, <1>2

-----------------------------------------------------------------------------

\* Serving the first match of a list keeps the path as PathIntact asks.
LEMMA ServedPath ==
  ASSUME NEW r \in AllRoutes, NEW q \in Requests, MatchEntry(r, q)
  PROVE  /\ Forwarded(r, q.path) \in Paths
         /\ Intact(r, q, Forwarded(r, q.path))
<1>1. q.path \in Paths /\ r.path \in Paths
  BY MatchAssumption
<1>2. CASE r.strip /\ r.mode = "prefix"
  <2>1. HasPrefix(q.path, r.path)
    BY <1>2 DEF MatchEntry
  <2> QED
    BY Zenon, <1>1, <1>2, <2>1, TrimFacts, MatchAssumption DEF Forwarded, Intact
<1>3. CASE ~(r.strip /\ r.mode = "prefix")
  BY Zenon, <1>1, <1>3 DEF Forwarded, Intact
<1> QED
  BY <1>2, <1>3

\* What a step of the request's loop over one list of asked's table establishes.
LEMMA TryKeeps ==
  ASSUME MatchInv,
         NEW stage \in {"exact", "prefix", "regex"},
         NEW modes, NEW STATE list, list \in Listings(OfMode(asked, modes)),
         NEW STATE next, Try(stage, list, next),
         \A i \in DOMAIN list : IsFirst(list, i, req.q) =>
            \A a \in asked : MatchEntry(a, req.q) => ~Before(a, list[i])
  PROVE  \/ MatchInv'
         \/ /\ req' = next
            /\ \A a \in OfMode(asked, modes) : ~MatchEntry(a, req.q)
<1>1. asked \in Configs /\ req.q \in Requests /\ req.stage = stage
  BY DEF MatchInv, MatchTypeOK, Try
<1>2. UNCHANGED <<routes, routeTable, asked>>
  BY DEF Try
<1>3. CASE \E i \in DOMAIN list :
             /\ IsFirst(list, i, req.q)
             /\ req' = Serve(list[i], Forwarded(list[i], req.q.path))
  <2>1. PICK i \in DOMAIN list :
             /\ IsFirst(list, i, req.q)
             /\ req' = Serve(list[i], Forwarded(list[i], req.q.path))
    BY <1>3
  <2> DEFINE r == list[i]
  <2>2. r \in asked /\ r \in AllRoutes /\ r # NoRoute
    BY <1>1, ListingFacts, MatchAssumption DEF OfMode, AllRoutes
  <2>3. MatchEntry(r, req.q)
    BY <2>1 DEF IsFirst
  <2>4. /\ req'.stage = "served" /\ req'.q = req.q
        /\ req'.route = r /\ req'.path = Forwarded(r, req.q.path)
    BY <2>1 DEF Serve
  <2>5. \A a \in asked : MatchEntry(a, req.q) => ~Before(a, r)
    BY <2>1
  <2> HIDE DEF r
  <2>6. MatchTypeOK'
    BY <1>1, <1>2, <2>2, <2>3, <2>4, ServedPath DEF MatchInv, MatchTypeOK
  <2>7. Passed'
    BY <2>4 DEF Passed
  <2>8. RightRoute'
    BY <1>2, <2>2, <2>3, <2>4, <2>5 DEF RightRoute, Answers
  <2>9. PathIntact'
    BY <1>1, <2>2, <2>3, <2>4, ServedPath DEF PathIntact
  <2> QED
    BY <2>6, <2>7, <2>8, <2>9 DEF MatchInv
<1>4. CASE /\ \A i \in DOMAIN list : ~MatchEntry(list[i], req.q)
           /\ req' = next
  BY <1>4, ListingFacts
<1> QED
  BY <1>3, <1>4 DEF Try

LEMMA InitInv == MatchInit => MatchInv
<1> SUFFICES ASSUME MatchInit PROVE MatchInv
  OBVIOUS
<1>1. req.stage = "idle" /\ asked = routes /\ routes \in Configs
  BY DEF MatchInit, Idle
<1>2. Built(routes, routeTable)
  BY DEF MatchInit
<1> QED
  BY <1>1, <1>2 DEF MatchInv, MatchTypeOK, Passed, RightRoute, PathIntact

LEMMA StepInv == MatchInv /\ [MatchNext]_matchVars => MatchInv'
<1> SUFFICES ASSUME MatchInv, [MatchNext]_matchVars PROVE MatchInv'
  OBVIOUS
<1>m. \A a \in asked : a.mode \in Modes /\ a.path \in Paths
  BY MatchAssumption DEF MatchInv, MatchTypeOK, AllRoutes
<1>1. ASSUME NEW rs \in Configs, Reload(rs) PROVE MatchInv'
  BY <1>1 DEF MatchInv, MatchTypeOK, Passed, RightRoute, PathIntact, Reload
<1>2. ASSUME NEW q \in Requests, Load(q) PROVE MatchInv'
  <2>1. /\ req'.stage = "exact" /\ req'.q = q /\ req'.snap = routeTable
        /\ asked' = routes /\ UNCHANGED <<routes, routeTable>>
    BY <1>2 DEF Load
  <2> QED
    BY <2>1 DEF MatchInv, MatchTypeOK, Passed, RightRoute, PathIntact
<1>3. CASE TryExact
  <2> DEFINE list == req.snap.exact
             next == [req EXCEPT !.stage = "prefix"]
  <2>1. req.stage = "exact" /\ UNCHANGED <<routes, routeTable, asked>>
    BY <1>3 DEF TryExact, Try
  <2>2. list \in Listings(OfMode(asked, {"exact"}))
    BY <2>1 DEF MatchInv, MatchTypeOK, Built
  <2>3. ASSUME NEW i \in DOMAIN list, NEW a \in asked PROVE ~Before(a, list[i])
    <3>1. list[i] \in asked /\ list[i].mode = "exact"
      BY <2>2, ListingFacts DEF OfMode
    <3> HIDE DEF list
    <3> QED
      BY <1>m, <3>1, Ranks DEF Before
  <2>4. \/ MatchInv'
        \/ /\ req' = next
           /\ \A a \in OfMode(asked, {"exact"}) : ~MatchEntry(a, req.q)
    BY <1>3, <2>2, <2>3, TryKeeps DEF TryExact
  <2>5. CASE /\ req' = next
             /\ \A a \in OfMode(asked, {"exact"}) : ~MatchEntry(a, req.q)
    <3>1. req'.stage = "prefix" /\ req'.q = req.q /\ req'.snap = req.snap
      BY <2>1, <2>5 DEF MatchInv, MatchTypeOK
    <3> QED
      BY <2>1, <2>5, <3>1 DEF MatchInv, MatchTypeOK, Passed, RightRoute, PathIntact, OfMode
  <2> QED
    BY <2>4, <2>5
<1>4. CASE TryPrefix
  <2> DEFINE list == req.snap.prefix
             next == [req EXCEPT !.stage = "regex"]
  <2>1. req.stage = "prefix" /\ UNCHANGED <<routes, routeTable, asked>>
    BY <1>4 DEF TryPrefix, Try
  <2>2. list \in Listings(OfMode(asked, {"prefix", "unset"})) /\ Sorted(list)
    BY <2>1 DEF MatchInv, MatchTypeOK, Built
  <2>3. ASSUME NEW i \in DOMAIN list, IsFirst(list, i, req.q),
               NEW a \in asked, MatchEntry(a, req.q)
        PROVE  ~Before(a, list[i])
    <3>1. list[i] \in asked /\ list[i].mode \in {"prefix", "unset"}
      BY <2>2, ListingFacts DEF OfMode
    <3>2. a.mode # "exact"
      BY <2>1, <2>3 DEF MatchInv, Passed
    <3>3. CASE a.mode \in {"prefix", "unset"}
      <4>1. a \in OfMode(asked, {"prefix", "unset"})
        BY <3>3 DEF OfMode
      <4>2. \A r \in OfMode(asked, {"prefix", "unset"}) : r.path \in Paths
        BY <1>m DEF OfMode
      <4>3. ~(Len(a.path) > Len(list[i].path))
        BY <2>2, <2>3, <4>1, <4>2, FirstIsLongest
      <4> HIDE DEF list
      <4> QED
        BY <1>m, <3>1, <3>3, <4>3, Ranks DEF Before
    <3>4. CASE a.mode = "regex"
      <4> HIDE DEF list
      <4> QED
        BY <1>m, <3>1, <3>4, Ranks DEF Before
    <3> QED
      BY <1>m, <3>2, <3>3, <3>4 DEF Modes
  <2>4. \/ MatchInv'
        \/ /\ req' = next
           /\ \A a \in OfMode(asked, {"prefix", "unset"}) : ~MatchEntry(a, req.q)
    BY <1>4, <2>2, <2>3, TryKeeps DEF TryPrefix
  <2>5. CASE /\ req' = next
             /\ \A a \in OfMode(asked, {"prefix", "unset"}) : ~MatchEntry(a, req.q)
    <3>1. req'.stage = "regex" /\ req'.q = req.q /\ req'.snap = req.snap
      BY <2>1, <2>5 DEF MatchInv, MatchTypeOK
    <3>2. \A a \in asked : a.mode # "regex" => ~MatchEntry(a, req.q)
      BY <1>m, <2>1, <2>5 DEF MatchInv, Passed, OfMode, Modes
    <3> QED
      BY <2>1, <3>1, <3>2 DEF MatchInv, MatchTypeOK, Passed, RightRoute, PathIntact
  <2> QED
    BY <2>4, <2>5
<1>5. CASE TryRegex
  <2> DEFINE list == req.snap.regex
             next == Serve(NoRoute, req.q.path)
  <2>1. req.stage = "regex" /\ UNCHANGED <<routes, routeTable, asked>>
    BY <1>5 DEF TryRegex, Try
  <2>2. list \in Listings(OfMode(asked, {"regex"}))
    BY <2>1 DEF MatchInv, MatchTypeOK, Built
  <2>3. ASSUME NEW i \in DOMAIN list, NEW a \in asked, MatchEntry(a, req.q)
        PROVE  ~Before(a, list[i])
    <3>1. list[i] \in asked /\ list[i].mode = "regex"
      BY <2>2, ListingFacts DEF OfMode
    <3>2. a.mode = "regex"
      BY <2>1, <2>3 DEF MatchInv, Passed
    <3> HIDE DEF list
    <3> QED
      BY <1>m, <3>1, <3>2, Ranks DEF Before
  <2>4. \/ MatchInv'
        \/ /\ req' = next
           /\ \A a \in OfMode(asked, {"regex"}) : ~MatchEntry(a, req.q)
    BY <1>5, <2>2, <2>3, TryKeeps DEF TryRegex
  <2>5. CASE /\ req' = next
             /\ \A a \in OfMode(asked, {"regex"}) : ~MatchEntry(a, req.q)
    <3>1. /\ req'.stage = "served" /\ req'.q = req.q
          /\ req'.route = NoRoute /\ req'.path = req.q.path
      BY <2>5 DEF Serve
    <3>2. \A a \in asked : ~MatchEntry(a, req.q)
      BY <2>1, <2>5 DEF MatchInv, Passed, OfMode
    <3>3. req.q \in Requests /\ req.q.path \in Paths
      BY <2>1, MatchAssumption DEF MatchInv, MatchTypeOK
    <3> QED
      BY Zenon, <2>1, <3>1, <3>2, <3>3
      DEF MatchInv, MatchTypeOK, Passed, RightRoute, PathIntact, Intact, Answers
  <2> QED
    BY <2>4, <2>5
<1>6. CASE Finish
  <2>1. req'.stage = "idle" /\ UNCHANGED <<routes, routeTable, asked>>
    BY <1>6 DEF Finish, Idle
  <2> QED
    BY <2>1 DEF MatchInv, MatchTypeOK, Passed, RightRoute, PathIntact
<1>7. CASE UNCHANGED matchVars
  BY <1>7 DEF MatchInv, MatchTypeOK, Passed, RightRoute, PathIntact, matchVars
<1> QED
  BY <1>1, <1>2, <1>3, <1>4, <1>5, <1>6, <1>7 DEF MatchNext

LEMMA MatchInvariance == MatchSpec => []MatchInv
BY InitInv, StepInv, PTL DEF MatchSpec

\* Tables, the published one and the one a request has loaded, are complete.
THEOREM MatchTypeCorrect == MatchSpec => []MatchTypeOK
<1>1. MatchInv => MatchTypeOK
  BY DEF MatchInv
<1> QED
  BY <1>1, MatchInvariance, PTL

\* ServeHTTP serves a best route of the configuration published when the
\* request came, for any configurations, orders of listing and reloads.
THEOREM RightlyServed == MatchSpec => []RightRoute
<1>1. MatchInv => RightRoute
  BY DEF MatchInv
<1> QED
  BY <1>1, MatchInvariance, PTL

\* buildRouteHandler's stripping loses nothing of a request's path.
THEOREM PathKept == MatchSpec => []PathIntact
<1>1. MatchInv => PathIntact
  BY DEF MatchInv
<1> QED
  BY <1>1, MatchInvariance, PTL

\* The order in which ListRoutes() returns the routes matters only for routes
\* of one mode and, unless they are patterns, of one path: two right answers
\* to a request do not differ otherwise.
THEOREM AnswersAgree ==
  ASSUME NEW rs \in Configs, NEW q \in Requests,
         NEW a \in rs, Answers(rs, q, a), NEW b \in rs, Answers(rs, q, b)
  PROVE  a.mode = b.mode /\ (a.mode # "regex" => a.path = b.path)
<1>1. /\ a.mode \in Modes /\ b.mode \in Modes
      /\ a.path \in Paths /\ b.path \in Paths /\ q.path \in Paths
      /\ a # NoRoute /\ b # NoRoute
  BY MatchAssumption DEF AllRoutes
<1>2. MatchEntry(a, q) /\ MatchEntry(b, q) /\ ~Before(a, b) /\ ~Before(b, a)
  BY <1>1 DEF Answers
<1>3. a.mode \in {"exact", "prefix", "regex"} /\ b.mode \in {"exact", "prefix", "regex"}
  BY <1>2 DEF MatchEntry
<1>4. Class(a) = Class(b)
  BY <1>1, <1>2, Ranks DEF Before
<1>5. a.mode = b.mode
  BY <1>1, <1>3, <1>4, Ranks
<1>6. CASE a.mode = "exact"
  BY <1>2, <1>5, <1>6 DEF MatchEntry
<1>7. CASE a.mode = "prefix"
  <2>1. HasPrefix(q.path, a.path) /\ HasPrefix(q.path, b.path)
    BY <1>2, <1>5, <1>7 DEF MatchEntry
  <2>2. Len(a.path) = Len(b.path)
    <3>1. Len(a.path) \in Nat /\ Len(b.path) \in Nat
      BY <1>1 DEF Paths
    <3> QED
      BY <1>1, <1>2, <1>4, <1>5, <1>7, <3>1, Ranks DEF Before
  <2>3. \A i \in 1..Len(a.path) : a.path[i] = b.path[i]
    BY <2>1, <2>2 DEF HasPrefix
  <2> QED
    BY Zenon, <1>1, <1>5, <2>2, <2>3, SameElements DEF Paths
<1> QED
  BY <1>3, <1>5, <1>6, <1>7

(***************************************************************************)
(*                           The circuit breaker                           *)
(***************************************************************************)

(***************************************************************************)
(* The inductive invariant: the typing, the evidence of a trip, the fact   *)
(* that history counts one admission more than cb.probes while the breaker *)
(* is half-open, and that openedAt is the time of the latest opening.      *)
(***************************************************************************)
BreakerInv ==
  /\ BreakerTypeOK
  /\ TripHasEvidence
  /\ state # "closed" => failures > 0
  /\ state = "half_open" => admitted = probes + 1 /\ probes <= ProbeCount
  /\ state = "open" => age = shut

\* A trip, whatever the number of results, is backed by Threshold of the
\* first MinSamples results.
LEMMA TripsImpliesEvidence ==
  ASSUME NEW f \in Nat, NEW t \in Nat, Trips(f, t)
  PROVE  /\ t >= MinSamples
         /\ f * ThresholdDen >= ThresholdNum * MinSamples
         /\ f > 0
PROOF
  <1>1. t >= 10 /\ f * ThresholdDen >= ThresholdNum * t
    BY DEF Trips, MinSamples
  <1>2. ThresholdNum * t >= ThresholdNum * 10
    BY <1>1, BreakerAssumption
  <1>3. ThresholdNum * 10 > 0
    BY BreakerAssumption
  <1>4. f * ThresholdDen \in Int /\ ThresholdNum * t \in Int /\ ThresholdNum * 10 \in Int
    BY BreakerAssumption
  <1>5. f * ThresholdDen >= ThresholdNum * 10
    BY <1>1, <1>2, <1>4
  <1>6. f # 0
    BY <1>3, <1>4, <1>5, BreakerAssumption
  <1> QED BY <1>1, <1>5, <1>6 DEF MinSamples

LEMMA BreakerStart == BreakerInit => BreakerInv
BY BreakerAssumption DEF BreakerInit, BreakerInv, BreakerTypeOK, TripHasEvidence

\* One step preserves the inductive invariant.
LEMMA BreakerStep == BreakerInv /\ [BreakerNext]_breakerVars => BreakerInv'
PROOF
  <1> SUFFICES ASSUME BreakerInv, [BreakerNext]_breakerVars
               PROVE  BreakerInv'
    OBVIOUS
  <1> USE BreakerAssumption
  <1>1. ASSUME NEW r \in Callers, AllowClosed(r)
        PROVE  BreakerInv'
    BY <1>1 DEF AllowClosed, BreakerInv, BreakerTypeOK, TripHasEvidence
  <1>2. ASSUME NEW r \in Callers, AllowTrial(r)
        PROVE  BreakerInv'
    BY <1>2 DEF AllowTrial, TrialProbes, BreakerInv, BreakerTypeOK, TripHasEvidence
  <1>3. ASSUME NEW r \in Callers, AllowProbe(r)
        PROVE  BreakerInv'
    BY <1>3 DEF AllowProbe, ProbesRemain, BreakerInv, BreakerTypeOK, TripHasEvidence
  <1>4. ASSUME NEW r \in Callers, Reject(r)
        PROVE  BreakerInv'
    BY <1>4 DEF Reject, breakerVars, BreakerInv, BreakerTypeOK, TripHasEvidence
  <1>5. ASSUME NEW r \in Callers, NEW failed \in BOOLEAN, Record(r, failed)
        PROVE  BreakerInv'
    <2> DEFINE f == failures + (IF failed THEN 1 ELSE 0)
               t == total + 1
    <2>1. f \in Nat /\ t \in Nat /\ f >= failures /\ t >= total
      BY DEF BreakerInv, BreakerTypeOK
    <2>2. state # "closed" => NextState(failed, f, t) \in {"open", "half_open"}
      BY <2>1 DEF NextState, Recovers, BreakerInv, BreakerTypeOK
    <2>3. state = "closed" => \/ NextState(failed, f, t) = "closed"
                              \/ NextState(failed, f, t) = "open" /\ Trips(f, t)
      BY DEF NextState
    <2>4. state' = NextState(failed, f, t) /\ failures' = f /\ total' = t
      BY <1>5, <2>2 DEF Record, BreakerInv, BreakerTypeOK
    <2>5. NextState(failed, f, t) = "half_open" => state = "half_open"
      BY <2>3 DEF NextState, BreakerInv, BreakerTypeOK
    <2>6. /\ UNCHANGED <<probes, admitted>>
          /\ age' \in 0..Timeout
          /\ shut' \in 0..Timeout
          /\ inflight' \subseteq Callers
      BY <1>5 DEF Record, BreakerInv, BreakerTypeOK
    <2>7. state' = "open" => age' = shut'
      <3>1. CASE state = "open"
        <4>1. age' = age /\ shut' = shut
          BY <3>1, <1>5 DEF Record, SetsOpenedAt
        <4> QED BY <3>1, <4>1 DEF BreakerInv
      <3>2. CASE state # "open"
        <4> HIDE DEF f, t
        <4>1. SUFFICES ASSUME state' = "open" PROVE age' = 0 /\ shut' = 0
          OBVIOUS
        <4>2. age' = IF SetsOpenedAt(failed, f, t) THEN 0 ELSE age
          BY <1>5 DEF Record, f, t
        <4>3. shut' = 0
          BY <3>2, <4>1, <1>5 DEF Record
        <4> QED BY <3>2, <4>1, <4>2, <4>3, <2>4 DEF SetsOpenedAt
      <3> QED BY <3>1, <3>2
    <2>8. state' # "closed" =>
            /\ t >= MinSamples
            /\ f * ThresholdDen >= ThresholdNum * MinSamples
            /\ f > 0
      <3>1. CASE state = "closed"
        BY <3>1, <2>1, <2>3, <2>4, TripsImpliesEvidence
      <3>2. CASE state # "closed"
        <4>1. total >= 10 /\ failures * ThresholdDen >= ThresholdNum * 10 /\ failures > 0
          BY <3>2 DEF BreakerInv, TripHasEvidence, MinSamples
        <4>2. f * ThresholdDen >= failures * ThresholdDen
          BY <2>1 DEF BreakerInv, BreakerTypeOK
        <4> HIDE DEF f, t
        <4>3. f * ThresholdDen \in Int /\ failures * ThresholdDen \in Int /\ ThresholdNum * 10 \in Int
          BY <2>1 DEF BreakerInv, BreakerTypeOK
        <4> QED BY <2>1, <4>1, <4>2, <4>3 DEF BreakerInv, BreakerTypeOK, MinSamples
      <3> QED BY <3>1, <3>2
    <2> HIDE DEF f, t
    <2> QED BY <2>1, <2>2, <2>3, <2>4, <2>5, <2>6, <2>7, <2>8
            DEF BreakerInv, BreakerTypeOK, TripHasEvidence
  <1>6. ASSUME NEW r \in Callers, Panic(r)
        PROVE  BreakerInv'
    BY <1>6 DEF Panic, BreakerInv, BreakerTypeOK, TripHasEvidence
  <1>7. CASE Tick
    BY <1>7 DEF Tick, Later, BreakerInv, BreakerTypeOK, TripHasEvidence
  <1>8. CASE UNCHANGED breakerVars
    BY <1>8 DEF breakerVars, BreakerInv, BreakerTypeOK, TripHasEvidence
  <1> QED BY <1>1, <1>2, <1>3, <1>4, <1>5, <1>6, <1>7, <1>8 DEF BreakerNext

LEMMA BreakerInvariance == BreakerSpec => []BreakerInv
BY BreakerStart, BreakerStep, PTL DEF BreakerSpec

\* allow() and record() keep the breaker's counters and state well typed.
THEOREM BreakerTypes == BreakerSpec => []BreakerTypeOK
<1>1. BreakerInv => BreakerTypeOK
  BY DEF BreakerInv
<1> QED BY <1>1, BreakerInvariance, PTL

\* A breaker is never open or half-open on fewer failures than record()'s trip
\* condition asks for.
THEOREM TripEvidence == BreakerSpec => []TripHasEvidence
<1>1. BreakerInv => TripHasEvidence
  BY DEF BreakerInv
<1> QED BY <1>1, BreakerInvariance, PTL

\* Neither late results nor an earlier opening move the end of the time for
\* which an open breaker rejects: it is Timeout after the latest opening.
THEOREM OpenForTimeout == BreakerSpec => []OpenPeriod
<1>1. BreakerInv => OpenPeriod
  BY DEF BreakerInv, OpenPeriod, TimedOut
<1> QED BY <1>1, BreakerInvariance, PTL

\* However many requests race for the probe slots, allow() exceeds ProbeCount
\* by no more than the request that made the step to half-open.
THEOREM HalfOpenBound == BreakerSpec => [](state = "half_open" => admitted <= ProbeCount + 1)
<1>1. BreakerInv => (state = "half_open" => admitted <= ProbeCount + 1)
  BY BreakerAssumption DEF BreakerInv, BreakerTypeOK
<1> QED BY <1>1, BreakerInvariance, PTL

\* Why Recloses fails, for every configuration: record() never closes a breaker
\* that has tripped, because the failures that tripped it are still counted and
\* closing asks for none.
THEOREM NeverCloses == BreakerSpec => [][state # "closed" => state' # "closed"]_breakerVars
<1>1. BreakerInv /\ [BreakerNext]_breakerVars => [state # "closed" => state' # "closed"]_breakerVars
  <2> SUFFICES ASSUME BreakerInv, BreakerNext, state # "closed"
               PROVE  state' # "closed"
    BY DEF breakerVars
  <2>1. ASSUME NEW r \in Callers, NEW failed \in BOOLEAN, Record(r, failed)
        PROVE  state' # "closed"
    BY <2>1 DEF Record, NextState, Recovers, BreakerInv, BreakerTypeOK
  <2> QED BY <2>1 DEF BreakerNext, AllowClosed, AllowTrial, AllowProbe, Reject, Panic, Tick, breakerVars
<1> QED BY <1>1, BreakerInvariance, PTL DEF BreakerSpec

(***************************************************************************)
(*                            The token bucket                             *)
(*                                                                         *)
(* Level is what the bucket holds less the time of its last refill.        *)
(* Refilling leaves it as it is, the cap only lowers it and an admission   *)
(* lowers it by Cost, so tokens spent are paid for by Level.               *)
(***************************************************************************)

bvars == <<real, bucketVars>>

Level == tokens - ts

\* The bucket has been ran: it was last run at a time that has passed, and it
\* would hold something at that time.
Stored ==
  /\ ran \in Nat
  /\ ran <= real
  /\ last \in Nat
  /\ last <= ran
  /\ ts <= ran
  /\ Level + last >= 0

Paid == spent > 0 => spent + Level <= Capacity - from + Skew

BucketIInv ==
  /\ BucketTypeOK
  /\ from <= real
  /\ ran = -TTL \/ Stored
  /\ ran = -TTL => spent = 0
  /\ Paid

LEMMA BucketInitIInv ==
  ClockInit /\ BucketInit => BucketIInv
BY SkewAssumption, BucketAssumption
DEF ClockInit, BucketInit, BucketIInv, BucketTypeOK, Stored, Paid

\* A bucket whose hash has expired would have been full.
LEMMA FullWhenExpired ==
  ASSUME BucketIInv, NEW now \in Readings, Expired, ran # -TTL
  PROVE  Capacity <= tokens + now - ts
BY SkewAssumption, BucketAssumption
DEF BucketIInv, BucketTypeOK, Stored, Level, Readings, Expired

\* What the script finds is at most what refilling makes of the stored tokens.
LEMMA RefillPaid ==
  ASSUME BucketIInv, NEW now \in Readings
  PROVE  /\ now \in Int
         /\ now <= real
         /\ now >= real - Skew
         /\ Refilled(now) \in Int
         /\ Refilled(now) <= Capacity
         /\ ran # -TTL => Refilled(now) - now <= Level
         /\ Refilled(now) = Capacity \/ (ran # -TTL /\ Refilled(now) - now = Level)
<1>1. /\ now \in Int
      /\ now <= real
      /\ now >= real - Skew
  BY SkewAssumption DEF BucketIInv, BucketTypeOK, Readings
<1>2. CASE Expired
  BY <1>1, <1>2, FullWhenExpired, BucketAssumption DEF BucketIInv, BucketTypeOK, Refilled, Level
<1>3. CASE ~Expired
  <2>1. ran # -TTL
    BY <1>3, BucketAssumption DEF Expired, BucketIInv, BucketTypeOK
  <2>. QED
    BY <1>1, <1>3, <2>1, BucketAssumption DEF BucketIInv, BucketTypeOK, Refilled, Least, Level
<1>. QED
  BY <1>2, <1>3

LEMMA RunIInv ==
  ASSUME BucketIInv, NEW now \in Readings, RunBucket(now), UNCHANGED real
  PROVE  BucketIInv'
<1>1. /\ now \in Int
      /\ now <= real
      /\ now >= real - Skew
      /\ Refilled(now) \in Int
      /\ Refilled(now) <= Capacity
      /\ ran # -TTL => Refilled(now) - now <= Level
      /\ Refilled(now) = Capacity \/ (ran # -TTL /\ Refilled(now) - now = Level)
  BY RefillPaid
<1>2. CASE Enough(now)
  <2>1. /\ tokens' = Refilled(now) - Cost
        /\ ts' = now
        /\ ran' = real
        /\ spent' = spent + Cost
        /\ last' = real
        /\ from' = from
        /\ real' = real
        /\ Refilled(now) >= Cost
    BY <1>2 DEF RunBucket, Enough
  <2>2. BucketTypeOK'
    BY <1>1, <2>1, SkewAssumption, BucketAssumption DEF BucketIInv, BucketTypeOK
  <2>3. Stored' /\ from' <= real' /\ ran' # -TTL
    BY <1>1, <2>1, SkewAssumption, BucketAssumption DEF BucketIInv, BucketTypeOK, Stored, Level
  <2>4. Paid'
    BY <1>1, <2>1, SkewAssumption, BucketAssumption DEF BucketIInv, BucketTypeOK, Paid, Level
  <2>. QED
    BY <2>2, <2>3, <2>4 DEF BucketIInv
<1>3. CASE ~Enough(now)
  <2>1. /\ tokens' = Refilled(now)
        /\ ts' = now
        /\ ran' = real
        /\ spent' = spent
        /\ last' = last
        /\ from' = from
        /\ real' = real
    BY <1>3 DEF RunBucket
  <2>2. Refilled(now) < Cost /\ Refilled(now) # Capacity
    BY <1>1, <1>3, BucketAssumption DEF Enough
  <2>3. ran # -TTL /\ Refilled(now) - now = Level
    BY <1>1, <2>2
  <2>4. BucketTypeOK'
    BY <1>1, <2>1, SkewAssumption, BucketAssumption DEF BucketIInv, BucketTypeOK
  <2>5. Stored' /\ from' <= real' /\ ran' # -TTL
    BY <1>1, <2>1, <2>3, SkewAssumption, BucketAssumption
    DEF BucketIInv, BucketTypeOK, Stored, Level
  <2>6. Paid'
    BY <1>1, <2>1, <2>3, SkewAssumption, BucketAssumption DEF BucketIInv, BucketTypeOK, Paid, Level
  <2>. QED
    BY <2>4, <2>5, <2>6 DEF BucketIInv
<1>. QED
  BY <1>2, <1>3

LEMMA BucketNextIInv ==
  BucketIInv /\ [BucketNext]_bvars => BucketIInv'
<1>. SUFFICES ASSUME BucketIInv, [BucketNext]_bvars PROVE BucketIInv'
  OBVIOUS
<1>1. CASE real' = real + 1 /\ UNCHANGED bucketVars
  BY <1>1, SkewAssumption, BucketAssumption
  DEF BucketIInv, BucketTypeOK, Stored, Paid, Level, bucketVars
<1>2. ASSUME NEW now \in Readings, RunBucket(now), UNCHANGED real PROVE BucketIInv'
  BY <1>2, RunIInv
<1>3. CASE Watch
  BY <1>3, SkewAssumption, BucketAssumption
  DEF BucketIInv, BucketTypeOK, Stored, Paid, Level, Watch
<1>4. CASE UNCHANGED bvars
  BY <1>4 DEF BucketIInv, BucketTypeOK, Stored, Paid, Level, bvars, bucketVars
<1>. QED
  BY <1>1, <1>2, <1>3, <1>4 DEF BucketNext

LEMMA BucketInvariance == BucketSpec => []BucketIInv
BY BucketInitIInv, BucketNextIInv, PTL DEF BucketSpec, bvars

\* The bucket never holds more than its capacity, and its time stamp is a
\* reading of the time of the last script.
THEOREM BucketTypeCorrect == BucketSpec => []BucketTypeOK
<1>1. BucketIInv => BucketTypeOK
  BY DEF BucketIInv
<1>. QED
  BY <1>1, BucketInvariance, PTL

\* In any stretch of time the bucket admits at most its capacity, what is
\* refilled meanwhile and the skew, whatever the order of the readings the
\* script is given and however often the hash expires.
THEOREM BucketBounded == BucketSpec => []BucketBound
<1>1. BucketIInv => BucketBound
  BY SkewAssumption, BucketAssumption
  DEF BucketIInv, BucketTypeOK, Stored, Paid, Level, BucketBound
<1>. QED
  BY <1>1, BucketInvariance, PTL

\* The script refuses a request only if one was admitted less than the cost and
\* the skew before: refused requests do not put off the next admission.
THEOREM RefusalExplained == BucketSpec => []BucketRefusal
<1>1. BucketIInv => BucketRefusal
  <2>. SUFFICES ASSUME BucketIInv, NEW now \in Readings, ~Enough(now)
                PROVE  real - last < Cost + Skew
    BY DEF BucketRefusal
  <2>1. /\ now \in Int
        /\ now >= real - Skew
        /\ Refilled(now) \in Int
        /\ Refilled(now) = Capacity \/ (ran # -TTL /\ Refilled(now) - now = Level)
    BY RefillPaid
  <2>2. Refilled(now) < Cost /\ Refilled(now) # Capacity
    BY <2>1, BucketAssumption DEF Enough
  <2>. QED
    BY <2>1, <2>2, SkewAssumption, BucketAssumption
    DEF BucketIInv, BucketTypeOK, Stored, Level
<1>. QED
  BY <1>1, BucketInvariance, PTL

(***************************************************************************)
(*                      The window, and what passes                        *)
(***************************************************************************)

\* How far back the window reaches for certain.
Horizon == real - (Win - Skew)

\* What was admitted since is in the sorted set; what the sorted set could
\* count against a request has been admitted; what passed was admitted.
WindowInv ==
  /\ real \in Nat
  /\ WindowTypeOK
  /\ IsTable(passed)
  /\ \A i \in DOMAIN log : log[i] > Horizon =>
       /\ i \in DOMAIN window
       /\ log[i] - Skew <= window[i]
       /\ log[i] <= added
  /\ \A i \in DOMAIN window : window[i] > real - Win - Skew =>
       i \in DOMAIN log /\ window[i] <= log[i]
  /\ \A i \in DOMAIN log : log[i] <= real
  /\ \A i \in DOMAIN passed : passed[i] > Horizon => i \in DOMAIN log /\ log[i] = passed[i]
  /\ WindowBound

LEMMA KeepTable ==
  ASSUME NEW times, IsTable(times), NEW ids \in SUBSET DOMAIN times
  PROVE  /\ IsTable(Keep(times, ids)) /\ DOMAIN Keep(times, ids) = ids
         /\ \A i \in ids : Keep(times, ids)[i] = times[i]
<1>1. IsFiniteSet(ids)
  BY FS_Subset DEF IsTable
<1> QED BY <1>1 DEF IsTable, Keep

LEMMA PutTable ==
  ASSUME NEW times, IsTable(times), NEW id \in Nat, NEW t \in Int
  PROVE  IsTable(Put(times, id, t))
<1>1. IsFiniteSet(DOMAIN times \cup {id})
  BY Zenon, FS_AddElement DEF IsTable
<1> QED BY <1>1 DEF IsTable, Put

\* There is always an id that nobody has.
LEMMA FreshId ==
  ASSUME WindowInv
  PROVE  reqID \in Nat /\ reqID \notin Used
<1> DEFINE n == Cardinality(Used)
<1>1. IsFiniteSet(Used)
  <2>1. IsFiniteSet(DOMAIN window) /\ IsFiniteSet(DOMAIN log) /\ IsFiniteSet(DOMAIN passed)
    BY DEF WindowInv, WindowTypeOK, IsTable
  <2>2. IsFiniteSet(DOMAIN window \cup DOMAIN log)
    BY Zenon, <2>1, FS_Union
  <2> QED BY Zenon, <2>1, <2>2, FS_Union DEF Used
<1>2. n \in Nat
  BY <1>1, FS_CardinalityType
<1>3. \E i \in 0 .. n : i \notin Used
  <2> SUFFICES ASSUME 0 .. n \subseteq Used PROVE FALSE
    OBVIOUS
  <2>1. Cardinality(0 .. n) <= n
    BY Zenon, <1>1, FS_Subset
  <2>2. Cardinality(0 .. n) = n + 1
    BY <1>2, FS_Interval
  <2> HIDE DEF n
  <2> QED BY <1>2, <2>1, <2>2
<1>4. reqID \in 0 .. n /\ reqID \notin Used
  BY <1>3 DEF reqID
<1> HIDE DEF n
<1> QED BY <1>2, <1>4

\* A smaller set of ids is smaller.
LEMMA Fewer ==
  ASSUME NEW S, IsFiniteSet(S), NEW T \in SUBSET S
  PROVE  IsFiniteSet(T) /\ Cardinality(T) \in Nat /\ Cardinality(S) \in Nat /\ Cardinality(T) <= Cardinality(S)
BY FS_Subset, FS_CardinalityType

\* Whatever was admitted within the horizon counts against a request.
LEMMA RecentIsLive ==
  ASSUME WindowInv, NEW now \in Readings
  PROVE  /\ After(log, Horizon) \subseteq Live(now)
         /\ Live(now) \in SUBSET DOMAIN window
<1>1. real \in Nat /\ now \in Int /\ now <= real /\ added \in Int /\ Win \in Nat /\ Skew \in Nat /\ Grace \in Nat
  BY SkewAssumption, WindowAssumption DEF WindowInv, WindowTypeOK, Readings
<1>2. Live(now) \in SUBSET DOMAIN window
  BY DEF Live, After
<1>3. ASSUME NEW i \in DOMAIN log, log[i] > Horizon PROVE i \in Live(now)
  <2>1. i \in DOMAIN window /\ log[i] - Skew <= window[i] /\ log[i] <= added
    BY <1>3 DEF WindowInv
  <2>2. log[i] \in Int /\ window[i] \in Int
    BY <2>1 DEF WindowInv, WindowTypeOK, IsTable
  <2>3. ~(real >= added + Win + Grace) /\ window[i] > now - Win
    BY <1>1, <1>3, <2>1, <2>2 DEF Horizon
  <2> QED BY <2>1, <2>3 DEF Live, After
<1> QED BY <1>2, <1>3 DEF After

LEMMA AdmitKeeps ==
  ASSUME WindowInv, NEW now \in Readings, NEW id \in Nat, id \notin Used, Room(now),
         window' = Put(Keep(window, Live(now)), id, now), added' = real,
         log' = Put(log, id, real), UNCHANGED real,
         passed' = passed \/ passed' = Put(passed, id, real)
  PROVE  WindowInv'
<1>1. /\ real \in Nat /\ real \in Int /\ now \in Int /\ now <= real /\ real - Skew <= now
      /\ Win \in Nat /\ Skew \in Nat /\ Limit \in Nat
  <2>1. real \in Nat /\ Win \in Nat /\ Skew \in Nat /\ Limit \in Nat
    BY Zenon, SkewAssumption, WindowAssumption DEF WindowInv
  <2> QED BY <2>1 DEF Readings
<1>2. id \notin DOMAIN window /\ id \notin DOMAIN log /\ id \notin DOMAIN passed
  BY DEF Used
<1>3. After(log, Horizon) \subseteq Live(now) /\ Live(now) \in SUBSET DOMAIN window
  BY RecentIsLive
<1>4. /\ IsTable(window) /\ IsTable(log) /\ IsTable(passed)
      /\ \A i \in DOMAIN log : log[i] \in Int
      /\ \A i \in DOMAIN window : window[i] \in Int
  BY DEF WindowInv, WindowTypeOK, IsTable
<1>5. /\ IsTable(window') /\ DOMAIN window' = Live(now) \cup {id} /\ window'[id] = now
      /\ \A i \in Live(now) : window'[i] = window[i]
  <2> DEFINE kept == Keep(window, Live(now))
  <2>1. IsTable(kept) /\ DOMAIN kept = Live(now) /\ \A i \in Live(now) : kept[i] = window[i]
    BY <1>3, <1>4, KeepTable
  <2> HIDE DEF kept
  <2>2. window' = Put(kept, id, now)
    BY DEF kept
  <2>3. IsTable(window')
    BY <1>1, <2>1, <2>2, PutTable
  <2>4. /\ DOMAIN window' = DOMAIN kept \cup {id} /\ window'[id] = now
        /\ \A i \in DOMAIN kept : i # id => window'[i] = kept[i]
    BY <2>2 DEF Put
  <2> QED BY Zenon, <1>2, <1>3, <2>1, <2>3, <2>4
<1>6. /\ IsTable(log') /\ DOMAIN log' = DOMAIN log \cup {id} /\ log'[id] = real
      /\ \A i \in DOMAIN log : log'[i] = log[i]
  <2>1. IsTable(log')
    BY <1>1, <1>4, PutTable
  <2>2. /\ DOMAIN log' = DOMAIN log \cup {id} /\ log'[id] = real
        /\ \A i \in DOMAIN log : log'[i] = log[i]
    BY <1>2 DEF Put
  <2> QED BY <2>1, <2>2
<1>7. /\ IsTable(passed') /\ DOMAIN passed' \subseteq DOMAIN passed \cup {id}
      /\ \A i \in DOMAIN passed' : i # id => passed'[i] = passed[i]
      /\ id \in DOMAIN passed' => passed'[id] = real
  <2>1. CASE passed' = passed
    BY <1>2, <1>4, <2>1
  <2>2. CASE passed' = Put(passed, id, real)
    <3>1. IsTable(passed')
      BY <1>1, <1>4, <2>2, PutTable
    <3>2. /\ DOMAIN passed' = DOMAIN passed \cup {id} /\ passed'[id] = real
          /\ \A i \in DOMAIN passed : passed'[i] = passed[i]
      BY <1>2, <2>2 DEF Put
    <3> QED BY <3>1, <3>2
  <2> QED BY <2>1, <2>2
<1>8. Horizon' = Horizon
  BY DEF Horizon
<1>9. WindowTypeOK'
  BY <1>1, <1>5, <1>6 DEF WindowTypeOK
<1>10. ASSUME NEW i \in DOMAIN log', log'[i] > Horizon'
       PROVE  i \in DOMAIN window' /\ log'[i] - Skew <= window'[i] /\ log'[i] <= added'
  <2>1. CASE i = id
    BY <1>1, <1>5, <1>6, <2>1
  <2>2. CASE i # id
    <3>1. i \in DOMAIN log /\ log[i] > Horizon /\ log'[i] = log[i]
      BY <1>6, <1>8, <1>10, <2>2
    <3>2. i \in Live(now) /\ log[i] - Skew <= window[i] /\ log[i] <= real
      BY Zenon, <1>3, <3>1 DEF After, WindowInv
    <3> QED BY <1>5, <3>1, <3>2
  <2> QED BY <2>1, <2>2
<1>11. ASSUME NEW i \in DOMAIN window', window'[i] > real' - Win - Skew
       PROVE  i \in DOMAIN log' /\ window'[i] <= log'[i]
  <2>1. CASE i = id
    BY <1>1, <1>5, <1>6, <2>1
  <2>2. CASE i # id
    <3>1. i \in DOMAIN window /\ window'[i] = window[i]
      BY Zenon, <1>3, <1>5, <2>2
    <3>2. i \in DOMAIN log /\ window[i] <= log[i]
      BY Zenon, <1>11, <3>1 DEF WindowInv
    <3> QED BY <1>6, <3>1, <3>2
  <2> QED BY <2>1, <2>2
<1>12. ASSUME NEW i \in DOMAIN log' PROVE log'[i] <= real'
  <2>1. real <= real
    BY <1>1
  <2>2. CASE i = id
    BY Zenon, <1>6, <2>1, <2>2
  <2>3. CASE i # id
    BY Zenon, <1>6, <2>3 DEF WindowInv
  <2> QED BY <2>2, <2>3
<1>13. ASSUME NEW i \in DOMAIN passed', passed'[i] > Horizon' PROVE i \in DOMAIN log' /\ log'[i] = passed'[i]
  <2>1. CASE i = id
    BY <1>6, <1>7, <1>13, <2>1
  <2>2. CASE i # id
    <3>1. i \in DOMAIN passed /\ passed'[i] = passed[i]
      BY <1>7, <2>2
    <3>2. i \in DOMAIN log /\ log[i] = passed[i]
      BY Zenon, <1>8, <1>13, <3>1 DEF WindowInv
    <3> QED BY <1>6, <3>1, <3>2
  <2> QED BY <2>1, <2>2
<1>14. WindowBound'
  <2>1. After(log', Horizon') \subseteq Live(now) \cup {id}
    BY <1>3, <1>6, <1>8 DEF After
  <2>2. IsFiniteSet(Live(now)) /\ Cardinality(Live(now)) \in Nat
    BY <1>3, <1>4, Fewer DEF IsTable
  <2>3. id \notin Live(now)
    BY <1>2, <1>3
  <2>4. IsFiniteSet(Live(now) \cup {id}) /\ Cardinality(Live(now) \cup {id}) = Cardinality(Live(now)) + 1
    BY Zenon, <2>2, <2>3, FS_AddElement
  <2>5. Cardinality(After(log', Horizon')) <= Cardinality(Live(now)) + 1 /\ Cardinality(After(log', Horizon')) \in Nat
    BY <2>1, <2>4, Fewer
  <2>6. Cardinality(Live(now)) + 1 <= Limit
    BY <1>1, <2>2 DEF Room
  <2>7. Cardinality(After(log', Horizon')) <= Limit
    BY <1>1, <2>2, <2>5, <2>6
  <2> QED BY <2>7 DEF WindowBound, Horizon
<1> QED BY <1>1, <1>7, <1>9, <1>10, <1>11, <1>12, <1>13, <1>14 DEF WindowInv

LEMMA RefuseKeeps ==
  ASSUME WindowInv, NEW now \in Readings,
         window' = Keep(window, Live(now)), UNCHANGED <<real, added, log, passed>>
  PROVE  WindowInv'
<1>1. After(log, Horizon) \subseteq Live(now) /\ Live(now) \in SUBSET DOMAIN window
  BY RecentIsLive
<1>2. IsTable(window') /\ DOMAIN window' = Live(now) /\ \A i \in Live(now) : window'[i] = window[i]
  <2>1. IsTable(window)
    BY DEF WindowInv, WindowTypeOK
  <2> QED BY <1>1, <2>1, KeepTable
<1>3. Horizon' = Horizon /\ WindowTypeOK' /\ WindowBound'
  BY <1>2 DEF Horizon, WindowInv, WindowTypeOK, WindowBound
<1>4. ASSUME NEW i \in DOMAIN log', log'[i] > Horizon'
       PROVE  i \in DOMAIN window' /\ log'[i] - Skew <= window'[i] /\ log'[i] <= added'
  BY Zenon, <1>1, <1>2, <1>3, <1>4 DEF After, WindowInv
<1>5. ASSUME NEW i \in DOMAIN window', window'[i] > real' - Win - Skew
       PROVE  i \in DOMAIN log' /\ window'[i] <= log'[i]
  BY Zenon, <1>1, <1>2, <1>5 DEF WindowInv
<1> QED BY Zenon, <1>3, <1>4, <1>5 DEF WindowInv

\* Time takes requests out of the horizon, and out of the tables.
LEMMA TickKeeps ==
  ASSUME WindowInv, LimiterTick
  PROVE  WindowInv'
<1>1. /\ real \in Nat /\ real' = real + 1 /\ Win \in Nat /\ Skew \in Nat /\ Limit \in Nat
      /\ UNCHANGED <<window, added>>
  BY Zenon, SkewAssumption, WindowAssumption DEF WindowInv, LimiterTick
<1>2. Horizon' = Horizon + 1 /\ Horizon \in Int
  BY <1>1 DEF Horizon
<1>3. /\ IsTable(window) /\ IsTable(log) /\ IsTable(passed)
      /\ \A i \in DOMAIN log : log[i] \in Int
      /\ \A i \in DOMAIN window : window[i] \in Int
      /\ \A i \in DOMAIN passed : passed[i] \in Int
  BY DEF WindowInv, WindowTypeOK, IsTable
<1>4. /\ IsTable(log') /\ DOMAIN log' = {i \in DOMAIN log : log[i] > real' - Win - Skew}
      /\ \A i \in DOMAIN log' : log'[i] = log[i]
  BY <1>3, KeepTable DEF LimiterTick, After
<1>5. /\ IsTable(passed') /\ DOMAIN passed' \subseteq DOMAIN passed
      /\ \A i \in DOMAIN passed' : passed'[i] = passed[i]
  BY <1>3, KeepTable DEF LimiterTick, After
<1>6. WindowTypeOK' /\ real' \in Nat
  BY <1>1, <1>4 DEF WindowInv, WindowTypeOK
<1>7. ASSUME NEW i \in DOMAIN log', log'[i] > Horizon'
      PROVE  i \in DOMAIN window' /\ log'[i] - Skew <= window'[i] /\ log'[i] <= added'
  <2>1. i \in DOMAIN log /\ log'[i] = log[i] /\ log[i] \in Int
    BY <1>3, <1>4
  <2>2. log[i] > Horizon
    BY <1>2, <1>7, <2>1
  <2> QED BY <1>1, <2>1, <2>2 DEF WindowInv
<1>8. ASSUME NEW i \in DOMAIN window', window'[i] > real' - Win - Skew
      PROVE  i \in DOMAIN log' /\ window'[i] <= log'[i]
  <2>1. i \in DOMAIN window /\ window'[i] = window[i] /\ window[i] \in Int
    BY <1>1, <1>3
  <2>2. window[i] > real - Win - Skew
    BY <1>1, <1>8, <2>1
  <2>3. i \in DOMAIN log /\ window[i] <= log[i] /\ log[i] \in Int
    BY <1>3, <2>1, <2>2 DEF WindowInv
  <2>4. log[i] > real' - Win - Skew
    BY <1>1, <1>8, <2>1, <2>3
  <2>5. i \in DOMAIN log' /\ log'[i] = log[i]
    BY Zenon, <1>4, <2>3, <2>4
  <2> QED BY <2>1, <2>3, <2>5
<1>9. ASSUME NEW i \in DOMAIN log' PROVE log'[i] <= real'
  <2>1. i \in DOMAIN log /\ log'[i] = log[i] /\ log[i] \in Int
    BY <1>3, <1>4
  <2>2. log[i] <= real
    BY Zenon, <2>1 DEF WindowInv
  <2>3. real \in Nat /\ real' = real + 1
    BY Zenon, <1>1
  <2> QED BY <2>1, <2>2, <2>3
<1>10. ASSUME NEW i \in DOMAIN passed', passed'[i] > Horizon'
       PROVE  i \in DOMAIN log' /\ log'[i] = passed'[i]
  <2>1. i \in DOMAIN passed /\ passed'[i] = passed[i] /\ passed[i] \in Int
    BY <1>3, <1>5
  <2>2. passed[i] > Horizon /\ passed[i] > real' - Win - Skew
    BY <1>1, <1>2, <1>10, <2>1 DEF Horizon
  <2>3. i \in DOMAIN log /\ log[i] = passed[i]
    BY <2>1, <2>2 DEF WindowInv
  <2> QED BY Zenon, <1>4, <2>1, <2>2, <2>3
<1>11. WindowBound'
  <2>1. After(log', Horizon') \subseteq After(log, Horizon)
    BY <1>2, <1>3, <1>4 DEF After
  <2>2. IsFiniteSet(After(log, Horizon))
    <3>1. After(log, Horizon) \subseteq DOMAIN log
      BY DEF After
    <3> QED BY <1>3, <3>1, FS_Subset DEF IsTable
  <2>3. Cardinality(After(log, Horizon)) <= Limit
    BY DEF WindowInv, WindowBound, Horizon
  <2>4. Cardinality(After(log', Horizon')) <= Limit
    BY <1>1, <2>1, <2>2, <2>3, Fewer
  <2> QED BY <2>4 DEF WindowBound, Horizon
<1> QED BY Zenon, <1>5, <1>6, <1>7, <1>8, <1>9, <1>10, <1>11 DEF WindowInv

LEMMA RunKeeps ==
  ASSUME WindowInv, NEW now \in Readings, RunWindow(now, reqID), UNCHANGED real,
         passed' = passed \/ (Room(now) /\ passed' = Put(passed, reqID, real))
  PROVE  WindowInv'
<1>1. reqID \in Nat /\ reqID \notin Used
  BY FreshId
<1>2. CASE Room(now)
  BY <1>1, <1>2, AdmitKeeps DEF RunWindow
<1>3. CASE ~Room(now)
  BY <1>3, RefuseKeeps DEF RunWindow
<1> QED BY <1>2, <1>3

LEMMA WindowKept ==
  ASSUME WindowInv, UNCHANGED <<real, windowVars, passed>>
  PROVE  WindowInv'
BY DEF WindowInv, windowVars, WindowTypeOK, WindowBound, Horizon

LEMMA WindowStart ==
  ASSUME LimiterInit
  PROVE  WindowInv
<1>1. IsTable(Empty) /\ DOMAIN Empty = {}
  BY FS_EmptySet DEF IsTable, Empty
<1>2. window = Empty /\ log = Empty /\ passed = Empty /\ real = 0 /\ added = -(Win + Grace)
  BY DEF LimiterInit, WindowInit, ClockInit
<1>3. WindowTypeOK
  BY <1>1, <1>2, WindowAssumption DEF WindowTypeOK
<1>4. WindowBound
  <2>1. After(log, Horizon) = {}
    BY <1>1, <1>2 DEF After
  <2> QED BY <2>1, FS_EmptySet, WindowAssumption DEF WindowBound, Horizon
<1> QED BY <1>1, <1>2, <1>3, <1>4 DEF WindowInv

LEMMA WindowStep ==
  ASSUME WindowInv, [LimiterNext]_limiterVars
  PROVE  WindowInv'
<1>1. CASE LimiterTick
  BY <1>1, TickKeeps
<1>2. CASE Watch /\ UNCHANGED <<windowVars, bucketSays, passed>>
  BY <1>2, WindowKept DEF Watch
<1>3. ASSUME NEW r \in Checks, CallBucket(r) \/ BucketFails(r) \/ BucketUnanswered(r) \/ WindowFails(r)
      PROVE  WindowInv'
  BY <1>3, WindowKept DEF CallBucket, BucketFails, BucketUnanswered, WindowFails
<1>4. ASSUME NEW r \in Checks, CallWindow(r) PROVE WindowInv'
  <2>1. PICK now \in Readings :
          RunWindow(now, reqID) /\ Passes(r, IF Room(now) THEN "yes" ELSE "no")
    BY <1>4 DEF CallWindow
  <2>2. passed' = passed \/ (Room(now) /\ passed' = Put(passed, reqID, real))
    <3>1. ASSUME ~Room(now) PROVE passed' = passed
      <4>1. Passes(r, "no")
        BY <2>1, <3>1
      <4> QED BY <4>1 DEF Passes, Allowed
    <3>2. passed' = passed \/ passed' = Put(passed, reqID, real)
      BY <2>1 DEF Passes
    <3>3. CASE Room(now)
      BY <3>2, <3>3
    <3>4. CASE ~Room(now)
      BY <3>1, <3>4
    <3> QED BY <3>3, <3>4
  <2> QED BY <1>4, <2>1, <2>2, RunKeeps DEF CallWindow
<1>5. ASSUME NEW r \in Checks, WindowUnanswered(r) PROVE WindowInv'
  <2>1. PICK now \in Readings : RunWindow(now, reqID)
    BY <1>5 DEF WindowUnanswered
  <2>2. passed' = passed \/ (Room(now) /\ passed' = Put(passed, reqID, real))
    BY <1>5 DEF WindowUnanswered
  <2> QED BY <1>5, <2>1, <2>2, RunKeeps DEF WindowUnanswered
<1>6. CASE UNCHANGED limiterVars
  BY <1>6, WindowKept DEF limiterVars
<1> QED BY <1>1, <1>2, <1>3, <1>4, <1>5, <1>6 DEF LimiterNext

LEMMA WindowInvariance == LimiterSpec => []WindowInv
BY WindowStart, WindowStep, PTL DEF LimiterSpec

\* However the readings arrive, the script admits no more than Limit requests
\* in a stretch of time as long as the window less the skew.
THEOREM WindowBounded == LimiterSpec => []WindowBound
<1>1. WindowInv => WindowBound
  BY DEF WindowInv
<1> QED BY <1>1, WindowInvariance, PTL

\* A refusal is accounted for by admissions.
THEOREM WindowRefusalExplained == LimiterSpec => []WindowRefusal
<1>1. WindowInv => WindowRefusal
  <2> SUFFICES ASSUME WindowInv, NEW now \in Readings, ~Room(now)
               PROVE  Cardinality(DOMAIN log) >= Limit
    BY DEF WindowRefusal
  <2>1. /\ real \in Nat /\ now \in Int /\ real - Skew <= now
        /\ Win \in Nat /\ Skew \in Nat /\ Limit \in Nat
    <3>1. real \in Nat /\ Win \in Nat /\ Skew \in Nat /\ Limit \in Nat
      BY Zenon, SkewAssumption, WindowAssumption DEF WindowInv
    <3> QED BY <3>1 DEF Readings
  <2>2. Live(now) \subseteq DOMAIN log
    <3> SUFFICES ASSUME NEW i \in DOMAIN window, window[i] > now - Win PROVE i \in DOMAIN log
      BY DEF Live, After
    <3>1. window[i] \in Int
      BY DEF WindowInv, WindowTypeOK, IsTable
    <3>2. window[i] > real - Win - Skew
      BY <2>1, <3>1
    <3> QED BY <3>2 DEF WindowInv
  <2>3. IsFiniteSet(DOMAIN log)
    BY DEF WindowInv, WindowTypeOK, IsTable
  <2>4. /\ Cardinality(Live(now)) \in Nat /\ Cardinality(DOMAIN log) \in Nat
        /\ Cardinality(Live(now)) <= Cardinality(DOMAIN log)
    BY <2>2, <2>3, Fewer
  <2> QED BY <2>1, <2>4 DEF Room
<1> QED BY <1>1, WindowInvariance, PTL

\* What passes check is among what the window has admitted, also where the
\* bucket's call has failed and check relies on the window alone.
THEOREM WindowIsHardCap == LimiterSpec => []HardCap
<1>1. WindowInv => HardCap
  <2> SUFFICES ASSUME WindowInv PROVE Cardinality(After(passed, Horizon)) <= Limit
    BY DEF HardCap, Horizon
  <2>1. After(passed, Horizon) \subseteq After(log, Horizon)
    BY DEF WindowInv, After
  <2>2. IsFiniteSet(After(log, Horizon))
    <3>1. After(log, Horizon) \subseteq DOMAIN log /\ IsFiniteSet(DOMAIN log)
      BY DEF After, WindowInv, WindowTypeOK, IsTable
    <3> QED BY <3>1, FS_Subset
  <2>3. Cardinality(After(log, Horizon)) <= Limit
    BY DEF WindowInv, WindowBound, Horizon
  <2> QED BY <2>1, <2>2, <2>3, Fewer, WindowAssumption
<1> QED BY <1>1, WindowInvariance, PTL

\* The checks run the bucket's script and nothing else on the bucket.
LEMMA ChecksRunTheBucket == LimiterSpec => BucketSpec
<1>1. LimiterInit => ClockInit /\ BucketInit
  BY DEF LimiterInit
<1>2. ASSUME [LimiterNext]_limiterVars PROVE [BucketNext]_<<real, bucketVars>>
  <2>1. CASE LimiterTick
    BY <2>1 DEF LimiterTick, BucketNext
  <2>2. CASE Watch /\ UNCHANGED <<windowVars, bucketSays, passed>>
    BY <2>2 DEF BucketNext
  <2>3. ASSUME NEW r \in Checks, CallBucket(r) \/ BucketUnanswered(r)
        PROVE  BucketNext
    BY <2>3 DEF CallBucket, BucketUnanswered, BucketNext
  <2>4. ASSUME NEW r \in Checks, BucketFails(r) \/ CallWindow(r) \/ WindowFails(r) \/ WindowUnanswered(r)
        PROVE  UNCHANGED <<real, bucketVars>>
    BY <2>4 DEF BucketFails, CallWindow, WindowFails, WindowUnanswered
  <2>5. CASE UNCHANGED limiterVars
    BY <2>5 DEF limiterVars
  <2> QED BY <1>2, <2>1, <2>2, <2>3, <2>4, <2>5 DEF LimiterNext
<1> QED BY <1>1, <1>2, PTL DEF LimiterSpec, BucketSpec

\* The checks of several pods leave each client's bucket within its bounds.
THEOREM ChecksKeepTheBucket == LimiterSpec => [](BucketBound /\ BucketRefusal)
BY ChecksRunTheBucket, BucketBounded, RefusalExplained, PTL

\* The bucket, the window and the checks keep their types.
THEOREM LimiterTypes == LimiterSpec => []LimiterTypeOK
<1> DEFINE Said == bucketSays \in [Checks -> Replies \cup {"idle"}]
<1>1. LimiterInit => Said
  BY DEF LimiterInit
<1>2. Said /\ [LimiterNext]_limiterVars => Said'
  BY Zenon DEF LimiterNext, limiterVars, LimiterTick, Watch, CallBucket, BucketFails, BucketUnanswered,
         CallWindow, WindowFails, WindowUnanswered, Hear, Replies
<1>3. LimiterSpec => []Said
  BY <1>1, <1>2, PTL DEF LimiterSpec
<1>4. WindowInv /\ BucketTypeOK /\ Said => LimiterTypeOK
  BY DEF WindowInv, LimiterTypeOK
<1> QED BY <1>3, <1>4, WindowInvariance, ChecksRunTheBucket, BucketTypeCorrect, PTL
=============================================================================
