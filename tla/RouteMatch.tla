----------------------------- MODULE RouteMatch -----------------------------
(***************************************************************************)
(* How the router answers a request: ServeHTTP loads the pointer to the    *)
(* route table once, without a lock, and goes through the table's exact,   *)
(* prefix and regex entries in turn, while reload() may publish new tables.*)
(* Module Router models which routes get into a table, and when.           *)
(*                                                                         *)
(* A path is a sequence of letters, "/" being one of them.  Host names     *)
(* come without their port and methods in one letter case, which is how    *)
(* the code compares them.                                                 *)
(***************************************************************************)
EXTENDS Integers, Sequences, FiniteSets

CONSTANTS
  Letters,   \* what paths are made of
  Configs,   \* the sets of active routes the store may hold
  Requests,
  Found,     \* the pairs of a pattern and a path it is found in
  NoRoute

VARIABLES
  routes,      \* the routes the published table was built from
  routeTable,  \* r.table
  req,         \* the request that is being matched
  asked        \* history: the routes behind the table the request has loaded

matchVars == <<routes, routeTable, req, asked>>

Modes == {"exact", "prefix", "regex", "unset"}

Paths == Seq(Letters)

AllRoutes == UNION Configs

ASSUME MatchAssumption ==
  /\ "/" \in Letters
  /\ NoRoute \notin AllRoutes
  /\ \A r \in AllRoutes : r.mode \in Modes /\ r.path \in Paths /\ r.strip \in BOOLEAN
  /\ \A q \in Requests : q.path \in Paths

-----------------------------------------------------------------------------
(* matchEntry *)

MatchHosts(r, q) == r.hosts = {} \/ q.host \in r.hosts \/ "*" \in r.hosts

MatchMethod(r, q) == r.methods = {} \/ q.method \in r.methods

\* Header.Get returns "" for a header the request does not have.
Get(q, k) == IF k \in DOMAIN q.headers THEN q.headers[k] ELSE ""

MatchHeaders(r, q) == \A k \in DOMAIN r.headers : Get(q, k) = r.headers[k]

HasPrefix(path, p) == Len(p) <= Len(path) /\ \A i \in 1..Len(p) : path[i] = p[i]

\* A route whose mode is unset matches nothing.
MatchEntry(r, q) ==
  /\ MatchHosts(r, q)
  /\ MatchMethod(r, q)
  /\ MatchHeaders(r, q)
  /\ \/ r.mode = "exact" /\ q.path = r.path
     \/ r.mode = "prefix" /\ HasPrefix(q.path, r.path)
     \/ r.mode = "regex" /\ <<r.path, q.path>> \in Found

-----------------------------------------------------------------------------
(* The table that reload() builds *)

\* ListRoutes() ranges over a map, so it returns the routes in any order.
Listings(S) ==
  {s \in [1..Cardinality(S) -> S] : \A r \in S : \E i \in DOMAIN s : s[i] = r}

\* sort.Slice keeps no order among equal lengths.
Sorted(s) == \A i, j \in DOMAIN s : i < j => Len(s[i].path) >= Len(s[j].path)

OfMode(rs, modes) == {r \in rs : r.mode \in modes}

\* t is a table of the routes rs.
Built(rs, t) ==
  /\ t.exact \in Listings(OfMode(rs, {"exact"}))
  /\ t.prefix \in Listings(OfMode(rs, {"prefix", "unset"}))
  /\ t.regex \in Listings(OfMode(rs, {"regex"}))
  /\ Sorted(t.prefix)

Tables(rs) ==
  [exact : Listings(OfMode(rs, {"exact"})),
   prefix : Listings(OfMode(rs, {"prefix", "unset"})),
   regex : Listings(OfMode(rs, {"regex"}))]

\* The store changes to rs, or to something that leaves its routes alone, and
\* reload() publishes a new table.
Reload(rs) ==
  /\ routes' = rs
  /\ routeTable' \in {t \in Tables(rs) : Built(rs, t)}
  /\ UNCHANGED <<req, asked>>

-----------------------------------------------------------------------------
(* ServeHTTP *)

Idle == [stage |-> "idle"]

MatchInit ==
  /\ routes \in Configs
  /\ routeTable \in {t \in Tables(routes) : Built(routes, t)}
  /\ req = Idle
  /\ asked = routes

\* A request arrives and loads the table.
Load(q) ==
  /\ req = Idle
  /\ req' = [stage |-> "exact", q |-> q, snap |-> routeTable]
  /\ asked' = routes
  /\ UNCHANGED <<routes, routeTable>>

IsFirst(s, i, q) ==
  /\ MatchEntry(s[i], q)
  /\ \A j \in DOMAIN s : j < i => ~MatchEntry(s[j], q)

\* TrimPrefix, where an empty path becomes "/".
Trim(path, p) ==
  IF path = p THEN <<"/">> ELSE SubSeq(path, Len(p) + 1, Len(path))

\* Strips whatever the mode is.
ForwardedAlways(r, path) == IF r.strip THEN Trim(path, r.path) ELSE path

\* The path that the upstream of r gets.
Forwarded(r, path) == IF r.strip /\ r.mode = "prefix" THEN Trim(path, r.path) ELSE path

Serve(r, path) == [stage |-> "served", q |-> req.q, route |-> r, path |-> path]

\* The loop over one of the three lists: its first match is served.
Try(stage, list, next) ==
  /\ req.stage = stage
  /\ \/ \E i \in DOMAIN list :
          /\ IsFirst(list, i, req.q)
          /\ req' = Serve(list[i], Forwarded(list[i], req.q.path))
     \/ /\ \A i \in DOMAIN list : ~MatchEntry(list[i], req.q)
        /\ req' = next
  /\ UNCHANGED <<routes, routeTable, asked>>

TryExact == Try("exact", req.snap.exact, [req EXCEPT !.stage = "prefix"])

\* Loads the table again.
TryPrefixAnew == Try("prefix", routeTable.prefix, [req EXCEPT !.stage = "regex"])

TryPrefix == Try("prefix", req.snap.prefix, [req EXCEPT !.stage = "regex"])

\* If nothing matches, the fallback handler gets the request.
TryRegex == Try("regex", req.snap.regex, Serve(NoRoute, req.q.path))

\* The answer has been sent.
Finish ==
  /\ req.stage = "served"
  /\ req' = Idle
  /\ UNCHANGED <<routes, routeTable, asked>>

MatchNext ==
  \/ \E rs \in Configs : Reload(rs)
  \/ \E q \in Requests : Load(q)
  \/ TryExact
  \/ TryPrefix
  \/ TryRegex
  \/ Finish

MatchSpec == MatchInit /\ [][MatchNext]_matchVars

-----------------------------------------------------------------------------
(* Properties *)

\* The shape of the state: the published table and the one a request has loaded
\* are complete tables of their configurations.
MatchTypeOK ==
  /\ routes \in Configs
  /\ asked \in Configs
  /\ Built(routes, routeTable)
  /\ req.stage \in {"idle", "exact", "prefix", "regex", "served"}
  /\ req.stage # "idle" => req.q \in Requests
  /\ req.stage \in {"exact", "prefix", "regex"} => Built(asked, req.snap)
  /\ req.stage = "served" => req.route \in asked \cup {NoRoute} /\ req.path \in Paths

Class(r) == CASE r.mode = "exact" -> 1 [] r.mode = "regex" -> 3 [] OTHER -> 2

\* a goes before b: "Exact, prefix (longest-first), regex".
Before(a, b) ==
  \/ Class(a) < Class(b)
  \/ Class(a) = 2 /\ Class(b) = 2 /\ Len(a.path) > Len(b.path)

\* r is a right answer to q in the configuration rs.
Answers(rs, q, r) ==
  IF r = NoRoute
  THEN \A a \in rs : ~MatchEntry(a, q)
  ELSE /\ r \in rs
       /\ MatchEntry(r, q)
       /\ \A a \in rs : MatchEntry(a, q) => ~Before(a, r)

\* A request is served by a best route of one configuration, the one that was
\* published when it came, whatever tables reload() publishes meanwhile and
\* in whatever order it has listed the routes; and it goes to the fallback
\* only if no route of that configuration matches.
RightRoute == req.stage = "served" => Answers(asked, req.q, req.route)

\* path is q's own path, or what the prefix of r leaves of it.
Intact(r, q, path) ==
  \/ path = q.path
  \/ /\ r # NoRoute
     /\ r.strip
     /\ r.mode = "prefix"
     /\ \/ q.path = r.path \o path /\ path # <<>>
        \/ q.path = r.path /\ path = <<"/">>

\* The path that reaches the upstream is the request's own, or what the
\* route's prefix leaves of it, never empty; nothing of it is lost.
PathIntact == req.stage = "served" => Intact(req.route, req.q, req.path)
=============================================================================
