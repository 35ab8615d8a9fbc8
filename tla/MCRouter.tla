------------------------------ MODULE MCRouter ------------------------------
(* The router, in three parts.  The table: one route, two upstreams and two  *)
(* reload goroutines; the request bodies include a route that splits its     *)
(* traffic over both upstreams, one whose pattern does not compile and an    *)
(* upstream whose URL does not parse.  The matching: six routes, an exact    *)
(* one, a catch-all prefix, two with the same longer prefix of which one     *)
(* wants a host, a method and a header, a regex and a route without a mode.  *)
(* The breaker of a route: three requests and enough results to trip twice.  *)
(*                                                                           *)
(* The parts share no state, so a behaviour is about one of them, and the    *)
(* others are in a state in which fairness asks nothing of them.             *)
EXTENDS Router, RouteMatch, CircuitBreaker, TLC

CONSTANTS n1, n2, rule1, badRule, spec1, badSpec, up1, up2

VARIABLE part  \* the part this behaviour is about

MCRouteBodies ==
  {[name |-> n1, active |-> TRUE, upstreamID |-> up1, weighted |-> {}, rule |-> rule1],
   [name |-> n1, active |-> TRUE, upstreamID |-> None, weighted |-> {up1, up2},
    rule |-> rule1],
   [name |-> n1, active |-> TRUE, upstreamID |-> up1, weighted |-> {}, rule |-> badRule]}

MCUpstreamBodies == {[name |-> n1, spec |-> spec1], [name |-> n2, spec |-> badSpec]}

Plain(id, mode, path) ==
  [id |-> id, mode |-> mode, path |-> path, hosts |-> {}, methods |-> {},
   headers |-> <<>>, strip |-> TRUE]

Home == <<"/">>
A == <<"/", "a">>
AB == <<"/", "a", "b">>
B == <<"b">>

Exact == Plain("exact", "exact", A)
All == [Plain("all", "prefix", Home) EXCEPT !.strip = FALSE]
Long == Plain("long", "prefix", A)
Picky ==
  [Plain("picky", "prefix", A) EXCEPT
     !.hosts = {"h1"}, !.methods = {"GET"}, !.headers = [k |-> "v"]]
Regex == [Plain("regex", "regex", B) EXCEPT !.hosts = {"*", "h2"}]
Unset == Plain("unset", "unset", AB)

MCConfigs ==
  {{}, {Regex}, {All, Long, Regex}, {All, Long, Picky}, {Exact, Picky, Regex},
   {Exact, All, Unset}, {Unset, Regex}}

MCRequests ==
  [path : {Home, A, AB, <<"/", "b">>}, host : {"h1", "h3"}, method : {"GET", "PUT"},
   headers : {<<>>, [k |-> "v"]}]

\* A pattern of letters alone is found wherever it occurs.
MCFound ==
  {<<p, s>> \in {B} \X {Home, A, AB, <<"/", "b">>} :
     \E i \in 0..Len(s) - Len(p) : SubSeq(s, i + 1, i + Len(p)) = p}

\* A breaker that has admitted all that the bound lets it admit, and a router
\* that no request has reached.
BreakerRests ==
  /\ state = "closed" /\ total = MaxTotal
  /\ failures = 0 /\ probes = 0 /\ age = 0 /\ inflight = {} /\ admitted = 0 /\ shut = 0

MatchRests == MatchInit /\ routes = {}

PartsInit ==
  /\ part \in {"table", "match", "breaker"}
  /\ RouterInit
  /\ IF part = "match" THEN MatchInit ELSE MatchRests
  /\ IF part = "breaker" THEN BreakerInit ELSE BreakerRests

PartsNext ==
  /\ \/ part = "table" /\ RouterNext /\ UNCHANGED <<matchVars, breakerVars>>
     \/ part = "match" /\ MatchNext /\ UNCHANGED <<vars, breakerVars>>
     \/ part = "breaker" /\ BreakerNext /\ UNCHANGED <<vars, matchVars>>
  /\ UNCHANGED part

PartsSpec ==
  /\ PartsInit
  /\ [][PartsNext]_<<part, vars, matchVars, breakerVars>>
  /\ RouterFairness
  /\ BreakerFairness
=============================================================================
