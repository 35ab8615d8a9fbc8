------------------------------ MODULE RouteLimit ------------------------------
(***************************************************************************)
(* internal/plugin/builtin/routelimit.go: the rate limit of a route, for   *)
(* one client.  Every reload of the router builds the plugin anew, with an *)
(* empty map of clients; requests that run in an older table still ask the *)
(* plugin of that table.  Within a plugin a client has a limiter, which    *)
(* the sweeper forgets when the client has been idle, and a request holds  *)
(* the limiter it was given across the unlock.                             *)
(***************************************************************************)
EXTENDS Handlers, Naturals

CONSTANTS
  Burst, Rate,  \* of rate.NewLimiter: tokens, and tokens per unit of time
  SweepAge,     \* idle time after which the sweeper forgets a client
  MaxTime,      \* bound on the time
  MaxReloads    \* bound on the plugins built after the first

\* A client that has been idle for long enough to be forgotten would have a
\* full bucket again.
ASSUME LimitAssumption ==
  /\ Burst \in Nat /\ Rate \in Nat /\ SweepAge \in Nat
  /\ MaxTime \in Nat /\ MaxReloads \in Nat
  /\ Burst <= Rate * SweepAge

\* The tokens that come in d units of time.
Gain(d) == Rate * d

VARIABLES
  now,
  built,     \* the last plugin built
  plugins,   \* per plugin: the client's limiter, or None, and lastSeen
  limiters,  \* the limiters, by the request that makes them: tokens and when
             \* they were counted
  ask,       \* per request: its plugin, its limiter, or None, and when it got it
  since,     \* history: when the observation began
  passed,    \* history: requests each plugin has let pass since
  late       \* history: those of them that got their limiter at an earlier time

limitVars == <<now, built, plugins, limiters, ask, since, passed, late>>

PluginIds == 0 .. MaxReloads

LimitType ==
  /\ now \in 0 .. MaxTime /\ since \in 0 .. now
  /\ built \in PluginIds
  /\ plugins \in [PluginIds -> [lim : Requests \cup {None}, seen : 0 .. now]]
  /\ limiters \in [Requests -> [tokens : 0 .. Burst, last : 0 .. now]]
  /\ ask \in [Requests -> [plugin : PluginIds, lim : Requests \cup {None}, at : 0 .. now]]
  /\ passed \in [PluginIds -> Nat]
  /\ late \in [PluginIds -> Nat]

InitLimit ==
  /\ now = 0
  /\ built = 0
  /\ plugins = [p \in PluginIds |-> [lim |-> None, seen |-> 0]]
  /\ limiters = [q \in Requests |-> [tokens |-> Burst, last |-> 0]]
  /\ ask = [q \in Requests |-> [plugin |-> 0, lim |-> None, at |-> 0]]
  /\ since = 0
  /\ passed = [p \in PluginIds |-> 0]
  /\ late = [p \in PluginIds |-> 0]

\* RouteRateLimit
BuildPlugin ==
  /\ built < MaxReloads
  /\ built' = built + 1
  /\ UNCHANGED <<now, plugins, limiters, ask, since, passed, late>>

\* Request q has matched the route in a table with plugin p.
Enter(q, p) ==
  /\ ask' = [ask EXCEPT ![q].plugin = p]
  /\ UNCHANGED <<now, built, plugins, limiters, since, passed, late>>

\* lastSeen is set only when the entry is made.
GetLimiterUnseen(q) ==
  LET p == ask[q].plugin
      known == plugins[p].lim # None
      l == IF known THEN plugins[p].lim ELSE q
  IN
  /\ ask[q].lim = None
  /\ plugins' = IF known THEN plugins ELSE [plugins EXCEPT ![p] = [lim |-> l, seen |-> now]]
  /\ limiters' = IF known THEN limiters
                 ELSE [limiters EXCEPT ![q] = [tokens |-> Burst, last |-> now]]
  /\ ask' = [ask EXCEPT ![q].lim = l, ![q].at = now]
  /\ UNCHANGED <<now, built, since, passed, late>>

\* A limiter starts out full.
GetLimiter(q) ==
  LET p == ask[q].plugin
      known == plugins[p].lim # None
      l == IF known THEN plugins[p].lim ELSE q
  IN
  /\ ask[q].lim = None
  /\ plugins' = [plugins EXCEPT ![p] = [lim |-> l, seen |-> now]]
  /\ limiters' = IF known THEN limiters
                 ELSE [limiters EXCEPT ![q] = [tokens |-> Burst, last |-> now]]
  /\ ask' = [ask EXCEPT ![q].lim = l, ![q].at = now]
  /\ UNCHANGED <<now, built, since, passed, late>>

Refilled(l) ==
  LET t == limiters[l].tokens + Gain(now - limiters[l].last)
  IN  IF t <= Burst THEN t ELSE Burst

\* Allow(), without the lock of the map; pass is its result.
Allow(q, pass) ==
  LET l == ask[q].lim
      p == ask[q].plugin
  IN
  /\ l # None
  /\ pass = (Refilled(l) >= 1)
  /\ limiters' = IF pass THEN [limiters EXCEPT ![l] = [tokens |-> Refilled(l) - 1, last |-> now]]
                         ELSE limiters
  /\ passed' = IF pass THEN [passed EXCEPT ![p] = @ + 1] ELSE passed
  /\ late' = IF pass /\ ask[q].at < now THEN [late EXCEPT ![p] = @ + 1] ELSE late
  /\ UNCHANGED <<now, built, plugins, ask, since>>

\* The ticker of plugin p.
Sweep(p) ==
  /\ plugins[p].lim # None
  /\ now - plugins[p].seen > SweepAge
  /\ plugins' = [plugins EXCEPT ![p].lim = None]
  /\ UNCHANGED <<now, built, limiters, ask, since, passed, late>>

Tick ==
  /\ now < MaxTime
  /\ now' = now + 1
  /\ UNCHANGED <<built, plugins, limiters, ask, since, passed, late>>

\* An observation may begin at any time.
Observe ==
  /\ since' = now
  /\ passed' = [p \in PluginIds |-> 0]
  /\ late' = [p \in PluginIds |-> 0]
  /\ UNCHANGED <<now, built, plugins, limiters, ask>>

-----------------------------------------------------------------------------
\* In any stretch of time each plugin lets a client pass no more often than its
\* burst and the rate allow, although it forgets idle clients; one more for
\* each request that was held up between getLimiter and Allow.
RouteBound ==
  \A p \in PluginIds : passed[p] <= Burst + Gain(now - since) + late[p]
=============================================================================
