-------------------------------- MODULE Router --------------------------------
(***************************************************************************)
(* The dynamic router on top of the store: the route table that requests   *)
(* are matched against, and the reload() goroutines that the store's       *)
(* notify() starts, one per change, to rebuild it.                         *)
(*                                                                         *)
(* reload() holds r.reloadMu; under it, it lists the upstreams, then lists *)
(* the routes, each under its own read lock of s.mu, so the store may      *)
(* change in between, and finally publishes the new table.                 *)
(***************************************************************************)
EXTENDS Store

CONSTANTS
  Reloaders,  \* reload() goroutines; bound: as many may exist at a time
  BadRules,   \* rules whose regular expression does not compile
  BadSpecs    \* upstreams whose URL or endpoint does not parse

VARIABLES
  table,     \* r.table: route id to entry, None when the route has none
  reload,    \* where each goroutine is: see Stage
  reloadMu,  \* the goroutine that holds r.reloadMu, or None
  ups,       \* what each goroutine's ListUpstreams() returned
  built,     \* the table each goroutine has built
  unheard    \* history: a failed toggle that no notify() has announced

routerVars == <<table, reload, reloadMu, ups, built, unheard>>
vars == <<storeVars, routerVars>>

Stage == {"none", "waiting", "listed", "built"}

UpstreamMap == [UpstreamIds -> Upstream \cup {None}]

\* An entry keeps the route and, in its handler, the upstreams it proxies to as
\* they were when the table was built.
Entry == [route : Route, targets : SUBSET (UpstreamIds \X Specs)]

Table == [RouteIds -> Entry \cup {None}]

ASSUME RouterAssumption ==
  /\ None \notin Reloaders
  /\ None \notin Entry
  /\ BadRules \subseteq Rules
  /\ BadSpecs \subseteq Specs

RouterTypeOK ==
  /\ TypeOK
  /\ table \in Table
  /\ reload \in [Reloaders -> Stage]
  /\ reloadMu \in Reloaders \cup {None}
  /\ ups \in [Reloaders -> UpstreamMap]
  /\ built \in [Reloaders -> Table]
  /\ unheard \in BOOLEAN

-----------------------------------------------------------------------------
(* The table that reload() builds from what it has listed *)

\* The ids in buildUpstreamMap's result: an upstream with a bad URL is skipped.
Proxied(us) == {u \in UpstreamIds : us[u] # None /\ us[u].spec \notin BadSpecs}

\* The upstreams an active route sends requests to.  Weighted upstreams that do
\* not exist are dropped; if none is left the handler answers 502.
Targets(r, us) ==
  LET ids == IF r.weighted # {} THEN r.weighted ELSE {r.upstreamID}
  IN  {<<u, us[u].spec>> : u \in ids \cap Proxied(us)}

\* reload() skips inactive routes, routes to an unknown upstream and routes
\* whose pattern does not compile.
Routable(r, us) ==
  /\ r # None
  /\ r.active
  /\ r.weighted # {} \/ r.upstreamID \in Proxied(us)
  /\ r.rule \notin BadRules

Build(us, rs) ==
  [id \in RouteIds |->
     IF Routable(rs[id], us)
     THEN [route |-> rs[id], targets |-> Targets(rs[id], us)]
     ELSE None]

Current == Build(mem.upstreams, mem.routes)

NoUpstreams == [u \in UpstreamIds |-> None]

NoTable == [id \in RouteIds |-> None]

RouterInit ==
  /\ Init
  /\ table = NoTable
  /\ reload = [g \in Reloaders |-> "none"]
  /\ reloadMu = None
  /\ ups = [g \in Reloaders |-> NoUpstreams]
  /\ built = [g \in Reloaders |-> NoTable]
  /\ unheard = FALSE

-----------------------------------------------------------------------------
(* reload() *)

LockFree == reloadMu = None

\* Take r.reloadMu and list the upstreams.
ListUpstreams(g) ==
  /\ reload[g] = "waiting"
  /\ LockFree
  /\ phase = "idle"
  /\ reloadMu' = g
  /\ reload' = [reload EXCEPT ![g] = "listed"]
  /\ ups' = [ups EXCEPT ![g] = mem.upstreams]
  /\ UNCHANGED <<storeVars, table, built, unheard>>

\* List the routes and build the table.
ListRoutes(g) ==
  /\ reload[g] = "listed"
  /\ phase = "idle"
  /\ reload' = [reload EXCEPT ![g] = "built"]
  /\ built' = [built EXCEPT ![g] = Build(ups[g], mem.routes)]
  /\ ups' = [ups EXCEPT ![g] = NoUpstreams]
  /\ UNCHANGED <<storeVars, table, reloadMu, unheard>>

\* r.table.Store, unlock, return.
Publish(g) ==
  /\ reload[g] = "built"
  /\ table' = built[g]
  /\ built' = [built EXCEPT ![g] = NoTable]
  /\ reload' = [reload EXCEPT ![g] = "none"]
  /\ reloadMu' = None
  /\ UNCHANGED <<storeVars, ups, unheard>>

-----------------------------------------------------------------------------
(* The store's steps, with what they do to the router *)

\* Steps that notify nobody.
Quiet ==
  /\ Mutate \/ WriteTmp
  /\ UNCHANGED routerVars

StoreFails ==
  /\ PersistFails
  /\ unheard' = (unheard \/ op = "toggle")
  /\ UNCHANGED <<table, reload, reloadMu, ups, built>>

\* Notifies only when a route has changed.
NotifyRoutesOnly(g) ==
  /\ Rename
  /\ op # "key"
  /\ reload[g] = "none"
  /\ reload' = IF mem.routes = undo.routes THEN reload ELSE [reload EXCEPT ![g] = "waiting"]
  /\ unheard' = FALSE
  /\ UNCHANGED <<table, reloadMu, ups, built>>

\* A saved change starts a reload goroutine before s.mu is released.
Notify(g) ==
  /\ Rename
  /\ op # "key"
  /\ reload[g] = "none"
  /\ reload' = [reload EXCEPT ![g] = "waiting"]
  /\ unheard' = FALSE
  /\ UNCHANGED <<table, reloadMu, ups, built>>

\* API key operations save the store but do not call notify().
SavedSilently ==
  /\ Rename
  /\ op = "key"
  /\ UNCHANGED routerVars

\* A crash ends every goroutine.  main() loads the store and router.New reloads
\* the table before the admin server can change anything.
RouterRestart ==
  /\ Restart
  /\ table' = Build(disk.upstreams, disk.routes)
  /\ reload' = [g \in Reloaders |-> "none"]
  /\ reloadMu' = None
  /\ ups' = [g \in Reloaders |-> NoUpstreams]
  /\ built' = [g \in Reloaders |-> NoTable]
  /\ unheard' = FALSE

RouterNext ==
  \/ Quiet
  \/ StoreFails
  \/ \E g \in Reloaders : Notify(g)
  \/ SavedSilently
  \/ RouterRestart
  \/ \E g \in Reloaders : ListUpstreams(g)
  \/ \E g \in Reloaders : ListRoutes(g)
  \/ \E g \in Reloaders : Publish(g)

RouterSpec == RouterInit /\ [][RouterNext]_vars

(***************************************************************************)
(* A running operation ends, and a runnable goroutine runs: Go's scheduler *)
(* and its mutexes starve nobody.                                          *)
(***************************************************************************)
RouterFairness ==
  /\ WF_vars(Quiet /\ phase = "write")
  /\ WF_vars(StoreFails \/ SavedSilently \/ \E g \in Reloaders : Notify(g))
  /\ \A g \in Reloaders :
       WF_vars(ListUpstreams(g)) /\ WF_vars(ListRoutes(g)) /\ WF_vars(Publish(g))

RouterFairSpec == RouterSpec /\ RouterFairness

-----------------------------------------------------------------------------
(* Properties *)

Settled == phase = "idle" /\ \A g \in Reloaders : reload[g] = "none"

\* Once every reload has ended, the table is the one the stored configuration
\* asks for, although each reload read upstreams and routes at two different
\* moments and several reloads raced; only a failed toggle, which the store
\* does not announce, can leave the table behind.
Converged == Settled /\ ~unheard => table = Current

\* A goroutine between its first read of the store and its last write of the
\* table has r.reloadMu for itself.
ReloadsExclude ==
  \A g \in Reloaders : reload[g] \in {"listed", "built"} => reloadMu = g

\* If the admin API falls silent, the table catches up for good.
EventuallyCurrent ==
  <>[][~Mutate]_vars => <>[](unheard \/ table = Current)
=============================================================================
