------------------------------- MODULE Gateway -------------------------------
(***************************************************************************)
(* The gateway's process: the handlers of requests and the goroutines they *)
(* share state with, from the end of its start to its exit.                *)
(*                                                                         *)
(*   cmd/main.go              the signal, the shutdown of the servers      *)
(*   internal/router          a route's handler, and reload()              *)
(*   internal/plugin          RouteLimit, Plugins                          *)
(*   internal/metrics         Tracker                                      *)
(*   internal/admin           AuditLog, the handlers that read             *)
(*                                                                         *)
(* The route has two plugins, route-rate-limit and an external one.        *)
(***************************************************************************)
EXTENDS Tracker, AuditLog, RouteLimit, Plugins

CONSTANTS
  Undrained,   \* the requests by https or h2c, on connections that srv.Shutdown
               \* does not know of; the others come by plain HTTP/1.1
  Mixes        \* the sets of goroutines that are looked at together

ASSUME GatewayAssumption == Undrained \subseteq Requests

VARIABLES
  mix,      \* the goroutines of this behaviour; the others have nothing to do
  conn,     \* the connections of the requests
  admin,    \* those of the readers, and that of a request to handlePlugins
  table,    \* the router's table: the route's rate limiter and the version of
            \* its external plugin, or 0
  reload,   \* the goroutine that runs reload(), and the table it builds
  phase,    \* main
  expired,  \* shutCtx is done
  crashed   \* the runtime has found the registry's map written to while read

gatewayVars == <<mix, conn, admin, table, reload, phase, expired, crashed>>

vars == <<trackerVars, auditVars, limitVars, pluginVars, gatewayVars>>

Lister == "handlePlugins"

Table == [limiter : PluginIds, external : Versions]

TypeOK ==
  /\ TrackerType /\ AuditType /\ LimitType /\ PluginType
  /\ conn \in [Requests -> {"none", "new", "limit", "proxy", "track", "closed"}]
  /\ admin \in [Readers \cup {Lister} -> {"none", "active", "closed"}]
  /\ table \in Table
  /\ reload.stage \in {"idle", "limiter", "external", "publish"} /\ reload.table \in Table
  /\ phase \in {"up", "draining", "drainingAdmin", "flushing", "exited"}
  /\ expired \in BOOLEAN /\ crashed \in BOOLEAN

\* router.New has run reload() once.
Init ==
  /\ InitTracker /\ InitAudit /\ InitLimit /\ InitPlugins
  /\ mix \in Mixes
  /\ "watcher" \notin mix => first = 0
  /\ conn = [q \in Requests |-> "none"]
  /\ admin = [a \in Readers \cup {Lister} |-> "none"]
  /\ table = [limiter |-> 0, external |-> 0]
  /\ reload = [stage |-> "idle", table |-> table]
  /\ phase = "up"
  /\ expired = FALSE
  /\ crashed = FALSE

Down == phase = "exited" \/ crashed

Runs(g) == g \in mix /\ ~Down

-----------------------------------------------------------------------------
(* A request to the route *)

Step(q, from, to) ==
  /\ conn[q] = from
  /\ conn' = [conn EXCEPT ![q] = to]
  /\ UNCHANGED <<mix, admin, table, reload, phase, expired, crashed>>

\* The servers accept no more.
Accepting(q) == phase = "up" \/ q \in Undrained

Connect(q) ==
  /\ Runs(q) /\ Accepting(q)
  /\ Step(q, "none", "new")
  /\ UNCHANGED <<trackerVars, auditVars, limitVars, pluginVars>>

\* The request is read and matched in the table of this moment.  It may be read
\* during a shutdown, from a connection that was accepted before.
Arrive(q) ==
  /\ Runs(q)
  /\ Step(q, "new", "limit")
  /\ Enter(q, table.limiter)
  /\ UNCHANGED <<trackerVars, auditVars, pluginVars>>

Limit(q) ==
  /\ Runs(q) /\ conn[q] = "limit"
  /\ \/ GetLimiter(q) /\ UNCHANGED gatewayVars
     \/ Allow(q, TRUE) /\ Step(q, "limit", "proxy")
  /\ UNCHANGED <<trackerVars, auditVars, pluginVars>>

\* 429 is a status that Track takes for an error.
Refuse(q) ==
  /\ Runs(q)
  /\ Allow(q, FALSE)
  /\ Step(q, "limit", "track")
  /\ Track(q, TRUE)
  /\ UNCHANGED <<auditVars, pluginVars>>

\* The upstream's answer has been passed on; there may never be one.
Proxy(q, failed) ==
  /\ Runs(q) /\ Runs("upstream")
  /\ Step(q, "proxy", "track")
  /\ Track(q, failed)
  /\ UNCHANGED <<auditVars, limitVars, pluginVars>>

\* The answer breaks off: the proxy panics, and Track is not deferred.
Abort(q) ==
  /\ Runs(q) /\ Runs("upstream")
  /\ Step(q, "proxy", "closed")
  /\ UNCHANGED <<trackerVars, auditVars, limitVars, pluginVars>>

Finish(q) ==
  /\ Runs(q) /\ conn[q] = "track"
  /\ \/ Tracking(q) /\ UNCHANGED gatewayVars
     \/ track[q].stage = "done" /\ Step(q, "track", "closed") /\ UNCHANGED trackerVars
  /\ UNCHANGED <<auditVars, limitVars, pluginVars>>

-----------------------------------------------------------------------------
(* Requests to the admin server.  They are read as they are accepted, but  *)
(* for which they are like those to the route.                             *)

AdminAccepts == phase \in {"up", "draining"}

ChangeKey(k) ==
  /\ Runs(k)
  /\ (AdminAccepts /\ Begin(k)) \/ Recording(k)
  /\ UNCHANGED <<trackerVars, limitVars, pluginVars, gatewayVars>>

SetAdmin(a, from, to) ==
  /\ Runs(a)
  /\ admin[a] = from
  /\ admin' = [admin EXCEPT ![a] = to]
  /\ UNCHANGED <<mix, conn, table, reload, phase, expired, crashed>>
  /\ UNCHANGED <<trackerVars, auditVars, limitVars, pluginVars>>

Ask(a) == AdminAccepts /\ SetAdmin(a, "none", "active")

\* streamMetrics takes a snapshot every second.
ReadMetrics(s) ==
  /\ Runs(s) /\ admin[s] = "active"
  /\ Snapshot(s) \/ LoadRequests(s) \/ LoadErrors(s)
  /\ UNCHANGED <<auditVars, limitVars, pluginVars, gatewayVars>>

\* The snapshot is sent, or the client has left, or a write has met the
\* server's WriteTimeout.
LeaveMetrics(s) ==
  /\ snap[s].stage = "done"
  /\ SetAdmin(s, "active", "closed")

\* handlePlugins has read the names.
LeaveNames == SetAdmin(Lister, "active", "closed")

-----------------------------------------------------------------------------
(* reload() *)

SetReload(from, to, t) ==
  /\ Runs("reload")
  /\ reload.stage = from
  /\ reload' = [stage |-> to, table |-> t]
  /\ UNCHANGED <<mix, conn, admin, phase, expired, crashed>>

StartReload ==
  /\ built < MaxReloads
  /\ SetReload("idle", "limiter", reload.table)
  /\ UNCHANGED <<trackerVars, auditVars, limitVars, pluginVars, table>>

\* reg.Build("route-rate-limit", ...)
BuildLimiter ==
  /\ BuildPlugin
  /\ SetReload("limiter", "external", [limiter |-> built + 1, external |-> reload.table.external])
  /\ UNCHANGED <<trackerVars, auditVars, pluginVars, table>>

\* A plugin that is not registered is skipped.
BuildExternal ==
  /\ \E v \in Readable :
       SetReload("external", "publish", [limiter |-> reload.table.limiter, external |-> v])
  /\ UNCHANGED <<trackerVars, auditVars, limitVars, pluginVars, table>>

Publish ==
  /\ SetReload("publish", "idle", reload.table)
  /\ table' = reload.table
  /\ UNCHANGED <<trackerVars, auditVars, limitVars, pluginVars>>

Reading ==
  \/ reload.stage \in {"limiter", "external"}
  \/ admin[Lister] = "active"

\* "fatal error: concurrent map read and map write"
Crash ==
  /\ ~Down /\ Racing /\ Reading
  /\ crashed' = TRUE
  /\ UNCHANGED <<mix, conn, admin, table, reload, phase, expired>>
  /\ UNCHANGED <<trackerVars, auditVars, limitVars, pluginVars>>

-----------------------------------------------------------------------------
(* The watcher and its user; the clock and the sweepers *)

Watch ==
  /\ Runs("watcher")
  /\ Watching
  /\ UNCHANGED <<trackerVars, auditVars, limitVars, gatewayVars>>

InstallPlugin ==
  /\ Runs("watcher")
  /\ Copy \/ Copied
  /\ UNCHANGED <<trackerVars, auditVars, limitVars, gatewayVars>>

PassTime ==
  /\ Runs("clock")
  /\ Tick \/ Observe \/ \E p \in PluginIds : Sweep(p)
  /\ UNCHANGED <<trackerVars, auditVars, pluginVars, gatewayVars>>

-----------------------------------------------------------------------------
(* main *)

Move(from, to) ==
  /\ Runs("main")
  /\ phase = from
  /\ phase' = to
  /\ UNCHANGED <<mix, conn, admin, table, reload, expired, crashed>>
  /\ UNCHANGED <<trackerVars, auditVars, limitVars, pluginVars>>

\* SIGINT or SIGTERM
Signal == Move("up", "draining")

\* The 30 seconds that both servers and the tracer share.
Expire ==
  /\ ~Down /\ phase # "up" /\ ~expired
  /\ expired' = TRUE
  /\ UNCHANGED <<mix, conn, admin, table, reload, phase, crashed>>
  /\ UNCHANGED <<trackerVars, auditVars, limitVars, pluginVars>>

\* srv.Shutdown closes connections on which nothing has come for five seconds.
CloseNew(q) ==
  /\ ~Down /\ phase = "draining" /\ q \notin Undrained
  /\ Step(q, "new", "closed")
  /\ UNCHANGED <<trackerVars, auditVars, limitVars, pluginVars>>

Served == \A q \in Requests \ Undrained : conn[q] \in {"none", "closed"}

AdminServed ==
  /\ \A a \in Readers \cup {Lister} : admin[a] # "active"
  /\ \A k \in KeyOps : stage[k] \in {"idle", "done", "failed"}

\* Waits for the handlers, however long they take.
ShutdownWaits == Served /\ Move("draining", "drainingAdmin")

\* srv.Shutdown(shutCtx)
ShutdownServer == (Served \/ expired) /\ Move("draining", "drainingAdmin")

\* Does not wait for the handlers.
CloseAdmin == Move("drainingAdmin", "flushing")

\* adminSrv.Shutdown(shutCtx)
ShutdownAdmin == (AdminServed \/ expired) /\ Move("drainingAdmin", "flushing")

\* shutdownTracer(shutCtx), and main returns.
Exit == Move("flushing", "exited")

Next ==
  \/ \E q \in Requests : Connect(q)
  \/ \E q \in Requests : Arrive(q)
  \/ \E q \in Requests : Limit(q)
  \/ \E q \in Requests : Refuse(q)
  \/ \E q \in Requests, failed \in BOOLEAN : Proxy(q, failed)
  \/ \E q \in Requests : Abort(q)
  \/ \E q \in Requests : Finish(q)
  \/ \E k \in KeyOps : ChangeKey(k)
  \/ \E a \in Readers \cup {Lister} : Ask(a)
  \/ \E s \in Readers : ReadMetrics(s)
  \/ \E s \in Readers : LeaveMetrics(s)
  \/ LeaveNames
  \/ StartReload
  \/ BuildLimiter
  \/ BuildExternal
  \/ Publish
  \/ Crash
  \/ Watch
  \/ InstallPlugin
  \/ PassTime
  \/ Signal
  \/ Expire
  \/ \E q \in Requests : CloseNew(q)
  \/ ShutdownServer
  \/ ShutdownAdmin
  \/ Exit

(***************************************************************************)
(* The watcher's goroutine and main are scheduled, and time passes.        *)
(* Nothing is assumed of clients, upstreams or the user.                   *)
(***************************************************************************)
Fairness ==
  /\ WF_vars(Watch)
  /\ WF_vars(Expire)
  /\ WF_vars(ShutdownServer)
  /\ WF_vars(ShutdownAdmin)
  /\ WF_vars(Exit)

Spec == Init /\ [][Next]_vars /\ Fairness

-----------------------------------------------------------------------------
(* Properties *)

\* A version of the plugin file that arrives while the process runs, and stays,
\* is the one in the registry for good, although the watcher is told of it
\* before it is whole, unless plugin.Open has opened an earlier version under
\* the same path or the process ends.
InstalledIsRegistered ==
  \A v \in 1 .. MaxVersion :
    <>[](Installed(v) /\ opened \in {0, v}) => <>[](registered = v \/ Down)

\* Watch "hot-reloads any .so file that is created or modified": a version that
\* arrives while the process runs, and stays, is the one in the registry.
HotReloads ==
  \A v \in 1 .. MaxVersion : <>[]Installed(v) => <>[](registered = v \/ Down)

\* Unless the 30 seconds run out, no request that the plain server or the admin
\* server has begun to serve is cut off by the exit, and its count in the
\* tracker or its entry in the audit log is complete.
Drained ==
  phase = "exited" /\ ~expired =>
    /\ \A q \in Requests \ Undrained : track[q].stage \in {"idle", "done"} /\ conn[q] # "proxy"
    /\ \A k \in KeyOps : stage[k] \in {"idle", "done", "failed"}
    /\ \A a \in Readers \cup {Lister} : admin[a] # "active"

\* Once the signal has come the process ends, whatever its handlers, streams
\* and upstreams do.
Exits == phase = "draining" ~> Down
=============================================================================
