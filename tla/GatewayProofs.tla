--------------------------- MODULE GatewayProofs ----------------------------
(***************************************************************************)
(* Proofs about the gateway's process: what RecordProofs and PluginProofs  *)
(* say of the pieces that its handlers share holds of the whole, for any   *)
(* number of requests, reloads, plugins and readers, any rate and burst,   *)
(* and any size of the audit log; what a shutdown leaves behind; and the   *)
(* types.                                                                  *)
(***************************************************************************)
EXTENDS Gateway, RecordProofs, PluginProofs

-----------------------------------------------------------------------------
(* The counters of a route *)

LEMMA TrackerSteps == [Next]_vars => TrackerNext \/ UNCHANGED trackerVars
<1> SUFFICES ASSUME [Next]_vars, ~UNCHANGED trackerVars PROVE TrackerNext
  OBVIOUS
<1>1. \/ \E q \in Requests : Refuse(q) \/ Finish(q) \/ \E failed \in BOOLEAN : Proxy(q, failed)
      \/ \E s \in Readers : ReadMetrics(s)
  BY Zenon DEF Next, vars, Connect, Arrive, Limit, Abort, CloseNew, ChangeKey, Ask, SetAdmin,
         LeaveMetrics, LeaveNames, StartReload, BuildLimiter, BuildExternal, Publish, SetReload,
         Crash, Watch, InstallPlugin, PassTime, Signal, Expire, ShutdownServer, ShutdownAdmin,
         Exit, Move
<1> QED BY Zenon, <1>1 DEF TrackerNext, Refuse, Finish, Proxy, ReadMetrics

LEMMA TrackerInvariance == Spec => []TrackerInv
<1>1. Init => TrackerInv
  BY TrackerInit DEF Init
<1>2. TrackerInv /\ [Next]_vars => TrackerInv'
  BY TrackerSteps, TrackerKeeps, TrackerStays
<1> QED BY <1>1, <1>2, PTL DEF Spec

\* Track counts exactly, for any number of requests that race to create the
\* route's counter.
THEOREM TrackCountsExactly == Spec => []CountsExact
<1>1. TrackerInv => CountsExact
  <2> SUFFICES ASSUME TrackerInv, counter # None
               PROVE  counts[counter] = [requests |-> tracked.requests + Cardinality(Erring),
                                         errors |-> tracked.errors]
    BY DEF CountsExact, TrackerInv, Counted
  <2>1. counts[counter] \in Tally
    BY DEF TrackerInv, TrackerType
  <2> QED BY <2>1 DEF TrackerInv, Counted, Tally
<1> QED BY <1>1, TrackerInvariance, PTL

\* What Snapshot may show, for any number of requests and of readers.
THEOREM SnapshotsSound == Spec => []SnapshotSound
<1>1. TrackerInv => SnapshotSound
  BY DEF TrackerInv, ReadSoFar, SoFar, SnapshotSound
<1> QED BY <1>1, TrackerInvariance, PTL

-----------------------------------------------------------------------------
(* The audit log *)

LEMMA AuditSteps == [Next]_vars => AuditNext \/ UNCHANGED auditVars
<1> SUFFICES ASSUME [Next]_vars, ~UNCHANGED auditVars PROVE AuditNext
  OBVIOUS
<1>1. \E k \in KeyOps : ChangeKey(k)
  BY Zenon DEF Next, vars, Connect, Arrive, Limit, Refuse, Proxy, Abort, Finish, CloseNew, Ask,
         SetAdmin, ReadMetrics, LeaveMetrics, LeaveNames, StartReload, BuildLimiter,
         BuildExternal, Publish, SetReload, Crash, Watch, InstallPlugin, PassTime, Signal,
         Expire, ShutdownServer, ShutdownAdmin, Exit, Move
<1> QED BY <1>1 DEF AuditNext, ChangeKey

LEMMA AuditInvariance == Spec => []AuditInv
<1>1. Init => AuditInv
  BY AuditInit DEF Init
<1>2. AuditInv /\ [Next]_vars => AuditInv'
  BY AuditSteps, AuditKeeps, AuditStays
<1> QED BY <1>1, <1>2, PTL DEF Spec

\* What GET /admin/v1/audit shows of an answered change, for any size of the log
\* and any number of requests.
THEOREM AnsweredAudited == Spec => []AnsweredAreAudited
BY AuditInvariance, AuditShows, PTL

\* What the order of the audit log means.
THEOREM LogOrdered == Spec => []NewestLast
BY AuditInvariance, AuditOrders, PTL

-----------------------------------------------------------------------------
(* The rate limit of a route *)

(***************************************************************************)
(* With the requests' way to the limiter: nobody has asked before the      *)
(* request is read, and every table has a plugin that has been built.      *)
(***************************************************************************)
GateInv ==
  /\ LimitInv
  /\ DOMAIN conn = Requests
  /\ table.limiter \in PluginIds
  /\ reload.table.limiter \in PluginIds
  /\ \A q \in Requests : conn[q] \in {"none", "new"} => ask[q].lim = None

LEMMA ConnStep ==
  ASSUME GateInv, LimitInv', NEW q \in Requests, NEW from, NEW to, Step(q, from, to),
         from \in {"none", "new"} \/ to \notin {"none", "new"},
         \A r \in Requests : ask'[r].lim = ask[r].lim \/ (r = q /\ to \notin {"none", "new"})
  PROVE  GateInv'
BY DEF GateInv, Step

LEMMA PlainStep ==
  ASSUME GateInv, LimitInv', \A r \in Requests : ask'[r].lim = ask[r].lim,
         UNCHANGED <<conn, table, reload>>
  PROVE  GateInv'
BY DEF GateInv

LEMMA Reloads ==
  ASSUME NEW from, NEW to, NEW t, SetReload(from, to, t)
  PROVE  reload'.table = t
BY DEF SetReload

LEMMA GateNext == GateInv /\ [Next]_vars => GateInv'
<1> SUFFICES ASSUME GateInv, [Next]_vars PROVE GateInv'
  OBVIOUS
<1>0. LimitInv
  BY DEF GateInv
<1> USE DEF limitVars
<1>1. ASSUME NEW q \in Requests, Connect(q) PROVE GateInv'
  <2>1. LimitInv' /\ ask' = ask
    BY <1>0, <1>1, LimitStays DEF Connect
  <2>2. Step(q, "none", "new")
    BY <1>1 DEF Connect
  <2> QED BY <2>1, <2>2 DEF GateInv, Step
<1>2. ASSUME NEW q \in Requests, Arrive(q) PROVE GateInv'
  <2>1. ask[q].lim = None /\ table.limiter \in PluginIds
    BY <1>2 DEF Arrive, Step, GateInv
  <2>2. LimitInv'
    BY <1>0, <1>2, <2>1, EnterKeeps DEF Arrive
  <2>3. \A r \in Requests : ask'[r].lim = ask[r].lim
    BY <1>0, <1>2 DEF Arrive, Enter, LimitInv, LimitTypes
  <2> QED BY <1>2, <2>2, <2>3, ConnStep DEF Arrive
<1>3. ASSUME NEW q \in Requests, Limit(q) PROVE GateInv'
  <2>1. CASE GetLimiter(q) /\ UNCHANGED gatewayVars
    <3>1. LimitInv'
      BY <1>0, <2>1, GetLimiterKeeps
    <3>2. \A r \in Requests : r # q => ask'[r].lim = ask[r].lim
      BY <1>0, <2>1 DEF GetLimiter, LimitInv, LimitTypes
    <3> QED BY Zenon, <1>3, <2>1, <3>1, <3>2 DEF Limit, gatewayVars, GateInv
  <2>2. CASE Allow(q, TRUE) /\ Step(q, "limit", "proxy")
    <3>1. LimitInv' /\ ask' = ask
      BY Zenon, <1>0, <2>2, AllowKeeps DEF Allow
    <3> QED BY <2>2, <3>1, ConnStep
  <2> QED BY Zenon, <1>3, <2>1, <2>2 DEF Limit
<1>4. ASSUME NEW q \in Requests, Refuse(q) PROVE GateInv'
  <2>1. LimitInv' /\ ask' = ask
    BY Zenon, <1>0, <1>4, AllowKeeps DEF Refuse, Allow
  <2> QED BY <1>4, <2>1, ConnStep DEF Refuse
<1>5. ASSUME NEW q \in Requests, NEW failed \in BOOLEAN, Proxy(q, failed) PROVE GateInv'
  BY <1>0, <1>5, LimitStays, ConnStep DEF Proxy
<1>6. ASSUME NEW q \in Requests, Abort(q) PROVE GateInv'
  BY <1>0, <1>6, LimitStays, ConnStep DEF Abort
<1>7. ASSUME NEW q \in Requests, Finish(q) PROVE GateInv'
  <2>1. LimitInv' /\ ask' = ask
    BY <1>0, <1>7, LimitStays DEF Finish
  <2>2. CASE UNCHANGED gatewayVars
    BY <2>1, <2>2, PlainStep DEF gatewayVars
  <2>3. CASE Step(q, "track", "closed")
    BY <2>1, <2>3, ConnStep
  <2> QED BY <1>7, <2>2, <2>3 DEF Finish
<1>8. ASSUME NEW q \in Requests, CloseNew(q) PROVE GateInv'
  BY <1>0, <1>8, LimitStays, ConnStep DEF CloseNew
<1>9. ASSUME UNCHANGED limitVars, UNCHANGED <<conn, table, reload>> PROVE GateInv'
  BY <1>0, <1>9, LimitStays, PlainStep
<1>10. CASE StartReload \/ BuildExternal \/ Publish
  <2>1. LimitInv' /\ ask' = ask /\ conn' = conn
    BY Zenon, <1>0, <1>10, LimitStays DEF StartReload, BuildExternal, Publish, SetReload
  <2>2. table'.limiter \in PluginIds /\ reload'.table.limiter \in PluginIds
    <3>1. table.limiter \in PluginIds /\ reload.table.limiter \in PluginIds
      BY DEF GateInv
    <3>2. CASE StartReload
      BY <3>1, <3>2, Reloads DEF StartReload
    <3>3. CASE BuildExternal
      <4>1. PICK v : SetReload("external", "publish", [limiter |-> reload.table.limiter, external |-> v])
        BY Zenon, <3>3 DEF BuildExternal
      <4>2. reload'.table = [limiter |-> reload.table.limiter, external |-> v] /\ table' = table
        BY <3>3, <4>1, Reloads DEF BuildExternal
      <4> QED BY <3>1, <4>2
    <3>4. CASE Publish
      BY <3>1, <3>4, Reloads DEF Publish
    <3> QED BY <1>10, <3>2, <3>3, <3>4
  <2> QED BY <2>1, <2>2 DEF GateInv
<1>11. CASE BuildLimiter
  <2>1. built' \in PluginIds /\ built + 1 \in PluginIds
    BY <1>0, <1>11, LimitAssumption DEF BuildLimiter, BuildPlugin, LimitInv, LimitTypes,
      PluginIds
  <2>2. LimitInv' /\ ask' = ask
    BY <1>0, <1>11, <2>1, LimitUnchanged DEF BuildLimiter, BuildPlugin
  <2>3. table' = table /\ conn' = conn /\ reload'.table.limiter = built + 1
    BY <1>11 DEF BuildLimiter, SetReload
  <2> QED BY <2>1, <2>2, <2>3 DEF GateInv
<1>12. CASE PassTime
  <2>1. LimitInv' /\ ask' = ask
    BY <1>0, <1>12, TickKeeps, ObserveKeeps, SweepKeeps DEF PassTime, Tick, Observe, Sweep
  <2> QED BY <1>12, <2>1, PlainStep DEF PassTime, gatewayVars
<1>13. CASE UNCHANGED vars
  BY <1>9, <1>13 DEF vars, gatewayVars
<1>14. ASSUME NEW k \in KeyOps, ChangeKey(k) PROVE GateInv'
  BY <1>9, <1>14 DEF ChangeKey, gatewayVars
<1>15. ASSUME NEW a \in Readers \cup {Lister}, Ask(a) PROVE GateInv'
  BY <1>9, <1>15 DEF Ask, SetAdmin
<1>16. ASSUME NEW s \in Readers, ReadMetrics(s) \/ LeaveMetrics(s) PROVE GateInv'
  BY Zenon, <1>9, <1>16 DEF ReadMetrics, LeaveMetrics, SetAdmin, gatewayVars
<1>17. CASE LeaveNames \/ Crash \/ Watch \/ InstallPlugin \/ Expire
  BY Zenon, <1>9, <1>17 DEF LeaveNames, SetAdmin, Crash, Watch, InstallPlugin, Expire, gatewayVars
<1>18. CASE Signal \/ ShutdownServer \/ ShutdownAdmin \/ Exit
  BY <1>9, <1>18 DEF Signal, ShutdownServer, ShutdownAdmin, Exit, Move
<1> QED
  BY <1>1, <1>2, <1>3, <1>4, <1>5, <1>6, <1>7, <1>8, <1>10, <1>11, <1>12, <1>13,
     <1>14, <1>15, <1>16, <1>17, <1>18 DEF Next

LEMMA GateInvariance == Spec => []GateInv
<1>1. Init => GateInv
  <2> SUFFICES ASSUME Init PROVE GateInv
    OBVIOUS
  <2>1. LimitInv /\ DOMAIN conn = Requests
    BY LimitInit DEF Init
  <2>2. table.limiter = 0 /\ reload.table = table /\ 0 \in PluginIds
    BY LimitAssumption DEF Init, PluginIds
  <2>3. \A q \in Requests : ask[q].lim = None
    BY Zenon DEF Init, InitLimit
  <2> QED BY <2>1, <2>2, <2>3 DEF GateInv
<1> QED BY <1>1, GateNext, PTL DEF Spec

\* The bound of route-rate-limit, for any burst, any rate and any number of
\* requests and reloads, as long as the sweeper forgets only clients that have
\* been idle for long enough to fill their bucket.
THEOREM RouteBounded == Spec => []RouteBound
<1>1. GateInv => RouteBound
  BY LimitBounds DEF GateInv
<1> QED BY <1>1, GateInvariance, PTL

-----------------------------------------------------------------------------
(* The shutdown *)

ProcessType ==
  /\ conn \in [Requests -> {"none", "new", "limit", "proxy", "track", "closed"}]
  /\ admin \in [Readers \cup {Lister} -> {"none", "active", "closed"}]
  /\ phase \in {"up", "draining", "drainingAdmin", "flushing", "exited"}
  /\ expired \in BOOLEAN /\ crashed \in BOOLEAN

\* A request is tracked between the upstream's answer and the end of its handler.
Settled(q) ==
  /\ conn[q] \in {"none", "new", "limit", "proxy"} => track[q].stage = "idle"
  /\ conn[q] = "closed" => track[q].stage \in {"idle", "done"}

(***************************************************************************)
(* The inductive invariant: what a Shutdown has waited for stays so, since *)
(* its server accepts no more.                                             *)
(***************************************************************************)
DrainInv ==
  /\ ProcessType
  /\ \A q \in Requests : Settled(q)
  /\ phase \in {"drainingAdmin", "flushing", "exited"} /\ ~expired => Served
  /\ phase \in {"flushing", "exited"} /\ ~expired => AdminServed

LEMMA DrainInit == Init => DrainInv
<1> SUFFICES ASSUME Init PROVE DrainInv
  OBVIOUS
<1>1. ProcessType /\ phase = "up"
  BY Zenon DEF Init, ProcessType
<1>2. ASSUME NEW q \in Requests PROVE Settled(q)
  <2>1. track[q].stage = "idle"
    BY DEF Init, InitTracker
  <2> QED BY <2>1 DEF Settled
<1> QED BY <1>1, <1>2 DEF DrainInv

\* A step of a request that is being served, or of one that is accepted.
LEMMA ServingStep ==
  ASSUME DrainInv, NEW q \in Requests, NEW from, NEW to, Step(q, from, to),
         to \in {"none", "new", "limit", "proxy", "track", "closed"},
         from # "closed", from = "none" => Accepting(q),
         Settled(q)', \A r \in Requests : r # q => track'[r] = track[r], UNCHANGED stage
  PROVE  DrainInv'
<1>1. /\ conn[q] = from /\ conn' = [conn EXCEPT ![q] = to]
      /\ UNCHANGED <<admin, phase, expired, crashed>>
  BY DEF Step
<1>2. conn'[q] = to /\ \A r \in Requests : r # q => conn'[r] = conn[r]
  BY <1>1 DEF DrainInv, ProcessType
<1>3. ProcessType'
  BY <1>1 DEF DrainInv, ProcessType
<1>4. \A r \in Requests : Settled(r)'
  BY <1>2 DEF DrainInv, Settled
<1>5. ASSUME phase \in {"drainingAdmin", "flushing", "exited"}, ~expired PROVE Served'
  <2>1. Served /\ phase # "up"
    BY <1>5 DEF DrainInv
  <2>2. q \in Undrained
    BY <1>1, <2>1 DEF Served, Accepting
  <2> QED BY <1>2, <2>1, <2>2 DEF Served
<1>6. AdminServed => AdminServed'
  BY <1>1 DEF AdminServed
<1> QED BY <1>1, <1>3, <1>4, <1>5, <1>6 DEF DrainInv

\* A step of Track, in a handler that has come to it.
LEMMA TrackingStep ==
  ASSUME DrainInv, NEW q \in Requests, conn[q] = "track",
         \A r \in Requests : r # q => track'[r] = track[r],
         UNCHANGED gatewayVars, UNCHANGED stage
  PROVE  DrainInv'
<1>1. UNCHANGED <<conn, admin, phase, expired, crashed>>
  BY DEF gatewayVars
<1>2. ProcessType' /\ Served' = Served /\ AdminServed' = AdminServed
  BY <1>1 DEF DrainInv, ProcessType, Served, AdminServed
<1>3. \A r \in Requests : Settled(r)'
  BY <1>1 DEF DrainInv, Settled
<1> QED BY <1>1, <1>2, <1>3 DEF DrainInv

\* A step that begins nothing.
LEMMA IdleStep ==
  ASSUME DrainInv, ProcessType', UNCHANGED <<conn, phase, track>>, expired => expired',
         AdminServed => AdminServed'
  PROVE  DrainInv'
BY DEF DrainInv, Settled, Served

\* A request to the admin server comes while it accepts.
LEMMA AdminStep ==
  ASSUME DrainInv, AdminAccepts, ProcessType', UNCHANGED <<conn, phase, track>>,
         expired => expired'
  PROVE  DrainInv'
BY DEF DrainInv, AdminAccepts, Settled, Served

LEMMA MainStep ==
  ASSUME DrainInv, NEW from, NEW to, Move(from, to),
         to \in {"up", "draining", "drainingAdmin", "flushing", "exited"},
         to \in {"drainingAdmin", "flushing", "exited"} /\ ~expired => Served,
         to \in {"flushing", "exited"} /\ ~expired => AdminServed
  PROVE  DrainInv'
<1>1. UNCHANGED <<conn, admin, expired, crashed, track, stage>> /\ phase' = to
  BY DEF Move, trackerVars, auditVars
<1> QED BY <1>1 DEF DrainInv, ProcessType, Settled, Served, AdminServed

LEMMA TrackingOthers ==
  ASSUME TrackerType, NEW q \in Requests, Tracking(q) \/ \E failed \in BOOLEAN : Track(q, failed)
  PROVE  \A r \in Requests : r # q => track'[r] = track[r]
BY Zenon DEF TrackerType, Tracking, Track, Lookup, Create, CountRequest, CountError

LEMMA DrainNext == DrainInv /\ TrackerType /\ [Next]_vars => DrainInv'
<1> SUFFICES ASSUME DrainInv, TrackerType, [Next]_vars PROVE DrainInv'
  OBVIOUS
<1> USE DEF trackerVars, auditVars
<1>1. ASSUME NEW q \in Requests, Connect(q) \/ Arrive(q) \/ CloseNew(q) PROVE DrainInv'
  <2>1. Settled(q) /\ UNCHANGED <<track, stage>>
    BY <1>1 DEF DrainInv, Connect, Arrive, CloseNew
  <2>2. PICK from \in {"none", "new"}, to \in {"new", "limit", "closed"} :
          Step(q, from, to) /\ (from = "none" => Accepting(q))
    BY Zenon, <1>1 DEF Connect, Arrive, CloseNew
  <2>3. Settled(q)'
    BY <2>1, <2>2 DEF DrainInv, ProcessType, Step, Settled
  <2> QED BY <2>1, <2>2, <2>3, ServingStep
<1>2. ASSUME NEW q \in Requests, Limit(q) PROVE DrainInv'
  <2>1. Settled(q) /\ UNCHANGED <<track, stage>>
    BY <1>2 DEF DrainInv, Limit
  <2>2. CASE UNCHANGED gatewayVars
    BY <2>1, <2>2, IdleStep DEF gatewayVars, DrainInv, ProcessType, AdminServed
  <2>3. CASE Step(q, "limit", "proxy")
    <3>1. Settled(q)'
      BY <2>1, <2>3 DEF DrainInv, ProcessType, Step, Settled
    <3> QED BY <2>1, <2>3, <3>1, ServingStep
  <2> QED BY Zenon, <1>2, <2>2, <2>3 DEF Limit
<1>3. ASSUME NEW q \in Requests, Refuse(q) \/ \E failed \in BOOLEAN : Proxy(q, failed)
      PROVE  DrainInv'
  <2>1. PICK from \in {"limit", "proxy"}, failed \in BOOLEAN :
          Step(q, from, "track") /\ Track(q, failed) /\ UNCHANGED stage
    BY Zenon, <1>3 DEF Refuse, Proxy
  <2>2. Settled(q)'
    BY <2>1 DEF DrainInv, ProcessType, Step, Settled
  <2>3. \A r \in Requests : r # q => track'[r] = track[r]
    BY <2>1, TrackingOthers
  <2> QED BY <2>1, <2>2, <2>3, ServingStep
<1>4. ASSUME NEW q \in Requests, Abort(q) PROVE DrainInv'
  <2>1. Step(q, "proxy", "closed") /\ UNCHANGED <<track, stage>> /\ Settled(q)
    BY <1>4 DEF DrainInv, Abort
  <2>2. Settled(q)'
    BY <2>1 DEF DrainInv, ProcessType, Step, Settled
  <2> QED BY <2>1, <2>2, ServingStep
<1>5. ASSUME NEW q \in Requests, Finish(q) PROVE DrainInv'
  <2>1. conn[q] = "track" /\ UNCHANGED stage
    BY <1>5 DEF Finish
  <2>2. CASE Tracking(q) /\ UNCHANGED gatewayVars
    BY <2>1, <2>2, TrackingOthers, TrackingStep
  <2>3. CASE track[q].stage = "done" /\ Step(q, "track", "closed") /\ UNCHANGED track
    <3>1. Settled(q)'
      BY <2>3 DEF DrainInv, ProcessType, Step, Settled
    <3> QED BY <2>1, <2>3, <3>1, ServingStep
  <2> QED BY <1>5, <2>2, <2>3 DEF Finish
<1>6. ASSUME NEW k \in KeyOps, ChangeKey(k) PROVE DrainInv'
  <2>1. UNCHANGED <<conn, admin, phase, expired, crashed, track>> /\ ProcessType'
    BY <1>6 DEF ChangeKey, gatewayVars, DrainInv, ProcessType
  <2>2. CASE AdminAccepts
    BY <2>1, <2>2, AdminStep
  <2>3. CASE Recording(k)
    <3>1. stage[k] \notin {"idle", "done", "failed"}
      BY <2>3 DEF Recording, Change, Stamp, AppendEntry, Answer, Stage
    <3> QED BY <2>1, <3>1, IdleStep DEF AdminServed
  <2> QED BY <1>6, <2>2, <2>3 DEF ChangeKey
<1>7. ASSUME NEW a \in Readers \cup {Lister}, NEW from, NEW to, SetAdmin(a, from, to),
             to \in {"active", "closed"}, to = "active" => AdminAccepts
      PROVE  DrainInv'
  <2>1. /\ UNCHANGED <<conn, phase, expired, crashed, track, stage>>
        /\ admin' = [admin EXCEPT ![a] = to]
    BY <1>7 DEF SetAdmin
  <2>2. ProcessType'
    BY <1>7, <2>1 DEF DrainInv, ProcessType
  <2>3. CASE AdminAccepts
    BY <2>1, <2>2, <2>3, AdminStep
  <2>4. CASE to = "closed"
    <3>1. AdminServed => AdminServed'
      BY <2>1, <2>4 DEF DrainInv, ProcessType, AdminServed
    <3> QED BY <2>1, <2>2, <3>1, IdleStep
  <2> QED BY <1>7, <2>3, <2>4
<1>8. ASSUME UNCHANGED <<conn, admin, phase, track, stage>>, ProcessType',
             expired => expired'
      PROVE  DrainInv'
  BY <1>8, IdleStep DEF AdminServed
<1>9. CASE \/ \E s \in Readers : ReadMetrics(s)
           \/ StartReload \/ BuildLimiter \/ BuildExternal \/ Publish
           \/ Watch \/ InstallPlugin \/ PassTime \/ UNCHANGED vars
  <2>1. UNCHANGED <<conn, admin, phase, expired, crashed, track, stage>>
    BY Zenon, <1>9 DEF ReadMetrics, Snapshot, LoadRequests, LoadErrors, StartReload, BuildLimiter,
       BuildExternal, Publish, SetReload, Watch, InstallPlugin, PassTime, gatewayVars, vars
  <2> QED BY <1>8, <2>1 DEF DrainInv, ProcessType
<1>10. CASE Crash \/ Expire
  <2>1. /\ UNCHANGED <<conn, admin, phase, track, stage>>
        /\ \/ expired' = expired /\ crashed' = TRUE
           \/ expired' = TRUE /\ crashed' = crashed
    BY Zenon, <1>10 DEF Crash, Expire
  <2>2. ProcessType'
    BY Zenon, <2>1 DEF DrainInv, ProcessType
  <2>3. expired => expired'
    BY Zenon, <2>1
  <2> QED BY <1>8, <2>1, <2>2, <2>3
<1>11. CASE Signal \/ ShutdownServer \/ ShutdownAdmin \/ Exit
  <2>1. CASE Signal
    BY <2>1, MainStep DEF Signal
  <2>2. CASE ShutdownServer
    BY Zenon, <2>2, MainStep DEF ShutdownServer
  <2>3. CASE ShutdownAdmin
    <3>1. phase = "drainingAdmin"
      BY <2>3 DEF ShutdownAdmin, Move
    <3>2. ~expired => Served /\ AdminServed
      BY <2>3, <3>1 DEF ShutdownAdmin, DrainInv
    <3> QED BY <2>3, <3>2, MainStep DEF ShutdownAdmin
  <2>4. CASE Exit
    <3>1. phase = "flushing"
      BY <2>4 DEF Exit, Move
    <3>2. ~expired => Served /\ AdminServed
      BY <3>1 DEF DrainInv
    <3> QED BY <2>4, <3>2, MainStep DEF Exit
  <2> QED BY <1>11, <2>1, <2>2, <2>3, <2>4
<1>12. ASSUME NEW a \in Readers \cup {Lister}, Ask(a) PROVE DrainInv'
  BY <1>7, <1>12 DEF Ask
<1>13. ASSUME NEW s \in Readers, LeaveMetrics(s) PROVE DrainInv'
  BY <1>7, <1>13 DEF LeaveMetrics
<1>14. CASE LeaveNames
  BY <1>7, <1>14 DEF LeaveNames
<1> QED
  BY Zenon, <1>1, <1>2, <1>3, <1>4, <1>5, <1>6, <1>9, <1>10, <1>11, <1>12, <1>13, <1>14 DEF Next

LEMMA DrainInvariance == Spec => []DrainInv
<1>1. TrackerInv => TrackerType
  BY DEF TrackerInv
<1> QED BY <1>1, DrainInit, DrainNext, TrackerInvariance, PTL DEF Spec

\* What the exit leaves behind if the 30 seconds suffice, for any number of
\* requests, admin requests and readers.
THEOREM ExitIsClean == Spec => []Drained
<1>1. DrainInv => Drained
  BY DEF DrainInv, Settled, Served, AdminServed, Drained
<1> QED BY <1>1, DrainInvariance, PTL

-----------------------------------------------------------------------------
(* Types *)

\* The table that a request is matched in has a limiter that was built, and a
\* version of the external plugin that the registry has held.
ShapeInv ==
  /\ LimitType /\ PluginType
  /\ table \in Table
  /\ reload.stage \in {"idle", "limiter", "external", "publish"} /\ reload.table \in Table

LEMMA ShapeInit == Init => ShapeInv
<1> SUFFICES ASSUME Init PROVE ShapeInv
  OBVIOUS
<1>1. LimitType /\ 0 \in PluginIds
  <2>1. 0 \in PluginIds /\ Burst \in 0 .. Burst /\ 0 \in 0 .. MaxTime /\ 0 \in 0 .. 0 /\ 0 \in Nat
    BY LimitAssumption DEF PluginIds
  <2> QED BY Zenon, <2>1 DEF Init, InitLimit, LimitType
<1>2. PluginType /\ 0 \in Versions
  <2>1. 0 \in Versions
    BY VersionAssumption DEF Versions
  <2> QED BY <2>1 DEF Init, InitPlugins, PluginType
<1>3. table \in Table
  BY <1>1, <1>2 DEF Init, Table
<1> QED BY <1>1, <1>2, <1>3 DEF Init, ShapeInv

LEMMA LimitTypeStep ==
  ASSUME ShapeInv, LimitType', UNCHANGED <<pluginVars, table, reload>>
  PROVE  ShapeInv'
BY DEF ShapeInv, pluginVars, PluginType

LEMMA ReloadStep ==
  ASSUME ShapeInv, NEW from, NEW to \in {"idle", "limiter", "external", "publish"},
         NEW t \in Table, SetReload(from, to, t), table' \in {table, t},
         LimitType', UNCHANGED pluginVars
  PROVE  ShapeInv'
<1>1. reload'.stage = to /\ reload'.table = t
  BY DEF SetReload
<1> QED BY <1>1 DEF ShapeInv, pluginVars, PluginType

LEMMA ShapeStays ==
  ASSUME ShapeInv, UNCHANGED <<limitVars, pluginVars, table, reload>>
  PROVE  ShapeInv'
BY DEF ShapeInv, limitVars, pluginVars, LimitType, PluginType

LEMMA ShapeNext == ShapeInv /\ [Next]_vars => ShapeInv'
<1> SUFFICES ASSUME ShapeInv, [Next]_vars PROVE ShapeInv'
  OBVIOUS
<1>0. LimitType /\ PluginType /\ table \in Table /\ reload.table \in Table
  BY DEF ShapeInv
<1>1. ASSUME NEW q \in Requests, Arrive(q) PROVE ShapeInv'
  <2>1. Enter(q, table.limiter) /\ UNCHANGED <<pluginVars, table, reload>>
    BY <1>1 DEF Arrive, Step
  <2>2. table.limiter \in PluginIds
    BY <1>0 DEF Table
  <2>3. ask' \in [Requests -> [plugin : PluginIds, lim : Requests \cup {None}, at : 0 .. now]]
    BY <1>0, <2>1, <2>2 DEF Enter, LimitType
  <2>4. LimitType'
    BY <1>0, <2>1, <2>3 DEF Enter, LimitType
  <2> QED BY <2>1, <2>4, LimitTypeStep
<1>2. ASSUME NEW q \in Requests, Limit(q) \/ Refuse(q) PROVE ShapeInv'
  <2>1. /\ GetLimiter(q) \/ \E pass \in BOOLEAN : Allow(q, pass)
        /\ UNCHANGED <<pluginVars, table, reload>>
    BY Zenon, <1>2 DEF Limit, Refuse, Step, gatewayVars
  <2> QED BY <1>0, <2>1, GetLimiterTypes, AllowTypes, LimitTypeStep
<1>3. CASE PassTime
  BY <1>0, <1>3, TimeTypes, LimitTypeStep DEF PassTime, gatewayVars
<1>4. CASE Watch \/ InstallPlugin
  <2>1. PluginType' /\ UNCHANGED <<limitVars, table, reload>>
    BY <1>0, <1>4, PluginTypes DEF Watch, InstallPlugin, gatewayVars
  <2> QED BY <2>1 DEF ShapeInv, limitVars, LimitType
<1>5. CASE StartReload \/ Publish
  <2>1. LimitType'
    BY <1>0, <1>5 DEF StartReload, Publish, limitVars, LimitType
  <2> QED BY <1>0, <1>5, <2>1, ReloadStep DEF StartReload, Publish
<1>6. CASE BuildExternal
  <2>1. PICK v \in Readable :
          SetReload("external", "publish", [limiter |-> reload.table.limiter, external |-> v])
    BY Zenon, <1>6 DEF BuildExternal
  <2>2. v \in Versions
    BY <1>0, <2>1 DEF Readable, PluginType
  <2>3. [limiter |-> reload.table.limiter, external |-> v] \in Table
    BY <1>0, <2>2 DEF Table
  <2>4. LimitType' /\ table' = table /\ UNCHANGED pluginVars
    BY <1>0, <1>6 DEF BuildExternal, limitVars, LimitType
  <2> QED BY <2>1, <2>3, <2>4, ReloadStep
<1>7. CASE BuildLimiter
  <2>1. built + 1 \in PluginIds /\ built' = built + 1
    BY <1>0, <1>7, LimitAssumption DEF BuildLimiter, BuildPlugin, LimitType, PluginIds
  <2>2. [limiter |-> built + 1, external |-> reload.table.external] \in Table
    BY <1>0, <2>1 DEF Table
  <2>3. LimitType' /\ table' = table /\ UNCHANGED pluginVars
    BY <1>0, <1>7, <2>1 DEF BuildLimiter, BuildPlugin, LimitType
  <2>4. SetReload("limiter", "external",
                  [limiter |-> built + 1, external |-> reload.table.external])
    BY <1>7 DEF BuildLimiter
  <2> QED BY <2>2, <2>3, <2>4, ReloadStep
<1>8. CASE UNCHANGED <<limitVars, pluginVars, table, reload>>
  BY <1>8, ShapeStays
<1>9. \/ \E q \in Requests : Arrive(q) \/ Limit(q) \/ Refuse(q)
      \/ PassTime \/ Watch \/ InstallPlugin
      \/ StartReload \/ Publish \/ BuildExternal \/ BuildLimiter
      \/ UNCHANGED <<limitVars, pluginVars, table, reload>>
  BY Zenon DEF Next, vars, gatewayVars, Connect, Proxy, Abort, Finish, CloseNew, Step, ChangeKey,
       Ask, SetAdmin, ReadMetrics, LeaveMetrics, LeaveNames, Crash, Signal, Expire,
       ShutdownServer, ShutdownAdmin, Exit, Move
<1> QED BY <1>1, <1>2, <1>3, <1>4, <1>5, <1>6, <1>7, <1>8, <1>9

LEMMA ShapeInvariance == Spec => []ShapeInv
BY ShapeInit, ShapeNext, PTL DEF Spec

StageType ==
  stage \in [KeyOps -> {"idle", "change", "stamp", "append", "answer", "done", "failed"}]

LEMMA StageInvariance == Spec => []StageType
<1>1. Init => StageType
  BY DEF Init, InitAudit, StageType
<1>2. ASSUME StageType, NEW k \in KeyOps, Begin(k) \/ Recording(k) PROVE StageType'
  <2>1. PICK to \in {"change", "stamp", "append", "answer", "done", "failed"} :
          stage' = [stage EXCEPT ![k] = to]
    BY <1>2 DEF Begin, Recording, Change, Stamp, AppendEntry, Answer, Stage
  <2> QED BY <1>2, <2>1 DEF StageType
<1>3. StageType /\ UNCHANGED auditVars => StageType'
  BY DEF auditVars, StageType
<1>4. StageType /\ [Next]_vars => StageType'
  BY <1>2, <1>3, AuditSteps DEF AuditNext
<1> QED BY <1>1, <1>4, PTL DEF Spec

\* The state of the process keeps its types, for any values of the constants.
THEOREM GatewayTypes == Spec => []TypeOK
<1>1. AuditInv /\ StageType => AuditType
  <2> SUFFICES ASSUME AuditInv, StageType PROVE AuditType
    OBVIOUS
  <2>1. time \in [KeyOps -> 0 .. clock]
    BY DEF AuditInv, AuditTypes, TimesGrow
  <2> QED BY <2>1 DEF AuditInv, AuditTypes, AuditType, StageType
<1>2. TrackerInv /\ AuditType /\ ShapeInv /\ DrainInv => TypeOK
  BY DEF TrackerInv, ShapeInv, DrainInv, ProcessType, TypeOK
<1> QED BY <1>1, <1>2, TrackerInvariance, AuditInvariance, StageInvariance,
     ShapeInvariance, DrainInvariance, PTL
=============================================================================
