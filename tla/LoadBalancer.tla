----------------------------- MODULE LoadBalancer -----------------------------
(***************************************************************************)
(* The balancers of an upstream with several endpoints (round-robin,       *)
(* weighted and least-conn) and the traffic split, which chooses among     *)
(* upstreams the way the weighted balancer chooses among endpoints.        *)
(* Requests choose concurrently while the health checker changes its       *)
(* verdicts; every health check of a request is a step of its own.         *)
(***************************************************************************)
EXTENDS HealthChecker, Integers, FiniteSets

CONSTANTS
  Algorithms,   \* the algorithms to consider
  SplitWeight,  \* the configured weight of each target of a traffic split
  Requests,
  None

ASSUME BalancerAssumption ==
  /\ Algorithms \subseteq {"round-robin", "weighted", "least-conn", "split"}
  /\ SplitWeight \in [Endpoints -> Int]
  /\ None \notin Requests \cup Endpoints

VARIABLES
  alg,      \* the algorithm of this upstream
  counter,  \* round-robin: the counter, of which only the value mod N is used
  conns,    \* least-conn: the connection counts
  mu,       \* least-conn: the request that holds the mutex
  req,      \* what every request is doing
  steady,   \* history: requests during which no verdict has changed
  alone     \* history: requests during which no other has moved the counter

balancerVars == <<alg, counter, conns, mu, req>>

lbVars == <<checkerVars, balancerVars, steady, alone>>

\* at: how many endpoints have been looked at; ep: the one being looked at, the
\* best so far or the one chosen; seen: the healthy ones so far.  least-conn
\* has the best count, and which healthy endpoints were idle at the beginning.
Request ==
  [pc : {"idle", "add", "check", "load", "scan", "pick", "proxy"},
   at : 0 .. N, ep : Endpoints \cup {None}, seen : SUBSET Endpoints,
   count : Int, idle : SUBSET Endpoints]

Idle == [pc |-> "idle", at |-> 0, ep |-> None, seen |-> {}, count |-> -1, idle |-> {}]

BalancerTypeOK ==
  /\ CheckerTypeOK
  /\ alg \in Algorithms
  /\ counter \in Endpoints
  /\ conns \in [Endpoints -> Int]
  /\ mu \in Requests \cup {None}
  /\ req \in [Requests -> Request]
  /\ steady \subseteq Requests
  /\ alone \subseteq Requests

BalancerInit ==
  /\ CheckerInit
  /\ alg \in Algorithms
  /\ counter = 0
  /\ conns = [e \in Endpoints |-> 0]
  /\ mu = None
  /\ req = [r \in Requests |-> Idle]
  /\ steady = Requests
  /\ alone = Requests

Goto(r, pc) == req' = [req EXCEPT ![r].pc = pc, ![r].ep = None]

\* The requests that are not choosing.
Settled == {r \in Requests : req[r].pc \in {"idle", "proxy"}}

\* The request has an answer: what disturbed its choice is forgotten.
Settle(r, to) ==
  /\ req' = [req EXCEPT ![r] = to]
  /\ steady' = steady \cup {r}
  /\ alone' = alone \cup {r}

\* The request goes to e.
Choose(r, e) == Settle(r, [Idle EXCEPT !.pc = "proxy", !.ep = e])

\* There is no endpoint for it.
Leave(r) == Settle(r, Idle)

-----------------------------------------------------------------------------
(* Round-robin *)

\* The counter itself is the index.
AddUnwrapped(r) ==
  /\ alg = "round-robin"
  /\ req[r].pc \in {"idle", "add"}
  /\ counter' = counter + 1
  /\ req' = [req EXCEPT ![r].pc = "check", ![r].ep = counter + 1, ![r].at = @ + 1]
  /\ alone' = alone \cap (Settled \cup {r})
  /\ UNCHANGED <<checkerVars, alg, conns, mu, steady>>

\* The counter is advanced atomically and read off the result.
Add(r) ==
  LET next == (counter + 1) % N
  IN
  /\ alg = "round-robin"
  /\ req[r].pc \in {"idle", "add"}
  /\ counter' = next
  /\ req' = [req EXCEPT ![r].pc = "check", ![r].ep = next, ![r].at = @ + 1]
  /\ alone' = alone \cap (Settled \cup {r})
  /\ UNCHANGED <<checkerVars, alg, conns, mu, steady>>

\* One endpoint too few is tried.
CheckHastily(r) ==
  /\ req[r].pc = "check"
  /\ IF IsHealthy(req[r].ep) THEN Choose(r, req[r].ep)
     ELSE Goto(r, IF req[r].at < N - 1 THEN "add" ELSE "load") /\ UNCHANGED <<steady, alone>>
  /\ UNCHANGED <<checkerVars, alg, counter, conns, mu>>

CheckNext(r) ==
  /\ req[r].pc = "check"
  /\ IF IsHealthy(req[r].ep) THEN Choose(r, req[r].ep)
     ELSE Goto(r, IF req[r].at < N THEN "add" ELSE "load") /\ UNCHANGED <<steady, alone>>
  /\ UNCHANGED <<checkerVars, alg, counter, conns, mu>>

\* N endpoints were unhealthy: the request takes whichever is current.
Load(r) ==
  /\ req[r].pc = "load"
  /\ Choose(r, counter)
  /\ UNCHANGED <<checkerVars, alg, counter, conns, mu>>

-----------------------------------------------------------------------------
(* Weighted choice *)

\* Out of 100 parts every endpoint gets the same, the first also the rest; a
\* traffic split has configured weights, of at least 1.
Weight(e) ==
  IF alg = "weighted"
  THEN 100 \div N + (IF e = 0 THEN 100 % N ELSE 0)
  ELSE IF SplitWeight[e] <= 0 THEN 1 ELSE SplitWeight[e]

\* cum after endpoint e
Cumulative(eligible, e) ==
  LET sum[i \in -1 .. N - 1] ==
        IF i = -1 THEN 0 ELSE sum[i - 1] + (IF i \in eligible THEN Weight(i) ELSE 0)
  IN sum[e]

Total(eligible) == Cumulative(eligible, N - 1)

\* The comparison lets one number too many through.
PickOneOff(eligible, rnd) ==
  CHOOSE e \in eligible :
    /\ rnd <= Cumulative(eligible, e)
    /\ \A f \in eligible : f < e => rnd > Cumulative(eligible, f)

\* The first eligible endpoint whose cumulative weight exceeds rnd.
Pick(eligible, rnd) ==
  CHOOSE e \in eligible :
    /\ rnd < Cumulative(eligible, e)
    /\ \A f \in eligible : f < e => rnd >= Cumulative(eligible, f)

Filter(r) ==
  LET e == req[r].at
  IN
  /\ alg \in {"weighted", "split"}
  /\ req[r].pc \in {"idle", "scan"}
  /\ req' = [req EXCEPT ![r].at = e + 1,
                        ![r].seen = IF IsHealthy(e) THEN @ \cup {e} ELSE @,
                        ![r].pc = IF e + 1 = N THEN "pick" ELSE "scan"]
  /\ UNCHANGED <<checkerVars, alg, counter, conns, mu, steady, alone>>

\* If none is healthy all are eligible.  If the eligible ones have no weight, as
\* endpoints may that 100 parts do not go round, the request is answered 503.
PickWeighted(r) ==
  LET eligible == IF req[r].seen = {} THEN Endpoints ELSE req[r].seen
  IN
  /\ alg \in {"weighted", "split"}
  /\ req[r].pc = "pick"
  /\ IF Total(eligible) = 0 THEN Leave(r)
     ELSE \E e \in {Pick(eligible, rnd) : rnd \in 0 .. Total(eligible) - 1} : Choose(r, e)
  /\ UNCHANGED <<checkerVars, alg, counter, conns, mu>>

-----------------------------------------------------------------------------
(* Least-conn *)

\* Without the mutex.
LockSkipped(r) ==
  /\ alg = "least-conn"
  /\ req[r].pc = "idle"
  /\ mu' = r
  /\ req' = [req EXCEPT ![r].pc = "scan",
                        ![r].idle = {e \in Healthy : conns[e] = 0}]
  /\ UNCHANGED <<checkerVars, alg, counter, conns, steady, alone>>

Lock(r) ==
  /\ alg = "least-conn"
  /\ req[r].pc = "idle"
  /\ mu = None
  /\ mu' = r
  /\ req' = [req EXCEPT ![r].pc = "scan",
                        ![r].idle = {e \in Healthy : conns[e] = 0}]
  /\ UNCHANGED <<checkerVars, alg, counter, conns, steady, alone>>

\* Health check and load of one endpoint.  bestCount is -1 while there is none.
Compare(r) ==
  LET e == req[r].at
      better == IsHealthy(e) /\ (req[r].count < 0 \/ conns[e] < req[r].count)
  IN
  /\ alg = "least-conn"
  /\ req[r].pc = "scan"
  /\ req' = [req EXCEPT ![r].at = e + 1,
                        ![r].ep = IF better THEN e ELSE @,
                        ![r].count = IF better THEN conns[e] ELSE @,
                        ![r].pc = IF e + 1 = N THEN "pick" ELSE "scan"]
  /\ UNCHANGED <<checkerVars, alg, counter, conns, mu, steady, alone>>

\* The count of an endpoint chosen for want of a healthy one is left alone.
TakeUncounted(r) ==
  LET best == IF req[r].ep = None THEN 0 ELSE req[r].ep
  IN
  /\ alg = "least-conn"
  /\ req[r].pc = "pick"
  /\ conns' = [conns EXCEPT ![best] = IF req[r].ep = None THEN @ ELSE @ + 1]
  /\ Choose(r, best)
  /\ mu' = None
  /\ UNCHANGED <<checkerVars, alg, counter>>

Take(r) ==
  LET best == IF req[r].ep = None THEN 0 ELSE req[r].ep
  IN
  /\ alg = "least-conn"
  /\ req[r].pc = "pick"
  /\ conns' = [conns EXCEPT ![best] = @ + 1]
  /\ Choose(r, best)
  /\ mu' = None
  /\ UNCHANGED <<checkerVars, alg, counter>>

\* The proxy returns; with least-conn the deferred Done lowers the count.
Done(r) ==
  /\ req[r].pc = "proxy"
  /\ conns' = IF alg = "least-conn" THEN [conns EXCEPT ![req[r].ep] = @ - 1] ELSE conns
  /\ req' = [req EXCEPT ![r] = Idle]
  /\ UNCHANGED <<checkerVars, alg, counter, mu, steady, alone>>

-----------------------------------------------------------------------------
Balance(r) ==
  \/ Add(r)
  \/ CheckNext(r)
  \/ Load(r)
  \/ Filter(r)
  \/ PickWeighted(r)
  \/ Lock(r)
  \/ Compare(r)
  \/ Take(r)
  \/ Done(r)

\* A verdict that changes disturbs every request under way.
Disturb ==
  /\ steady' = IF Healthy' = Healthy THEN steady ELSE steady \cap Settled
  /\ UNCHANGED <<balancerVars, alone>>

BalancerNext ==
  \/ \E r \in Requests : Balance(r)
  \/ \E e \in Endpoints : Fail(e) /\ Disturb
  \/ \E e \in Endpoints : Recover(e) /\ Disturb
  \/ SetPath /\ Disturb
  \/ ProbeAll /\ Disturb
  \/ Probe /\ Disturb
  \/ Mark /\ Disturb

BalancerSpec == BalancerInit /\ [][BalancerNext]_lbVars

FairBalancerSpec == BalancerSpec /\ WF_lbVars(Check /\ Disturb)

-----------------------------------------------------------------------------
(* Properties *)

Chosen(r) == req[r].pc # "proxy" /\ req'[r].pc = "proxy"

\* The connection counts of least-conn are exact, whatever the interleaving of
\* Next and Done: each is the number of requests being proxied.
ConnsExact ==
  alg = "least-conn" =>
    \A e \in Endpoints :
      conns[e] = Cardinality({r \in Requests : req[r].pc = "proxy" /\ req[r].ep = e})

\* A request goes to a healthy endpoint if one is healthy and no verdict changes
\* while it chooses; with round-robin, if no other request moves the counter
\* in the meantime either.
HealthyIfUndisturbed ==
  [][\A r \in Requests :
       Chosen(r) /\ r \in steady /\ (alg = "round-robin" => r \in alone) /\ Healthy # {}
         => IsHealthy(req'[r].ep)]_lbVars

\* least-conn puts no second request on an endpoint while a healthy endpoint
\* was idle from the beginning: the mutex keeps other requests from taking
\* it between the scan and the choice.
IdleFirst ==
  [][\A r \in Requests :
       alg = "least-conn" /\ Chosen(r) /\ r \in steady /\ req[r].idle # {}
         => \A q \in Requests : req[q].pc = "proxy" => req[q].ep # req'[r].ep]_lbVars

\* Of the numbers a weighted request may draw, as many lead to an endpoint as it
\* has weight, whichever endpoints are eligible.
ProportionalShare ==
  alg \in {"weighted", "split"} =>
    \A r \in Requests : req[r].pc = "pick" =>
      LET eligible == IF req[r].seen = {} THEN Endpoints ELSE req[r].seen
      IN \A e \in eligible :
           Weight(e) = Cardinality({rnd \in 0 .. Total(eligible) - 1 : Pick(eligible, rnd) = e})
=============================================================================
