---------------------------- MODULE HealthChecker ----------------------------
(***************************************************************************)
(* The background health checker.  It probes the endpoints of the store's  *)
(* upstreams one after the other, round after round; a probe and the       *)
(* record of its result are two steps, between which an endpoint may fail  *)
(* or recover.  The model has one upstream, whose health path an           *)
(* administrator may set or clear.                                         *)
(***************************************************************************)
EXTENDS Naturals

CONSTANTS N  \* the upstream has the endpoints 0 .. N-1

ASSUME NAssumption == N \in Nat \ {0}

Endpoints == 0 .. N - 1

VARIABLES
  up,        \* the endpoints that work
  path,      \* whether the upstream has a health path
  states,    \* Checker.states: the endpoints whose entry says unhealthy
  round      \* the round of probes that is under way

checkerVars == <<up, path, states, round>>

\* A round works on a copy of the upstream.  answer is the result of a probe
\* not yet recorded.
CheckerTypeOK ==
  /\ up \subseteq Endpoints
  /\ path \in BOOLEAN
  /\ states \subseteq Endpoints
  /\ round \in [at : 0 .. N, path : BOOLEAN, answer : {"none", "healthy", "unhealthy"}]

CheckerInit ==
  /\ up \in SUBSET Endpoints
  /\ path \in BOOLEAN
  /\ states = {}
  /\ round = [at |-> N, path |-> FALSE, answer |-> "none"]

\* An endpoint without an entry is as healthy as one whose entry says so.
IsHealthy(e) == e \notin states

Healthy == {e \in Endpoints : IsHealthy(e)}

-----------------------------------------------------------------------------
Fail(e) ==
  /\ e \in up
  /\ up' = up \ {e}
  /\ UNCHANGED <<path, states, round>>

Recover(e) ==
  /\ e \notin up
  /\ up' = up \cup {e}
  /\ UNCHANGED <<path, states, round>>

SetPath ==
  /\ path' = ~path
  /\ UNCHANGED <<up, states, round>>

\* The ticker fires and probeAll lists the upstreams.
ProbeAll ==
  /\ round.at = N
  /\ round' = [at |-> 0, path |-> path, answer |-> "none"]
  /\ UNCHANGED <<up, path, states>>

\* Without a health path the endpoint is healthy unasked.
Probe ==
  /\ round.at < N
  /\ round.answer = "none"
  /\ round' = [round EXCEPT !.answer =
                 IF round.path /\ round.at \notin up THEN "unhealthy" ELSE "healthy"]
  /\ UNCHANGED <<up, path, states>>

\* The first failure ends the round.
MarkGivesUp ==
  /\ round.answer # "none"
  /\ states' = IF round.answer = "healthy" THEN states \ {round.at} ELSE states \cup {round.at}
  /\ round' = [round EXCEPT !.at = IF round.answer = "unhealthy" THEN N ELSE @ + 1,
                            !.answer = "none"]
  /\ UNCHANGED <<up, path>>

\* Only failures are recorded.
MarkFailures ==
  /\ round.answer # "none"
  /\ states' = IF round.answer = "healthy" THEN states ELSE states \cup {round.at}
  /\ round' = [round EXCEPT !.at = @ + 1, !.answer = "none"]
  /\ UNCHANGED <<up, path>>

\* markHealthy, markUnhealthy
Mark ==
  /\ round.answer # "none"
  /\ states' = IF round.answer = "healthy" THEN states \ {round.at} ELSE states \cup {round.at}
  /\ round' = [round EXCEPT !.at = @ + 1, !.answer = "none"]
  /\ UNCHANGED <<up, path>>

Check ==
  \/ ProbeAll
  \/ Probe
  \/ Mark

-----------------------------------------------------------------------------
(* Properties.  Check is weakly fair: the checker's goroutine never stops,   *)
(* and a probe ends after five seconds at the latest.                        *)

\* An endpoint that stays down while its upstream has a health path ends up
\* unhealthy for good, whatever the checker found before.
Detects ==
  \A e \in Endpoints : <>[](path /\ e \notin up) => <>[]~IsHealthy(e)

\* An endpoint that stays up, or whose upstream loses its health path for good,
\* ends up healthy for good.
Readmits ==
  \A e \in Endpoints : <>[](e \in up) \/ <>[]~path => <>[]IsHealthy(e)
=============================================================================
