--------------------------- MODULE CircuitBreaker ---------------------------
(***************************************************************************)
(* The "circuit-breaker" plugin: one breaker shared by the goroutines of   *)
(* all requests that pass through it.  A request calls allow() under       *)
(* cb.mu, runs the rest of the chain without the lock, and calls record()  *)
(* under cb.mu again, so a result may be recorded in a later state than    *)
(* the one that admitted the request.                                      *)
(***************************************************************************)
EXTENDS Integers

CONSTANTS
  Callers,     \* request goroutines; a finished one stands for a new request
  ProbeCount,   \* cfg.ProbeCount
  Timeout,      \* cfg.Timeout, in ticks
  ThresholdNum, \* cfg.Threshold as the fraction ThresholdNum / ThresholdDen
  ThresholdDen,
  MayPanic,     \* whether the wrapped handler may panic (http.ErrAbortHandler)
  MaxTotal,     \* bound: a closed breaker admits while total < MaxTotal
  MaxFailures   \* bound: the upstream fails at most this often

ASSUME BreakerAssumption ==
  /\ ProbeCount \in Nat
  /\ Timeout \in Nat
  /\ ThresholdNum \in Nat \ {0}
  /\ ThresholdDen \in Nat \ {0}
  /\ MayPanic \in BOOLEAN
  /\ MaxTotal \in Nat
  /\ MaxFailures \in Nat

VARIABLES
  state,     \* cb.state
  failures,  \* cb.failures
  total,     \* cb.total
  probes,    \* cb.probes
  age,       \* time.Since(cb.openedAt), counted up to Timeout while open
  inflight,  \* requests between allow() and record()
  admitted,  \* history: requests admitted since the last step into half-open
  shut       \* history: time since the breaker last opened, up to Timeout

breakerVars == <<state, failures, total, probes, age, inflight, admitted, shut>>

\* The literal of the trip condition: fewer results never trip the breaker.
MinSamples == 10

BreakerTypeOK ==
  /\ state \in {"closed", "open", "half_open"}
  /\ failures \in Nat
  /\ total \in Nat
  /\ probes \in Nat
  /\ age \in 0..Timeout
  /\ inflight \subseteq Callers
  /\ admitted \in Nat
  /\ shut \in 0..Timeout

BreakerInit ==
  /\ state = "closed"
  /\ failures = 0
  /\ total = 0
  /\ probes = 0
  /\ age = 0
  /\ inflight = {}
  /\ admitted = 0
  /\ shut = 0

-----------------------------------------------------------------------------
(* allow() *)

AllowClosed(r) ==
  /\ state = "closed"
  /\ total < MaxTotal
  /\ r \notin inflight
  /\ inflight' = inflight \cup {r}
  /\ UNCHANGED <<state, failures, total, probes, age, admitted, shut>>

\* time.Since(cb.openedAt) >= cb.cfg.Timeout
TimedOut == age >= Timeout

\* The value the step into half-open gives to probes.
TrialProbes == 0

\* The request that finds the timeout expired moves the breaker to half-open
\* and is admitted without being counted in probes.
AllowTrial(r) ==
  /\ state = "open"
  /\ TimedOut
  /\ r \notin inflight
  /\ state' = "half_open"
  /\ probes' = TrialProbes
  /\ admitted' = 1
  /\ inflight' = inflight \cup {r}
  /\ UNCHANGED <<failures, total, age, shut>>

ProbesRemain == probes < ProbeCount

AllowProbe(r) ==
  /\ state = "half_open"
  /\ ProbesRemain
  /\ r \notin inflight
  /\ probes' = probes + 1
  /\ admitted' = admitted + 1
  /\ inflight' = inflight \cup {r}
  /\ UNCHANGED <<state, failures, total, age, shut>>

\* A rejection counts as the breaker's latest failure and sets openedAt again.
RejectRestarts(r) ==
  /\ r \notin inflight
  /\ \/ state = "open" /\ ~TimedOut
     \/ state = "half_open" /\ ~ProbesRemain
  /\ age' = 0
  /\ UNCHANGED <<state, failures, total, probes, inflight, admitted, shut>>

\* allow() returns false: the client gets 503 and nothing changes.
Reject(r) ==
  /\ r \notin inflight
  /\ \/ state = "open" /\ ~TimedOut
     \/ state = "half_open" /\ ~ProbesRemain
  /\ UNCHANGED breakerVars

-----------------------------------------------------------------------------
(* record() *)

\* No minimum number of samples.
TripsWithoutMinimum(f, t) == f * ThresholdDen >= ThresholdNum * t

Trips(f, t) ==
  /\ t >= MinSamples
  /\ f * ThresholdDen >= ThresholdNum * t

\* The condition on which a half-open breaker closes, on a successful result.
Recovers(f) == probes >= ProbeCount /\ f = 0

\* What record does to the state, given the updated counters.
NextState(failed, f, t) ==
  CASE state = "half_open" /\ failed -> "open"
    [] state = "half_open" /\ ~failed /\ Recovers(f) -> "closed"
    [] state = "closed" /\ Trips(f, t) -> "open"
    [] OTHER -> state

\* openedAt is set by the first trip and not by a failed probe.
SetsOpenedAtOnTrip(failed, f, t) ==
  state = "closed" /\ NextState(failed, f, t) = "open"

\* openedAt is set on a transition into open, and only then.
SetsOpenedAt(failed, f, t) ==
  state # "open" /\ NextState(failed, f, t) = "open"

Record(r, failed) ==
  LET f == failures + (IF failed THEN 1 ELSE 0)
      t == total + 1
      closes == state = "half_open" /\ NextState(failed, f, t) = "closed"
  IN
  /\ r \in inflight
  /\ failed => failures < MaxFailures
  /\ inflight' = inflight \ {r}
  /\ state' = NextState(failed, f, t)
  /\ failures' = IF closes THEN 0 ELSE f
  /\ total' = IF closes THEN 0 ELSE t
  /\ age' = IF SetsOpenedAt(failed, f, t) THEN 0 ELSE age
  /\ shut' = IF state # "open" /\ state' = "open" THEN 0 ELSE shut
  /\ UNCHANGED <<probes, admitted>>

\* The wrapped handler panics: record() is not deferred, so it is skipped.
Panic(r) ==
  /\ MayPanic
  /\ r \in inflight
  /\ inflight' = inflight \ {r}
  /\ UNCHANGED <<state, failures, total, probes, age, admitted, shut>>

Later(t) == IF t < Timeout THEN t + 1 ELSE t

\* Time passes.  openedAt is only read while the breaker is open.
Tick ==
  /\ state = "open"
  /\ age < Timeout \/ shut < Timeout
  /\ age' = Later(age)
  /\ shut' = Later(shut)
  /\ UNCHANGED <<state, failures, total, probes, inflight, admitted>>

BreakerNext ==
  \/ \E r \in Callers : AllowClosed(r)
  \/ \E r \in Callers : AllowTrial(r)
  \/ \E r \in Callers : AllowProbe(r)
  \/ \E r \in Callers : Reject(r)
  \/ \E r \in Callers, failed \in BOOLEAN : Record(r, failed)
  \/ \E r \in Callers : Panic(r)
  \/ Tick

BreakerSpec == BreakerInit /\ [][BreakerNext]_breakerVars

(***************************************************************************)
(* Time passes, clients keep sending requests, and every admitted request  *)
(* gets an answer (the transports' timeouts and the server's WriteTimeout  *)
(* bound it).                                                              *)
(***************************************************************************)
BreakerFairness ==
  /\ WF_breakerVars(Tick)
  /\ \A r \in Callers :
       /\ WF_breakerVars(AllowClosed(r) \/ AllowTrial(r) \/ AllowProbe(r))
       /\ WF_breakerVars(\E failed \in BOOLEAN : Record(r, failed))

FairBreakerSpec == BreakerSpec /\ BreakerFairness

-----------------------------------------------------------------------------
(* Properties *)

\* A breaker that is not closed has seen enough failures to justify its trip:
\* at least Threshold of the MinSamples results record() asks for.  Late
\* results, panics and half-open rounds never leave it tripped on less.
TripHasEvidence ==
  state # "closed" =>
    /\ total >= MinSamples
    /\ failures * ThresholdDen >= ThresholdNum * MinSamples

\* An open breaker keeps its requests away for the Timeout that follows its
\* latest opening, by a trip or by a failed probe, and no longer: results that
\* come in late, and the half-open periods before, do not move that moment.
OpenPeriod == state = "open" => (TimedOut <=> shut >= Timeout)

\* An open breaker is eventually tried again, however many requests it rejects
\* and however many late results it records meanwhile.
OpenIsRetried == state = "open" ~> state = "half_open"

\* The README promises "auto-open/half-open/close": since the upstream fails
\* only MaxFailures times, a breaker must be closed again and again.
Recloses == []<>(state = "closed")

\* ProbeCount is documented as the "Number of requests allowed in half-open
\* state to probe recovery": allow() admits no more than that between the step
\* into half-open and the step out of it.
HalfOpenAdmissions == state = "half_open" => admitted <= ProbeCount
=============================================================================
