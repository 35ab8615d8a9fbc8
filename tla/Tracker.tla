------------------------------- MODULE Tracker -------------------------------
(***************************************************************************)
(* internal/metrics/tracker.go: the counters of one route.  Requests find  *)
(* or create the route's counter and add to it, one atomic Add at a time,  *)
(* while admin handlers read it.  Counters of other routes share nothing   *)
(* with it but the lock of the map, and the latencies are added and read   *)
(* as the requests are.                                                    *)
(***************************************************************************)
EXTENDS Handlers, Naturals, FiniteSets

ASSUME TrackerAssumption == IsFiniteSet(Requests)

VARIABLES
  counter,      \* the counter that t.routes holds for the route, or None
  counts,       \* the counters, by the request that makes them
  track,        \* the calls of Track
  snap,         \* the calls of Snapshot
  tracked       \* what the calls of Track that have returned were about

trackerVars == <<counter, counts, track, snap, tracked>>

Tally == [requests : Nat, errors : Nat]

NoTally == [requests |-> 0, errors |-> 0]

TrackerType ==
  /\ counter \in Requests \cup {None}
  /\ counts \in [Requests -> Tally]
  /\ track \in [Requests -> [stage : {"idle", "lookup", "create", "request", "error", "done"},
                             failed : BOOLEAN, c : Requests \cup {None}]]
  /\ snap \in [Readers -> [stage : {"idle", "requests", "errors", "done"}, base : Tally,
                            requests : Nat, errors : Nat, missed : Nat]]
  /\ tracked \in Tally

InitTracker ==
  /\ counter = None
  /\ counts = [q \in Requests |-> NoTally]
  /\ track = [q \in Requests |-> [stage |-> "idle", failed |-> FALSE, c |-> None]]
  /\ snap = [s \in Readers |-> [stage |-> "idle", base |-> NoTally,
                              requests |-> 0, errors |-> 0, missed |-> 0]]
  /\ tracked = NoTally

-----------------------------------------------------------------------------
(* Track *)

\* The handler has returned, with a status of 400 or more if failed.
Track(q, failed) ==
  /\ track[q].stage = "idle"
  /\ track' = [track EXCEPT ![q] = [stage |-> "lookup", failed |-> failed, c |-> None]]
  /\ UNCHANGED <<counter, counts, snap, tracked>>

\* getOrCreate looks under the read lock first.
Lookup(q) ==
  /\ track[q].stage = "lookup"
  /\ track' = [track EXCEPT ![q] =
                 [stage |-> IF counter # None THEN "request" ELSE "create",
                  failed |-> @.failed, c |-> counter]]
  /\ UNCHANGED <<counter, counts, snap, tracked>>

\* A Snapshot keeps the read lock to its end.
Locked == \E s \in Readers : snap[s].stage \in {"requests", "errors"}

\* Replaces the counter that somebody else may have made since.
CreateUnchecked(q) ==
  /\ track[q].stage = "create"
  /\ ~Locked
  /\ counter' = q
  /\ track' = [track EXCEPT ![q] = [stage |-> "request", failed |-> @.failed, c |-> q]]
  /\ UNCHANGED <<counts, snap, tracked>>

\* Somebody else may have made the counter since.
Create(q) ==
  LET c == IF counter # None THEN counter ELSE q
  IN
  /\ track[q].stage = "create"
  /\ ~Locked
  /\ counter' = c
  /\ track' = [track EXCEPT ![q] = [stage |-> "request", failed |-> @.failed, c |-> c]]
  /\ UNCHANGED <<counts, snap, tracked>>

\* Return from Track.
Tracked(q) ==
  tracked' = [requests |-> tracked.requests + 1,
              errors |-> tracked.errors + IF track[q].failed THEN 1 ELSE 0]

\* c.requests.Add(1).  Readers that have loaded requests and not yet errors
\* will not see this one.
CountRequest(q) ==
  /\ track[q].stage = "request"
  /\ counts' = [counts EXCEPT ![track[q].c].requests = @ + 1]
  /\ snap' = [s \in Readers |-> IF snap[s].stage = "errors"
                                THEN [snap[s] EXCEPT !.missed = @ + 1] ELSE snap[s]]
  /\ IF track[q].failed
     THEN track' = [track EXCEPT ![q].stage = "error"] /\ UNCHANGED tracked
     ELSE track' = [track EXCEPT ![q].stage = "done"] /\ Tracked(q)
  /\ UNCHANGED counter

\* c.errors.Add(1)
CountError(q) ==
  /\ track[q].stage = "error"
  /\ counts' = [counts EXCEPT ![track[q].c].errors = @ + 1]
  /\ track' = [track EXCEPT ![q].stage = "done"]
  /\ Tracked(q)
  /\ UNCHANGED <<counter, snap>>

Tracking(q) == Lookup(q) \/ Create(q) \/ CountRequest(q) \/ CountError(q)

-----------------------------------------------------------------------------
(* Snapshot *)

\* Has no rows while a request waits for the lock (TryRLock).
SnapshotTries(s) ==
  /\ snap[s].stage \in {"idle", "done"}
  /\ snap' = [snap EXCEPT ![s] =
                [stage |-> IF counter = None \/ \E q \in Requests : track[q].stage = "create"
                           THEN "done" ELSE "requests",
                 base |-> tracked, requests |-> 0, errors |-> 0, missed |-> 0]]
  /\ UNCHANGED <<counter, counts, track, tracked>>

\* Takes the read lock; base is what had been tracked by then.  A route without
\* a counter has no row.
Snapshot(s) ==
  /\ snap[s].stage \in {"idle", "done"}
  /\ snap' = [snap EXCEPT ![s] =
                [stage |-> IF counter = None THEN "done" ELSE "requests", base |-> tracked,
                 requests |-> 0, errors |-> 0, missed |-> 0]]
  /\ UNCHANGED <<counter, counts, track, tracked>>

LoadRequests(s) ==
  /\ snap[s].stage = "requests"
  /\ snap' = [snap EXCEPT ![s] =
                [stage |-> "errors", base |-> @.base, requests |-> counts[counter].requests,
                 errors |-> 0, missed |-> 0]]
  /\ UNCHANGED <<counter, counts, track, tracked>>

LoadErrors(s) ==
  /\ snap[s].stage = "errors"
  /\ snap' = [snap EXCEPT ![s] =
                [stage |-> "done", base |-> @.base, requests |-> @.requests,
                 errors |-> counts[counter].errors, missed |-> @.missed]]
  /\ UNCHANGED <<counter, counts, track, tracked>>

-----------------------------------------------------------------------------
\* The requests that have yet to add their error.
Erring == {q \in Requests : track[q].stage = "error"}

\* No request is lost or counted twice, however many race to create the route's
\* counter: it holds the calls of Track that have returned and, as requests,
\* those that have yet to add their error.
CountsExact ==
  IF counter = None THEN tracked.requests = 0
  ELSE counts[counter] =
         [requests |-> tracked.requests + Cardinality(Erring), errors |-> tracked.errors]

\* A snapshot shows at least what had been tracked when it was asked for, and
\* more errors than requests only for requests counted between its two loads.
SnapshotSound ==
  \A s \in Readers : snap[s].stage = "done" =>
    /\ snap[s].requests >= snap[s].base.requests
    /\ snap[s].errors >= snap[s].base.errors
    /\ snap[s].errors <= snap[s].requests + snap[s].missed
=============================================================================
