---------------------------- MODULE RecordProofs ----------------------------
(***************************************************************************)
(* The inductive invariants of what the gateway's handlers record, the     *)
(* counters of a route and the audit log, and the proofs that each step    *)
(* keeps them, for any number of requests and readers and any size of the  *)
(* log.  GatewayProofs carries them over to the gateway's process.         *)
(***************************************************************************)
EXTENDS Tracker, AuditLog, Integers, FiniteSetTheorems, TLAPS

-----------------------------------------------------------------------------
(* The counters of a route *)

TrackerNext ==
  \/ \E q \in Requests : Tracking(q) \/ \E failed \in BOOLEAN : Track(q, failed)
  \/ \E s \in Readers : Snapshot(s) \/ LoadRequests(s) \/ LoadErrors(s)

(***************************************************************************)
(* The inductive invariant: whoever adds to a counter adds to the one in   *)
(* the map, and what a snapshot has read so far is bounded by what is      *)
(* counted now.                                                            *)
(***************************************************************************)
SoFar(st, br, be, r, e, m, c, tr, te, cr) ==
  /\ st \in {"requests", "errors"} => c # None /\ br <= tr /\ be <= te
  /\ st = "errors" => br <= r /\ cr = r + m
  /\ st = "done" => br <= r /\ be <= e /\ e <= r + m

ReadSoFar(s) ==
  SoFar(snap[s].stage, snap[s].base.requests, snap[s].base.errors,
        snap[s].requests, snap[s].errors, snap[s].missed,
        counter, tracked.requests, tracked.errors, counts[counter].requests)

Counted ==
  /\ counter # None =>
       /\ counts[counter].requests = tracked.requests + Cardinality(Erring)
       /\ counts[counter].errors = tracked.errors
  /\ counter = None => tracked.requests = 0
  /\ tracked.errors <= tracked.requests
  /\ \A q \in Requests : q # counter => counts[q] = NoTally
  /\ \A q \in Requests : track[q].stage \in {"request", "error"} =>
                         counter # None /\ track[q].c = counter
  /\ \A q \in Requests : track[q].stage = "error" => track[q].failed

TrackerInv == TrackerType /\ Counted /\ \A s \in Readers : ReadSoFar(s)

LEMMA ErringSize == IsFiniteSet(Erring) /\ Cardinality(Erring) \in Nat
BY TrackerAssumption, FS_Subset, FS_CardinalityType DEF Erring

\* Requests are added to the counter, which readers of the requests have missed.
LEMMA SoFarGrows ==
  ASSUME NEW st, NEW br \in Nat, NEW be \in Nat, NEW r \in Nat, NEW e \in Nat, NEW m \in Nat,
         NEW c, NEW tr \in Nat, NEW te \in Nat, NEW cr \in Nat,
         NEW m2 \in Nat, NEW c2, NEW tr2 \in Nat, NEW te2 \in Nat, NEW cr2 \in Nat,
         SoFar(st, br, be, r, e, m, c, tr, te, cr), tr <= tr2, te <= te2, c2 # None,
         IF st = "errors" THEN m2 - m = cr2 - cr ELSE m2 = m
  PROVE  SoFar(st, br, be, r, e, m2, c2, tr2, te2, cr2)
BY DEF SoFar

\* The three steps of a reader.
LEMMA SoFarBegins ==
  ASSUME NEW st, NEW c, NEW tr \in Nat, NEW te \in Nat, NEW cr, te <= tr, c = None => tr = 0,
         st = IF c = None THEN "done" ELSE "requests"
  PROVE  SoFar(st, tr, te, 0, 0, 0, c, tr, te, cr)
BY DEF SoFar

LEMMA SoFarRequests ==
  ASSUME NEW br \in Nat, NEW be \in Nat, NEW r, NEW e, NEW m,
         NEW c, NEW tr \in Nat, NEW te \in Nat, NEW cr \in Nat,
         SoFar("requests", br, be, r, e, m, c, tr, te, cr), tr <= cr
  PROVE  SoFar("errors", br, be, cr, 0, 0, c, tr, te, cr)
BY DEF SoFar

LEMMA SoFarErrors ==
  ASSUME NEW br \in Nat, NEW be \in Nat, NEW r \in Nat, NEW e, NEW m \in Nat,
         NEW c, NEW tr \in Nat, NEW te \in Nat, NEW cr \in Nat,
         SoFar("errors", br, be, r, e, m, c, tr, te, cr), te <= tr, tr <= cr
  PROVE  SoFar("done", br, be, r, te, m, c, tr, te, cr)
BY DEF SoFar

LEMMA TrackerInit == InitTracker => TrackerInv
<1> SUFFICES ASSUME InitTracker PROVE TrackerInv
  OBVIOUS
<1>1. TrackerType
  BY DEF InitTracker, TrackerType, Tally, NoTally
<1>2. Counted
  BY DEF InitTracker, Counted, NoTally
<1> QED BY <1>1, <1>2 DEF InitTracker, TrackerInv, ReadSoFar, SoFar

\* A call of Track that does not add to a counter.
LEMMA TrackKeeps ==
  ASSUME TrackerInv, NEW q \in Requests, NEW failed \in BOOLEAN, Track(q, failed)
  PROVE  TrackerInv'
<1>1. track' \in [Requests -> [stage : {"idle", "lookup", "create", "request", "error", "done"},
                              failed : BOOLEAN, c : Requests \cup {None}]]
  BY DEF Track, TrackerInv, TrackerType
<1>2. Erring' = Erring /\ \A r \in Requests : r # q => track'[r] = track[r]
  BY DEF Track, TrackerInv, TrackerType, Erring
<1>3. track'[q].stage = "lookup"
  BY DEF Track, TrackerInv, TrackerType
<1> QED
  BY <1>1, <1>2, <1>3 DEF Track, TrackerInv, TrackerType, Counted, ReadSoFar

LEMMA LookupKeeps ==
  ASSUME TrackerInv, NEW q \in Requests, Lookup(q)
  PROVE  TrackerInv'
<1>1. track' \in [Requests -> [stage : {"idle", "lookup", "create", "request", "error", "done"},
                              failed : BOOLEAN, c : Requests \cup {None}]]
  BY DEF Lookup, TrackerInv, TrackerType
<1>2. Erring' = Erring /\ \A r \in Requests : r # q => track'[r] = track[r]
  BY DEF Lookup, TrackerInv, TrackerType, Erring
<1>3. track'[q].stage = (IF counter # None THEN "request" ELSE "create") /\ track'[q].c = counter
  BY DEF Lookup, TrackerInv, TrackerType
<1> QED
  BY <1>1, <1>2, <1>3 DEF Lookup, TrackerInv, TrackerType, Counted, ReadSoFar

\* The new counter is empty, and nobody is reading.
LEMMA CreateKeeps ==
  ASSUME TrackerInv, NEW q \in Requests, Create(q)
  PROVE  TrackerInv'
<1>1. PICK c \in Requests : /\ c = (IF counter # None THEN counter ELSE q)
                           /\ counter' = c
                           /\ track' = [track EXCEPT ![q] = [stage |-> "request",
                                                    failed |-> track[q].failed, c |-> c]]
  BY Zenon DEF Create, TrackerInv, TrackerType
<1>2. track' \in [Requests -> [stage : {"idle", "lookup", "create", "request", "error", "done"},
                              failed : BOOLEAN, c : Requests \cup {None}]]
  BY <1>1 DEF TrackerInv, TrackerType
<1>3. Erring' = Erring /\ \A r \in Requests : r # q => track'[r] = track[r]
  BY <1>1 DEF Create, TrackerInv, TrackerType, Erring
<1>4. track'[q].stage = "request" /\ track'[q].c = c
  BY <1>1 DEF TrackerInv, TrackerType
<1>5. UNCHANGED <<counts, snap, tracked>> /\ c # None
  BY HandlersAssumption DEF Create
<1>6. Counted'
  <2>1. CASE counter # None
    BY <1>1, <1>3, <1>4, <1>5, <2>1 DEF TrackerInv, Counted
  <2>2. CASE counter = None
    <3>1. Erring = {}
      BY <2>2 DEF TrackerInv, Counted, Erring
    <3>2. Cardinality(Erring) = 0
      BY <3>1, FS_EmptySet
    <3>3. \A r \in Requests : counts[r] = NoTally
      BY <2>2, HandlersAssumption DEF TrackerInv, Counted
    <3>4. tracked.requests = 0 /\ tracked.errors = 0
      BY <2>2 DEF TrackerInv, TrackerType, Tally, Counted
    <3>5. counts[c].requests = 0 /\ counts[c].errors = 0
      BY <3>3 DEF NoTally
    <3> QED
      BY <1>1, <1>3, <1>4, <1>5, <2>2, <3>2, <3>3, <3>4, <3>5 DEF TrackerInv, Counted
  <2> QED BY <2>1, <2>2
<1>7. \A s \in Readers : ReadSoFar(s)'
  BY <1>1, <1>5 DEF TrackerInv, ReadSoFar, SoFar, Create, Locked
<1> QED BY <1>1, <1>2, <1>5, <1>6, <1>7 DEF TrackerInv, TrackerType

\* What the steps that add to the counter have in common.
LEMMA AddKeeps ==
  ASSUME TrackerInv, NEW q \in Requests, CountRequest(q) \/ CountError(q)
  PROVE  /\ counter \in Requests /\ track[q].c = counter /\ counter' = counter
         /\ \A r \in Requests : r # q => track'[r] = track[r]
         /\ track' \in [Requests -> [stage : {"idle", "lookup", "create", "request", "error", "done"},
                                    failed : BOOLEAN, c : Requests \cup {None}]]
         /\ counts' \in [Requests -> Tally]
         /\ \A r \in Requests : r # counter => counts'[r] = counts[r]
         /\ tracked' \in Tally
<1>1. counter \in Requests /\ track[q].c = counter /\ counter' = counter
  BY DEF CountRequest, CountError, TrackerInv, TrackerType, Counted
<1>2. /\ \A r \in Requests : r # q => track'[r] = track[r]
      /\ track' \in [Requests -> [stage : {"idle", "lookup", "create", "request", "error", "done"},
                                 failed : BOOLEAN, c : Requests \cup {None}]]
  BY DEF CountRequest, CountError, TrackerInv, TrackerType
<1>3. /\ counts' \in [Requests -> Tally]
      /\ \A r \in Requests : r # counter => counts'[r] = counts[r]
  BY <1>1 DEF CountRequest, CountError, TrackerInv, TrackerType, Tally
<1>4. tracked' \in Tally
  BY DEF CountRequest, CountError, Tracked, TrackerInv, TrackerType, Tally
<1> QED BY <1>1, <1>2, <1>3, <1>4

LEMMA CountRequestKeeps ==
  ASSUME TrackerInv, NEW q \in Requests, CountRequest(q)
  PROVE  TrackerInv'
<1>1. /\ counter \in Requests /\ track[q].c = counter /\ counter' = counter
      /\ \A r \in Requests : r # q => track'[r] = track[r]
      /\ track' \in [Requests -> [stage : {"idle", "lookup", "create", "request", "error", "done"},
                                 failed : BOOLEAN, c : Requests \cup {None}]]
      /\ counts' \in [Requests -> Tally]
      /\ \A r \in Requests : r # counter => counts'[r] = counts[r]
      /\ tracked' \in Tally
  BY AddKeeps
<1>2. /\ counts'[counter].requests = counts[counter].requests + 1
      /\ counts'[counter].errors = counts[counter].errors
  BY <1>1 DEF CountRequest, TrackerInv, TrackerType, Tally
<1>3. /\ track'[q].stage = (IF track[q].failed THEN "error" ELSE "done")
      /\ track[q].stage = "request" /\ track'[q].c = track[q].c
      /\ track'[q].failed = track[q].failed
  BY DEF CountRequest, TrackerInv, TrackerType
<1>4. /\ counter # None
      /\ counts[counter].requests = tracked.requests + Cardinality(Erring)
      /\ counts[counter].errors = tracked.errors /\ tracked.errors <= tracked.requests
      /\ tracked.requests \in Nat /\ tracked.errors \in Nat /\ Cardinality(Erring) \in Nat
  BY <1>1, HandlersAssumption, ErringSize DEF TrackerInv, TrackerType, Tally, Counted
<1>5. /\ counts'[counter].requests = tracked'.requests + Cardinality(Erring')
      /\ tracked'.errors = tracked.errors
      /\ tracked'.requests >= tracked.requests
  <2>1. CASE track[q].failed
    <3>1. Erring' = Erring \cup {q} /\ q \notin Erring
      BY <1>1, <1>3, <2>1 DEF Erring
    <3>2. Cardinality(Erring') = Cardinality(Erring) + 1
      BY <3>1, ErringSize, FS_AddElement
    <3>3. tracked' = tracked
      BY <2>1 DEF CountRequest
    <3> QED BY <1>2, <1>4, <3>2, <3>3
  <2>2. CASE ~track[q].failed
    <3>1. Erring' = Erring
      BY <1>1, <1>3, <2>2 DEF Erring
    <3>2. tracked'.requests = tracked.requests + 1 /\ tracked'.errors = tracked.errors
      BY <1>4, <2>2 DEF CountRequest, Tracked
    <3> QED BY <1>2, <1>4, <3>1, <3>2
  <2> QED BY <2>1, <2>2
<1>6. Counted'
  <2>1. tracked'.errors <= tracked'.requests
    BY <1>1, <1>4, <1>5 DEF Tally
  <2>2. \A r \in Requests : track'[r].stage = "error" => track'[r].failed
    BY <1>1, <1>3 DEF TrackerInv, Counted
  <2>3. \A r \in Requests : track'[r].stage \in {"request", "error"} =>
                           track'[r].c = counter
    BY <1>1, <1>3 DEF TrackerInv, Counted
  <2> QED BY <1>1, <1>2, <1>4, <1>5, <2>1, <2>2, <2>3 DEF TrackerInv, Counted
<1>7. ASSUME NEW s \in Readers
      PROVE  /\ snap'[s].stage = snap[s].stage /\ snap'[s].base = snap[s].base
             /\ snap'[s].requests = snap[s].requests /\ snap'[s].errors = snap[s].errors
             /\ snap'[s].missed = snap[s].missed + (IF snap[s].stage = "errors" THEN 1 ELSE 0)
             /\ snap'[s] \in [stage : {"idle", "requests", "errors", "done"}, base : Tally,
                              requests : Nat, errors : Nat, missed : Nat]
  <2>1. snap[s] \in [stage : {"idle", "requests", "errors", "done"}, base : Tally,
                     requests : Nat, errors : Nat, missed : Nat]
    BY DEF TrackerInv, TrackerType
  <2>2. snap'[s] = IF snap[s].stage = "errors"
                   THEN [snap[s] EXCEPT !.missed = @ + 1] ELSE snap[s]
    BY DEF CountRequest
  <2> QED BY <2>1, <2>2
<1>8. snap' \in [Readers -> [stage : {"idle", "requests", "errors", "done"}, base : Tally,
                            requests : Nat, errors : Nat, missed : Nat]]
  BY <1>7 DEF CountRequest
<1>9. ASSUME NEW s \in Readers PROVE ReadSoFar(s)'
  <2>1. /\ snap[s].base.requests \in Nat /\ snap[s].base.errors \in Nat
        /\ snap[s].requests \in Nat /\ snap[s].errors \in Nat /\ snap[s].missed \in Nat
    BY DEF TrackerInv, TrackerType, Tally
  <2>2. tracked'.requests \in Nat /\ tracked'.errors \in Nat /\ counts[counter].requests \in Nat
    BY <1>1 DEF TrackerInv, TrackerType, Tally
  <2>3. SoFar(snap[s].stage, snap[s].base.requests, snap[s].base.errors,
              snap[s].requests, snap[s].errors, snap[s].missed,
              counter, tracked.requests, tracked.errors, counts[counter].requests)
    BY DEF TrackerInv, ReadSoFar
  <2>4. SoFar(snap[s].stage, snap[s].base.requests, snap[s].base.errors,
              snap[s].requests, snap[s].errors, snap'[s].missed,
              counter, tracked'.requests, tracked'.errors, counts'[counter].requests)
    <3>1. /\ snap'[s].missed \in Nat /\ counts'[counter].requests \in Nat
          /\ IF snap[s].stage = "errors"
             THEN snap'[s].missed - snap[s].missed
                    = counts'[counter].requests - counts[counter].requests
             ELSE snap'[s].missed = snap[s].missed
      BY <1>2, <1>7, <2>1, <2>2
    <3>2. tracked.requests <= tracked'.requests /\ tracked.errors <= tracked'.errors
      BY <1>4, <1>5, <2>2
    <3> QED BY <1>4, <2>1, <2>2, <2>3, <3>1, <3>2, SoFarGrows
  <2> QED BY <1>1, <1>7, <2>4 DEF ReadSoFar
<1> QED BY <1>1, <1>6, <1>8, <1>9 DEF TrackerInv, TrackerType

LEMMA CountErrorKeeps ==
  ASSUME TrackerInv, NEW q \in Requests, CountError(q)
  PROVE  TrackerInv'
<1>1. /\ counter \in Requests /\ track[q].c = counter /\ counter' = counter
      /\ \A r \in Requests : r # q => track'[r] = track[r]
      /\ track' \in [Requests -> [stage : {"idle", "lookup", "create", "request", "error", "done"},
                                 failed : BOOLEAN, c : Requests \cup {None}]]
      /\ counts' \in [Requests -> Tally]
      /\ \A r \in Requests : r # counter => counts'[r] = counts[r]
      /\ tracked' \in Tally
  BY AddKeeps
<1>2. /\ counts'[counter].requests = counts[counter].requests
      /\ counts'[counter].errors = counts[counter].errors + 1
  BY <1>1 DEF CountError, TrackerInv, TrackerType, Tally
<1>3. track'[q].stage = "done" /\ track[q].stage = "error"
  BY DEF CountError, TrackerInv, TrackerType
<1>4. /\ counter # None
      /\ counts[counter].requests = tracked.requests + Cardinality(Erring)
      /\ counts[counter].errors = tracked.errors /\ tracked.errors <= tracked.requests
      /\ tracked.requests \in Nat /\ tracked.errors \in Nat /\ Cardinality(Erring) \in Nat
  BY <1>1, HandlersAssumption, ErringSize DEF TrackerInv, TrackerType, Tally, Counted
<1>5. /\ tracked'.requests = tracked.requests + 1
      /\ tracked'.errors = tracked.errors + 1
  BY <1>3 DEF CountError, Tracked, TrackerInv, Counted
<1>6. Cardinality(Erring') = Cardinality(Erring) - 1
  <2>1. Erring' = Erring \ {q} /\ q \in Erring
    BY <1>1, <1>3 DEF Erring
  <2> QED BY <2>1, ErringSize, FS_RemoveElement
<1>7. Counted'
  BY <1>1, <1>2, <1>3, <1>4, <1>5, <1>6 DEF TrackerInv, Counted
<1>8. ASSUME NEW s \in Readers PROVE ReadSoFar(s)'
  <2>1. /\ snap[s].base.requests \in Nat /\ snap[s].base.errors \in Nat /\ snap' = snap
        /\ snap[s].requests \in Nat /\ snap[s].errors \in Nat /\ snap[s].missed \in Nat
    BY DEF CountError, TrackerInv, TrackerType, Tally
  <2>2. tracked'.requests \in Nat /\ tracked'.errors \in Nat /\ counts[counter].requests \in Nat
    BY <1>1 DEF TrackerInv, TrackerType, Tally
  <2>3. SoFar(snap[s].stage, snap[s].base.requests, snap[s].base.errors,
              snap[s].requests, snap[s].errors, snap[s].missed,
              counter, tracked.requests, tracked.errors, counts[counter].requests)
    BY DEF TrackerInv, ReadSoFar
  <2>4. /\ snap[s].missed - snap[s].missed = counts'[counter].requests - counts[counter].requests
        /\ counts'[counter].requests \in Nat
        /\ tracked.requests <= tracked'.requests /\ tracked.errors <= tracked'.errors
    BY <1>2, <1>4, <1>5, <2>1, <2>2
  <2>5. SoFar(snap[s].stage, snap[s].base.requests, snap[s].base.errors,
              snap[s].requests, snap[s].errors, snap[s].missed,
              counter, tracked'.requests, tracked'.errors, counts'[counter].requests)
    BY <1>4, <2>1, <2>2, <2>3, <2>4 DEF SoFar
  <2> QED BY <1>1, <2>1, <2>5 DEF ReadSoFar
<1> QED BY <1>1, <1>7, <1>8 DEF CountError, TrackerInv, TrackerType

\* What a reader reads, it reads of the counter in the map.
LEMMA ReaderKeeps ==
  ASSUME TrackerInv, NEW s \in Readers, Snapshot(s) \/ LoadRequests(s) \/ LoadErrors(s)
  PROVE  TrackerInv'
<1>1. UNCHANGED <<counter, counts, track, tracked>> /\ Erring' = Erring
  BY DEF Snapshot, LoadRequests, LoadErrors, Erring
<1>2. /\ snap[s].stage = "errors" \/ snap[s].stage = "requests" => counter # None
      /\ counter # None => counter \in Requests
      /\ \A r \in Requests : counts[r].requests \in Nat /\ counts[r].errors \in Nat
      /\ tracked \in Tally /\ tracked.requests \in Nat /\ tracked.errors \in Nat
  BY DEF TrackerInv, TrackerType, ReadSoFar, SoFar, Tally
<1>3. /\ snap[s].base.requests \in Nat /\ snap[s].base.errors \in Nat
      /\ snap[s].requests \in Nat /\ snap[s].missed \in Nat
  BY DEF TrackerInv, TrackerType, Tally
<1>4. /\ snap' \in [Readers -> [stage : {"idle", "requests", "errors", "done"}, base : Tally,
                              requests : Nat, errors : Nat, missed : Nat]]
      /\ \A r \in Readers : r # s => snap'[r] = snap[r]
  BY <1>2 DEF Snapshot, LoadRequests, LoadErrors, TrackerInv, TrackerType
<1>5. /\ tracked.errors <= tracked.requests
      /\ counter = None => tracked.requests = 0
      /\ counter # None => /\ tracked.requests <= counts[counter].requests
                           /\ counts[counter].errors = tracked.errors
  BY <1>2, ErringSize DEF TrackerInv, Counted
<1>6. ReadSoFar(s)'
  <2>1. CASE Snapshot(s)
    <3>1. snap'[s] = [stage |-> IF counter = None THEN "done" ELSE "requests", base |-> tracked,
                      requests |-> 0, errors |-> 0, missed |-> 0]
      BY <2>1 DEF Snapshot, TrackerInv, TrackerType
    <3>2. /\ snap'[s].stage = IF counter = None THEN "done" ELSE "requests"
          /\ snap'[s].base = tracked
          /\ snap'[s].requests = 0 /\ snap'[s].errors = 0 /\ snap'[s].missed = 0
      BY <3>1
    <3>3. SoFar(snap'[s].stage, tracked.requests, tracked.errors,
                0, 0, 0, counter, tracked.requests, tracked.errors, counts[counter].requests)
      BY <1>2, <1>5, <3>2, SoFarBegins
    <3> QED BY <1>1, <3>2, <3>3 DEF ReadSoFar
  <2>2. CASE LoadRequests(s)
    <3>1. /\ snap[s].stage = "requests"
          /\ snap'[s] = [stage |-> "errors", base |-> snap[s].base,
                         requests |-> counts[counter].requests, errors |-> 0, missed |-> 0]
      BY <2>2 DEF LoadRequests, TrackerInv, TrackerType
    <3>2. /\ snap'[s].stage = "errors" /\ snap'[s].base = snap[s].base
          /\ snap'[s].requests = counts[counter].requests
          /\ snap'[s].errors = 0 /\ snap'[s].missed = 0
      BY <3>1
    <3>3. SoFar("requests", snap[s].base.requests, snap[s].base.errors,
                snap[s].requests, snap[s].errors, snap[s].missed,
                counter, tracked.requests, tracked.errors, counts[counter].requests)
      BY Zenon, <3>1 DEF TrackerInv, ReadSoFar
    <3>4. SoFar("errors", snap[s].base.requests, snap[s].base.errors,
                counts[counter].requests, 0, 0,
                counter, tracked.requests, tracked.errors, counts[counter].requests)
      BY <1>2, <1>3, <1>5, <3>1, <3>3, SoFarRequests
    <3> QED BY <1>1, <3>2, <3>4 DEF ReadSoFar
  <2>3. CASE LoadErrors(s)
    <3>1. /\ snap[s].stage = "errors"
          /\ snap'[s] = [stage |-> "done", base |-> snap[s].base, requests |-> snap[s].requests,
                         errors |-> counts[counter].errors, missed |-> snap[s].missed]
      BY Zenon, <2>3 DEF LoadErrors, TrackerInv, TrackerType
    <3>2. /\ snap'[s].stage = "done" /\ snap'[s].base = snap[s].base
          /\ snap'[s].requests = snap[s].requests /\ snap'[s].missed = snap[s].missed
          /\ snap'[s].errors = counts[counter].errors
      BY <3>1
    <3>3. SoFar("errors", snap[s].base.requests, snap[s].base.errors,
                snap[s].requests, snap[s].errors, snap[s].missed,
                counter, tracked.requests, tracked.errors, counts[counter].requests)
      BY Zenon, <3>1 DEF TrackerInv, ReadSoFar
    <3>4. /\ counts[counter].requests \in Nat /\ tracked.requests <= counts[counter].requests
          /\ counts[counter].errors = tracked.errors
      BY Zenon, <1>2, <1>5, <3>1
    <3>5. SoFar("done", snap[s].base.requests, snap[s].base.errors,
                snap[s].requests, tracked.errors, snap[s].missed,
                counter, tracked.requests, tracked.errors, counts[counter].requests)
      BY <1>2, <1>3, <1>5, <3>3, <3>4, SoFarErrors
    <3> QED BY <1>1, <3>2, <3>4, <3>5 DEF ReadSoFar
  <2> QED BY <2>1, <2>2, <2>3
<1>7. \A r \in Readers : ReadSoFar(r)'
  BY Zenon, <1>1, <1>4, <1>6 DEF TrackerInv, ReadSoFar
<1>8. Counted'
  BY Zenon, <1>1 DEF TrackerInv, Counted
<1> QED BY <1>1, <1>4, <1>7, <1>8 DEF TrackerInv, TrackerType

LEMMA TrackerStays == TrackerInv /\ UNCHANGED trackerVars => TrackerInv'
BY DEF trackerVars, TrackerInv, TrackerType, Counted, Erring, ReadSoFar

LEMMA TrackerKeeps == TrackerInv /\ TrackerNext => TrackerInv'
BY TrackKeeps, LookupKeeps, CreateKeeps, CountRequestKeeps, CountErrorKeeps, ReaderKeeps
   DEF TrackerNext, Tracking

-----------------------------------------------------------------------------
(* The audit log *)

AuditNext == \E k \in KeyOps : Begin(k) \/ Recording(k)

(***************************************************************************)
(* The inductive invariant: the log is the end of what has been recorded,  *)
(* and of two requests of which one was answered before the other came the *)
(* first has the earlier place and the earlier time.                       *)
(***************************************************************************)
AuditTypes ==
  /\ entries \in Seq(KeyOps) /\ Len(entries) <= MaxSize
  /\ recorded \in Seq(KeyOps)
  /\ clock \in Nat
  /\ DOMAIN stage = KeyOps
  /\ time \in [KeyOps -> Nat]
  /\ before \in [KeyOps -> SUBSET KeyOps]

IsEnd ==
  /\ Len(entries) <= Len(recorded)
  /\ Len(entries) = MaxSize \/ Len(entries) = Len(recorded)
  /\ \A i \in 1 .. Len(entries) : entries[i] = recorded[Len(recorded) - Len(entries) + i]

InRecord(k) == \E i \in 1 .. Len(recorded) : recorded[i] = k

AnsweredInRecord == \A k \in KeyOps : stage[k] \in {"answer", "done"} <=> InRecord(k)

BeforeIsDone == \A k \in KeyOps : \A o \in before[k] : stage[o] = "done"

TimesGrow ==
  /\ \A k \in KeyOps : time[k] <= clock
  /\ \A k \in KeyOps : stage[k] \in {"append", "answer", "done"} =>
                        \A o \in before[k] : time[o] < time[k]

PlacesGrow ==
  \A i, j \in 1 .. Len(recorded) : recorded[i] \in before[recorded[j]] => i < j

AuditInv == AuditTypes /\ IsEnd /\ AnsweredInRecord /\ BeforeIsDone /\ TimesGrow /\ PlacesGrow

LEMMA AuditInit == InitAudit => AuditInv
<1> SUFFICES ASSUME InitAudit PROVE AuditInv
  OBVIOUS
<1>1. AuditTypes
  BY MaxSizeAssumption DEF InitAudit, AuditTypes
<1> QED
  BY <1>1 DEF InitAudit, AuditInv, IsEnd, AnsweredInRecord, BeforeIsDone, TimesGrow, PlacesGrow,
              InRecord

LEMMA BeginKeeps ==
  ASSUME AuditInv, NEW k \in KeyOps, Begin(k)
  PROVE  AuditInv'
<1>1. /\ AuditTypes /\ stage[k] = "idle" /\ stage' = [stage EXCEPT ![k] = "change"]
      /\ before' = [before EXCEPT ![k] = {o \in KeyOps : stage[o] = "done"}]
      /\ UNCHANGED <<entries, clock, time, recorded>>
  BY DEF AuditInv, Begin, Stage
<1>2. AuditTypes'
  BY <1>1 DEF AuditTypes
<1>3. IsEnd'
  BY <1>1 DEF AuditInv, IsEnd
<1>4. AnsweredInRecord'
  BY <1>1 DEF AuditInv, AuditTypes, AnsweredInRecord, InRecord
<1>5. BeforeIsDone'
  BY <1>1 DEF AuditInv, AuditTypes, BeforeIsDone
<1>6. TimesGrow'
  BY <1>1 DEF AuditInv, AuditTypes, TimesGrow
<1>7. \A i \in 1 .. Len(recorded) : recorded[i] \in KeyOps /\ recorded[i] # k
  <2>1. ~InRecord(k)
    BY <1>1 DEF AuditInv, AnsweredInRecord
  <2> QED BY <1>1, <2>1 DEF AuditTypes, InRecord
<1>8. PlacesGrow'
  BY <1>1, <1>7 DEF AuditInv, AuditTypes, PlacesGrow
<1> QED BY <1>2, <1>3, <1>4, <1>5, <1>6, <1>8 DEF AuditInv

\* Steps that change nothing but the request's stage.
LEMMA StageKeeps ==
  ASSUME AuditInv, NEW k \in KeyOps, Change(k) \/ Answer(k)
  PROVE  AuditInv'
<1>1. AuditTypes /\ UNCHANGED <<entries, clock, time, before, recorded>>
  BY DEF AuditInv, Change, Answer
<1>2. PICK to \in {"stamp", "failed", "done"} :
        /\ stage' = [stage EXCEPT ![k] = to]
        /\ \/ stage[k] = "change" /\ to \in {"stamp", "failed"}
           \/ stage[k] = "answer" /\ to = "done"
  BY DEF Change, Answer, Stage
<1>3. AuditTypes'
  BY <1>1, <1>2 DEF AuditTypes
<1>4. IsEnd' /\ PlacesGrow'
  BY <1>1 DEF AuditInv, IsEnd, PlacesGrow
<1>5. AnsweredInRecord'
  BY <1>1, <1>2 DEF AuditInv, AuditTypes, AnsweredInRecord, InRecord
<1>6. BeforeIsDone'
  BY <1>1, <1>2 DEF AuditInv, AuditTypes, BeforeIsDone
<1>7. TimesGrow'
  BY <1>1, <1>2 DEF AuditInv, AuditTypes, TimesGrow
<1> QED BY <1>3, <1>4, <1>5, <1>6, <1>7 DEF AuditInv

LEMMA StampKeeps ==
  ASSUME AuditInv, NEW k \in KeyOps, Stamp(k)
  PROVE  AuditInv'
<1>1. /\ AuditTypes /\ stage[k] = "stamp" /\ stage' = [stage EXCEPT ![k] = "append"]
      /\ clock' = clock + 1 /\ time' = [time EXCEPT ![k] = clock + 1]
      /\ UNCHANGED <<entries, before, recorded>>
  BY DEF AuditInv, Stamp, Stage
<1>2. AuditTypes'
  BY <1>1 DEF AuditTypes
<1>3. IsEnd' /\ PlacesGrow'
  BY <1>1 DEF AuditInv, IsEnd, PlacesGrow
<1>4. AnsweredInRecord'
  BY <1>1 DEF AuditInv, AuditTypes, AnsweredInRecord, InRecord
<1>5. BeforeIsDone' /\ \A o \in KeyOps : k \notin before[o]
  BY <1>1 DEF AuditInv, AuditTypes, BeforeIsDone
<1>6. TimesGrow'
  BY <1>1, <1>5 DEF AuditInv, AuditTypes, TimesGrow
<1> QED BY <1>2, <1>3, <1>4, <1>5, <1>6 DEF AuditInv

\* k comes last in the record, and in the log the oldest entry makes room.
\* What Append returns.
LEMMA Appended ==
  ASSUME NEW S, NEW s \in Seq(S), NEW e \in S
  PROVE  /\ Append(s, e) \in Seq(S)
         /\ Len(Append(s, e)) = Len(s) + 1
         /\ Append(s, e)[Len(s) + 1] = e
         /\ \A i \in 1 .. Len(s) : Append(s, e)[i] = s[i] /\ s[i] \in S
OBVIOUS

LEMMA AppendKeeps ==
  ASSUME AuditInv, NEW k \in KeyOps, AppendEntry(k)
  PROVE  AuditInv'
<1>1. /\ AuditTypes /\ stage[k] = "append" /\ stage' = [stage EXCEPT ![k] = "answer"]
      /\ recorded' = Append(recorded, k)
      /\ UNCHANGED <<clock, time, before>>
  BY DEF AuditInv, AppendEntry, Stage
<1>2. PICK kept \in Seq(KeyOps) :
        /\ kept = IF Len(entries) >= MaxSize THEN Tail(entries) ELSE entries
        /\ entries' = Append(kept, k)
  <2>1. (IF Len(entries) >= MaxSize THEN Tail(entries) ELSE entries) \in Seq(KeyOps)
    <3>1. CASE Len(entries) >= MaxSize
      <4>1. entries # <<>>
        BY <3>1, MaxSizeAssumption
      <4> QED BY <1>1, <3>1, <4>1 DEF AuditTypes
    <3> QED BY <1>1, <3>1 DEF AuditTypes
  <2> QED BY Zenon, <2>1 DEF AppendEntry
<1>3. PICK n \in Nat, m \in Nat : n = Len(recorded) /\ m = Len(entries)
  BY <1>1 DEF AuditTypes
<1>4. /\ Len(recorded') = n + 1 /\ recorded'[n + 1] = k
      /\ \A i \in 1 .. n : recorded'[i] = recorded[i] /\ recorded[i] \in KeyOps
  BY <1>1, <1>3, Appended DEF AuditTypes
<1>5. PICK d \in {0, 1} :
        /\ d = IF m >= MaxSize THEN 1 ELSE 0
        /\ Len(kept) = m - d
        /\ \A i \in 1 .. m - d : kept[i] = entries[i + d]
  <2>1. CASE m >= MaxSize
    <3>1. kept = Tail(entries) /\ entries # <<>>
      BY <1>2, <1>3, <2>1, MaxSizeAssumption
    <3>2. Len(kept) = m - 1 /\ \A i \in 1 .. m - 1 : kept[i] = entries[i + 1]
      BY <1>1, <1>3, <3>1 DEF AuditTypes
    <3> QED BY <2>1, <3>2
  <2>2. CASE ~(m >= MaxSize)
    <3>1. kept = entries
      BY <1>2, <1>3, <2>2
    <3> QED BY <1>3, <2>2, <3>1
  <2> QED BY <2>1, <2>2
<1>6. /\ Len(entries') = m - d + 1 /\ entries'[m - d + 1] = k
      /\ \A i \in 1 .. m - d : entries'[i] = entries[i + d]
  <2>1. /\ Len(entries') = Len(kept) + 1 /\ entries'[Len(kept) + 1] = k
        /\ \A i \in 1 .. Len(kept) : entries'[i] = kept[i]
    BY <1>2, Appended
  <2> QED BY <1>5, <2>1
<1>7. AuditTypes'
  <2>1. entries' \in Seq(KeyOps) /\ recorded' \in Seq(KeyOps)
    BY <1>1, <1>2 DEF AuditTypes
  <2>2. Len(entries') <= MaxSize
    BY <1>1, <1>3, <1>5, <1>6, MaxSizeAssumption DEF AuditTypes
  <2> QED BY <1>1, <2>1, <2>2 DEF AuditTypes
<1>8. IsEnd'
  <2>1. m <= n /\ m <= MaxSize /\ (m = MaxSize \/ m = n)
    BY <1>1, <1>3 DEF AuditInv, AuditTypes, IsEnd
  <2>2. \A i \in 1 .. m : entries[i] = recorded[n - m + i]
    BY <1>3 DEF AuditInv, IsEnd
  <2>3. m - d + 1 <= n + 1 /\ (m - d + 1 = MaxSize \/ m - d + 1 = n + 1)
    BY <1>5, <2>1, MaxSizeAssumption
  <2>4. ASSUME NEW i \in 1 .. m - d + 1
        PROVE  entries'[i] = recorded'[(n + 1) - (m - d + 1) + i]
    <3>1. CASE i = m - d + 1
      BY <1>4, <1>6, <3>1
    <3>2. CASE i \in 1 .. m - d
      <4>1. /\ i + d \in 1 .. m /\ n - m + (i + d) \in 1 .. n
            /\ (n + 1) - (m - d + 1) + i = n - m + (i + d)
        BY <2>1, <3>2
      <4> QED BY <1>4, <1>6, <2>2, <3>2, <4>1
    <3> QED BY <3>1, <3>2
  <2> QED BY <1>4, <1>6, <2>3, <2>4 DEF IsEnd
<1>9. AnsweredInRecord'
  <2>1. InRecord(k)'
    BY <1>4 DEF InRecord
  <2>2. \A o \in KeyOps : o # k => (InRecord(o)' <=> InRecord(o))
    BY <1>3, <1>4 DEF InRecord
  <2> QED BY <1>1, <2>1, <2>2 DEF AuditInv, AuditTypes, AnsweredInRecord
<1>10. BeforeIsDone' /\ \A o \in KeyOps : k \notin before[o]
  BY <1>1 DEF AuditInv, AuditTypes, BeforeIsDone
<1>11. TimesGrow'
  BY <1>1 DEF AuditInv, AuditTypes, TimesGrow
<1>12. PlacesGrow'
  <2> SUFFICES ASSUME NEW i \in 1 .. n + 1, NEW j \in 1 .. n + 1,
                      recorded'[i] \in before[recorded'[j]]
               PROVE  i < j
    BY <1>1, <1>4 DEF PlacesGrow
  <2>1. i \in 1 .. n
    BY <1>4, <1>10
  <2>2. CASE j \in 1 .. n
    BY <1>3, <1>4, <2>1, <2>2 DEF AuditInv, PlacesGrow
  <2> QED BY <2>1, <2>2
<1> QED BY <1>7, <1>8, <1>9, <1>10, <1>11, <1>12 DEF AuditInv

LEMMA AuditStays == AuditInv /\ UNCHANGED auditVars => AuditInv'
BY DEF auditVars, AuditInv, AuditTypes, IsEnd, AnsweredInRecord, BeforeIsDone, TimesGrow,
       PlacesGrow, InRecord

LEMMA AuditKeeps == AuditInv /\ AuditNext => AuditInv'
BY BeginKeeps, StageKeeps, StampKeeps, AppendKeeps DEF AuditNext, Recording

\* A log that is the end of the record shows the newest of what was answered.
LEMMA AuditShows == AuditInv => AnsweredAreAudited
<1> SUFFICES ASSUME AuditInv, NEW k \in KeyOps, stage[k] = "done"
             PROVE  \E i \in 1 .. Len(recorded) :
                      /\ recorded[i] = k
                      /\ \A n \in 1 .. MaxSize : Len(recorded) - i < n =>
                           \E j \in 1 .. Len(List(n)) : List(n)[j] = k
  BY DEF AnsweredAreAudited
<1>1. PICK i \in 1 .. Len(recorded) : recorded[i] = k
  BY DEF AuditInv, AnsweredInRecord, InRecord
<1>2. ASSUME NEW n \in 1 .. MaxSize, Len(recorded) - i < n
      PROVE  \E j \in 1 .. Len(List(n)) : List(n)[j] = k
  <2>1. PICK r \in Nat, e \in Nat : r = Len(recorded) /\ e = Len(entries)
    BY DEF AuditInv, AuditTypes
  <2>2. PICK m \in Nat : /\ m = IF n = 0 \/ n > e THEN e ELSE n
                         /\ List(n) = SubSeq(entries, e - m + 1, e)
    <3>1. (IF n = 0 \/ n > e THEN e ELSE n) \in Nat
      BY <2>1, MaxSizeAssumption
    <3> QED BY Zenon, <2>1, <3>1 DEF List
  <2>3. e <= r /\ (e = MaxSize \/ e = r) /\ m <= e
    BY <2>1, <2>2, MaxSizeAssumption DEF AuditInv, IsEnd
  <2>4. i - r + m \in 1 .. m /\ i - r + e \in 1 .. e
    BY <1>2, <2>1, <2>2, <2>3, MaxSizeAssumption
  <2>5. Len(List(n)) = m /\ \A j \in 1 .. m : List(n)[j] = entries[e - m + j]
    <3>1. m \in Nat /\ e \in Nat /\ m <= e
      BY <2>1, <2>2, <2>3
    <3>2. e - m + 1 \in 1 .. e + 1
      BY <3>1
    <3>3. entries \in Seq(KeyOps)
      BY DEF AuditInv, AuditTypes
    <3>4. Len(SubSeq(entries, e - m + 1, e)) = m
      BY <2>1, <2>2, <2>3, <3>2, <3>3
    <3>5. ASSUME NEW j \in 1 .. m
          PROVE  SubSeq(entries, e - m + 1, e)[j] = entries[e - m + j]
      <4>1. PICK a \in 1 .. e + 1 : a = e - m + 1
        BY <3>2
      <4>2. j \in 1 .. (e - a + 1) /\ a + j - 1 = e - m + j /\ a \in Nat /\ a + j - 1 \in 1 .. e
        BY <3>1, <4>1
      <4>3. SubSeq(entries, a, e)[j] = entries[a + j - 1]
        <5>1. SubSeq(entries, a, e) = [x \in 1 .. (e - a + 1) |-> entries[a + x - 1]]
          BY <2>1, <3>3, <4>2
        <5> QED BY <4>2, <5>1
      <4> QED BY <4>1, <4>2, <4>3
    <3> QED BY <2>2, <3>4, <3>5
  <2>6. entries[i - r + e] = recorded[i]
    <3>1. r - e + (i - r + e) = i
      BY <2>1
    <3> QED BY <2>1, <2>4, <3>1 DEF AuditInv, IsEnd
  <2>7. e - m + (i - r + m) = i - r + e
    BY <2>1
  <2> QED BY Zenon, <1>1, <2>4, <2>5, <2>6, <2>7
<1> QED BY <1>1, <1>2

\* The places and the times of the log agree with the order of the answers.
LEMMA AuditOrders == AuditInv => NewestLast
<1> SUFFICES ASSUME AuditInv, NEW i \in 1 .. Len(entries), NEW j \in 1 .. Len(entries),
                    entries[i] \in before[entries[j]]
             PROVE  i < j /\ time[entries[i]] < time[entries[j]]
  BY DEF NewestLast
<1>1. PICK r \in Nat, e \in Nat : r = Len(recorded) /\ e = Len(entries) /\ e <= r
  <2>1. Len(recorded) \in Nat /\ Len(entries) \in Nat
    BY DEF AuditInv, AuditTypes
  <2> QED BY <2>1 DEF AuditInv, IsEnd
<1>2. /\ r - e + i \in 1 .. r /\ r - e + j \in 1 .. r
      /\ entries[i] = recorded[r - e + i] /\ entries[j] = recorded[r - e + j]
  BY <1>1 DEF AuditInv, IsEnd
<1>3. entries[j] \in KeyOps
  BY DEF AuditInv, AuditTypes
<1>4. i < j
  BY <1>1, <1>2 DEF AuditInv, PlacesGrow
<1>5. stage[entries[j]] \in {"answer", "done"}
  BY <1>1, <1>2, <1>3 DEF AuditInv, AnsweredInRecord, InRecord
<1> QED BY <1>3, <1>4, <1>5 DEF AuditInv, TimesGrow
=============================================================================
