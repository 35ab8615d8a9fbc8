------------------------------- MODULE Operator -------------------------------
(***************************************************************************)
(* The Kubernetes operator: the GatewayUpstream, GatewayRoute and          *)
(* HelixIPPolicy reconcilers, the custom resources (CRs) they read and     *)
(* write, and the gateway objects they manage through the admin API.       *)
(*                                                                         *)
(* A reconcile reads its CR from the manager's cache, calls the admin API  *)
(* and writes the CR back, each in a step of its own.  A write fails if    *)
(* the copy is not the CR's last version; a reconcile that returns an      *)
(* error is queued again.  Writing the status makes a new version of the   *)
(* CR unless it says what it said before, so a reconcile may start from a  *)
(* copy that the one before it has outdated.                               *)
(***************************************************************************)
CONSTANTS
  Upstreams, Routes, Policies,  \* the names of the CRs of the three kinds
  RefOf,              \* the upstreamRef of every route
  SpecsOf,            \* what the CR of each name may ask for
  Ids,                \* object identifiers of the gateway
  Populations,        \* bound: the sets of CRs that users work on together
  None

Kinds == {"upstream", "route", "policy"}
Objects == Upstreams \cup Routes \cup Policies
KindOf(o) ==
  CASE o \in Routes -> "route" [] o \in Policies -> "policy" [] OTHER -> "upstream"

ASSUME OperatorAssumption ==
  /\ Routes \cap (Upstreams \cup Policies) = {}
  /\ Upstreams \cap Policies = {}
  /\ None \notin Ids
  /\ RefOf \in [Routes -> Upstreams]
  /\ Populations \subseteq SUBSET Objects

Specs == UNION {SpecsOf[o] : o \in Objects}

VARIABLES
  cr,     \* the CRs in Kubernetes
  cache,  \* the manager's copies of them, brought up to date by the watch
  behind, \* the CRs whose cached copy is not the last version
  gw,     \* the gateway's routes, upstreams and policies
  job,    \* the reconcile each controller is running
  queue,  \* the CRs that wait for a reconcile
  said,   \* the Ready condition of each CR, if it is about the last generation
  lost,   \* history: CRs whose object the operator has lost track of
  population  \* the CRs that users work on, which never changes

vars == <<cr, cache, behind, gw, job, queue, said, lost>>

Conditions == {"none", "false", "true"}

CR == [spec : Specs, deleting : BOOLEAN, finalizer : BOOLEAN, id : Ids \cup {None}]

GatewayObject == [name : Objects, spec : Specs, upstream : Ids \cup {None}]

\* A reconcile holds a copy of its CR, which is fresh until the CR changes.
Job ==
  [obj : Objects, id : Ids \cup {None}, spec : Specs, target : Ids \cup {None},
   fresh : BOOLEAN,
   stage : {"finalize", "resolve", "upsert", "status", "failed", "delete", "release"}]

ASSUME NoneAssumption == None \notin CR \cup GatewayObject \cup Job

\* The fourth conjunct: a CR has its finalizer before it has an identifier.
StateOK ==
  /\ cr \in [Objects -> CR \cup {None}]
  /\ cache \in [Objects -> CR \cup {None}]
  /\ behind \in [Objects -> BOOLEAN]
  /\ \A o \in Objects : cr[o] # None /\ cr[o].id # None => cr[o].finalizer
  /\ gw \in [Ids -> GatewayObject \cup {None}]
  /\ job \in [Kinds -> Job \cup {None}]
  /\ queue \in [Objects -> BOOLEAN]
  /\ lost \in [Objects -> BOOLEAN]
  /\ population \in Populations

TypeOK == StateOK /\ said \in [Objects -> Conditions]

Init ==
  /\ cr = [o \in Objects |-> None]
  /\ cache = cr
  /\ behind = [o \in Objects |-> FALSE]
  /\ gw = [i \in Ids |-> None]
  /\ job = [k \in Kinds |-> None]
  /\ queue = [o \in Objects |-> FALSE]
  /\ said = [o \in Objects |-> "none"]
  /\ lost = [o \in Objects |-> FALSE]
  /\ population \in Populations

-----------------------------------------------------------------------------
(* The users of Kubernetes *)

\* A new version of o: every copy of the last one is out of date.
Put(o, c) ==
  /\ cr' = [cr EXCEPT ![o] = c]
  /\ behind' = [behind EXCEPT ![o] = TRUE]
  /\ UNCHANGED cache

Outdated(o) ==
  [k \in Kinds |-> IF job[k] # None /\ job[k].obj = o
                   THEN [job[k] EXCEPT !.fresh = FALSE] ELSE job[k]]

Create(o, s) ==
  /\ cr[o] = None
  /\ o \in population
  /\ Put(o, [spec |-> s, deleting |-> FALSE, finalizer |-> FALSE, id |-> None])
  /\ job' = Outdated(o)
  /\ said' = [said EXCEPT ![o] = "none"]
  /\ UNCHANGED <<gw, queue, lost>>

Edit(o, s) ==
  /\ cr[o] # None
  /\ s # cr[o].spec
  /\ Put(o, [cr[o] EXCEPT !.spec = s])
  /\ job' = Outdated(o)
  /\ said' = [said EXCEPT ![o] = "none"]
  /\ UNCHANGED <<gw, queue, lost>>

\* Kubernetes keeps a deleted CR until its finalizer is gone.
Delete(o) ==
  /\ cr[o] # None
  /\ ~cr[o].deleting
  /\ Put(o, IF cr[o].finalizer THEN [cr[o] EXCEPT !.deleting = TRUE] ELSE None)
  /\ job' = Outdated(o)
  /\ said' = [said EXCEPT ![o] = "none"]
  /\ UNCHANGED <<gw, queue, lost>>

\* The watch delivers the last version of o and queues it.
Watch(o) ==
  /\ behind[o]
  /\ behind' = [behind EXCEPT ![o] = FALSE]
  /\ cache' = [cache EXCEPT ![o] = cr[o]]
  /\ queue' = [queue EXCEPT ![o] = TRUE]
  /\ UNCHANGED <<cr, gw, job, said, lost>>

-----------------------------------------------------------------------------
(* Reconcile *)

Running(k, stage) == job[k] # None /\ job[k].stage = stage

Advance(k, stage) == job' = [job EXCEPT ![k].stage = stage]

\* Errors are logged and swallowed.
ReturnNever(k, again) ==
  /\ job' = [job EXCEPT ![k] = None]
  /\ UNCHANGED queue

\* Reconcile returns, with an error if it is to be queued again.
Return(k, again) ==
  /\ job' = [job EXCEPT ![k] = None]
  /\ queue' = [queue EXCEPT ![job[k].obj] = again \/ @]

\* The reconcile has created or deleted an object, and the CR does not say so.
Unrecorded(j) ==
  \/ j.stage = "status" /\ (cr[j.obj] # None => cr[j.obj].id # j.id)
  \/ j.stage = "release" /\ j.id # None

FirstStage(k, c) ==
  CASE c.deleting -> "delete"
    [] ~c.deleting /\ ~c.finalizer -> "finalize"
    [] OTHER -> IF k = "route" THEN "resolve" ELSE "upsert"

Start(o) ==
  LET k == KindOf(o)
  IN
  /\ queue[o]
  /\ job[k] = None
  /\ queue' = [queue EXCEPT ![o] = FALSE]
  /\ job' = [job EXCEPT ![k] =
               IF cache[o] = None THEN None
               ELSE [obj |-> o, id |-> cache[o].id, spec |-> cache[o].spec, target |-> None,
                     fresh |-> ~behind[o], stage |-> FirstStage(k, cache[o])]]
  /\ UNCHANGED <<cr, cache, behind, gw, said, lost>>

AddFinalizer(k) ==
  /\ Running(k, "finalize")
  /\ IF job[k].fresh
     THEN /\ Put(job[k].obj, [cr[job[k].obj] EXCEPT !.finalizer = TRUE])
          /\ Advance(k, IF k = "route" THEN "resolve" ELSE "upsert")
          /\ UNCHANGED queue
     ELSE /\ Return(k, TRUE)
          /\ UNCHANGED <<cr, cache, behind>>
  /\ UNCHANGED <<gw, said, lost>>

\* resolveUpstreamID
Resolve(k) ==
  LET u == RefOf[job[k].obj]
  IN
  /\ Running(k, "resolve")
  /\ IF cache[u] # None /\ cache[u].id # None
     THEN job' = [job EXCEPT ![k].stage = "upsert", ![k].target = cache[u].id]
     ELSE Advance(k, "failed")
  /\ UNCHANGED <<cr, cache, behind, gw, queue, said, lost>>

-----------------------------------------------------------------------------
(* handleUpsert *)

\* Identifiers that nothing refers to.  One of them stands for a new one.
Unused ==
  {i \in Ids :
    /\ gw[i] = None
    /\ \A o \in Objects : \A c \in {cr[o], cache[o]} : c # None => c.id # i
    /\ \A k \in Kinds : job[k] # None => i \notin {job[k].id, job[k].target}}

NewId == CHOOSE i \in Unused : TRUE

\* The admin API accepts the create or update: the name is free, the updated
\* object exists, and so does the upstream.
Accepted(j) ==
  /\ \A i \in Ids : gw[i] # None /\ gw[i].name = j.obj => i = j.id
  /\ j.id # None => gw[j.id] # None
  /\ j.target # None => gw[j.target] # None

\* A CR without an identifier is created, one with an identifier updated.
WriteTo(j) == IF j.id = None THEN NewId ELSE j.id

Written(j) == [name |-> j.obj, spec |-> j.spec, upstream |-> j.target]

Upsert(k) ==
  /\ Running(k, "upsert")
  /\ Unused # {}
  /\ IF Accepted(job[k])
     THEN /\ gw' = [gw EXCEPT ![WriteTo(job[k])] = Written(job[k])]
          /\ job' = [job EXCEPT ![k].stage = "status", ![k].id = WriteTo(job[k])]
     ELSE Advance(k, "failed") /\ UNCHANGED gw
  /\ UNCHANGED <<cr, cache, behind, queue, said, lost>>

\* The gateway does its part but the answer is lost, or too late for the
\* client's timeout.
UpsertUnanswered(k) ==
  /\ Running(k, "upsert")
  /\ Unused # {}
  /\ Accepted(job[k])
  /\ gw' = [gw EXCEPT ![WriteTo(job[k])] = Written(job[k])]
  /\ lost' = [lost EXCEPT ![job[k].obj] = @ \/ job[k].id = None]
  /\ Advance(k, "failed")
  /\ UNCHANGED <<cr, cache, behind, queue, said>>

UpsertUnsent(k) ==
  /\ Running(k, "upsert")
  /\ Advance(k, "failed")
  /\ UNCHANGED <<cr, cache, behind, gw, queue, said, lost>>

\* The condition of a reconcile that has come to this stage.
Verdict(stage) == IF stage = "failed" THEN "false" ELSE "true"

\* The status of o can already be what j writes, message included.  That of a
\* failure is the error's, which may be another one each time.
SaidBefore(j, stage) == cr[j.obj].id = j.id /\ said[j.obj] = Verdict(stage)

\* setCondition: the status is written, and Reconcile returns an error if the
\* condition is false or the write failed.
WriteStatus(k, stage) ==
  LET j == job[k]
      o == job[k].obj
  IN
  /\ Running(k, stage)
  /\ \/ /\ j.fresh
        /\ \/ /\ SaidBefore(j, stage) => stage = "failed"
              /\ Put(o, [cr[o] EXCEPT !.id = j.id])
           \/ /\ SaidBefore(j, stage)
              /\ UNCHANGED <<cr, cache, behind>>
        /\ said' = [said EXCEPT ![o] = Verdict(stage)]
        /\ Return(k, stage = "failed")
        /\ UNCHANGED lost
     \/ /\ ~j.fresh
        /\ Return(k, TRUE)
        /\ lost' = [lost EXCEPT ![o] = @ \/ Unrecorded(j)]
        /\ UNCHANGED <<cr, cache, behind, said>>
  /\ UNCHANGED gw

-----------------------------------------------------------------------------
(* handleDelete *)

InUse(id) == \E i \in Ids : gw[i] # None /\ gw[i].upstream = id

Deletable(id) == gw[id] # None /\ ~InUse(id)

\* Goes on to the finalizer whatever the admin API answers.
DeleteIgnoresErrors(k) ==
  /\ Running(k, "delete")
  /\ gw' = IF job[k].id # None /\ Deletable(job[k].id)
           THEN [gw EXCEPT ![job[k].id] = None] ELSE gw
  /\ Advance(k, "release")
  /\ UNCHANGED <<cr, cache, behind, queue, said, lost>>

DeleteObject(k) ==
  LET id == job[k].id
  IN
  /\ Running(k, "delete")
  /\ CASE id = None       -> Advance(k, "release") /\ UNCHANGED <<gw, queue>>
       [] id # None /\ Deletable(id) ->
            gw' = [gw EXCEPT ![id] = None] /\ Advance(k, "release") /\ UNCHANGED queue
       [] OTHER           -> Return(k, TRUE) /\ UNCHANGED gw
  /\ UNCHANGED <<cr, cache, behind, said, lost>>

DeleteUnanswered(k) ==
  /\ Running(k, "delete")
  /\ job[k].id # None
  /\ Deletable(job[k].id)
  /\ gw' = [gw EXCEPT ![job[k].id] = None]
  /\ lost' = [lost EXCEPT ![job[k].obj] = TRUE]
  /\ Return(k, TRUE)
  /\ UNCHANGED <<cr, cache, behind, said>>

DeleteUnsent(k) ==
  /\ Running(k, "delete")
  /\ job[k].id # None
  /\ Return(k, TRUE)
  /\ UNCHANGED <<cr, cache, behind, gw, said, lost>>

\* The finalizer is removed, and with it the CR.
Release(k) ==
  LET o == job[k].obj
  IN
  /\ Running(k, "release")
  /\ IF job[k].fresh
     THEN /\ Put(o, None)
          /\ Return(k, FALSE)
          /\ UNCHANGED <<said, lost>>
     ELSE /\ Return(k, TRUE)
          /\ lost' = [lost EXCEPT ![o] = @ \/ Unrecorded(job[k])]
          /\ UNCHANGED <<cr, cache, behind, said>>
  /\ UNCHANGED gw

\* The operator dies.  The next one lists every CR.
Restart ==
  /\ job' = [k \in Kinds |-> None]
  /\ queue' = [o \in Objects |-> cr[o] # None]
  /\ cache' = cr
  /\ behind' = [o \in Objects |-> FALSE]
  /\ lost' = [o \in Objects |->
                lost[o] \/ \E k \in Kinds : job[k] # None /\ job[k].obj = o /\ Unrecorded(job[k])]
  /\ UNCHANGED <<cr, gw, said>>

-----------------------------------------------------------------------------
Interfere ==
  \/ \E o \in Objects : \E s \in SpecsOf[o] : Create(o, s) \/ Edit(o, s)
  \/ \E o \in Objects : Delete(o)
  \/ \E k \in Kinds : UpsertUnanswered(k) \/ UpsertUnsent(k)
  \/ \E k \in Kinds : DeleteUnanswered(k) \/ DeleteUnsent(k)
  \/ Restart

Work(k) ==
  \/ AddFinalizer(k)
  \/ Resolve(k)
  \/ Upsert(k)
  \/ WriteStatus(k, "status")
  \/ WriteStatus(k, "failed")
  \/ DeleteObject(k)
  \/ Release(k)

Next ==
  /\ \/ Interfere
     \/ \E o \in Objects : Watch(o) \/ Start(o)
     \/ \E k \in Kinds : Work(k)
  /\ UNCHANGED population

Spec == Init /\ [][Next]_<<vars, population>>

(***************************************************************************)
(* A running reconcile goes on, the watch delivers every change, and no    *)
(* queued CR is starved: the controllers take their queues in order.       *)
(***************************************************************************)
Fairness ==
  /\ \A k \in Kinds : WF_vars(Work(k))
  /\ \A o \in Objects : WF_vars(Watch(o))
  /\ \A o \in Objects : SF_vars(Start(o))

FairSpec == Spec /\ Fairness

-----------------------------------------------------------------------------
(* Properties *)

\* A CR that has its identifier leaves Kubernetes only after its gateway object
\* is gone: handleDelete keeps the finalizer through every error and restart.
CleanRemoval ==
  [][\A o \in Objects :
       cr[o] # None /\ cr'[o] = None /\ cr[o].id # None => gw[cr[o].id] = None]_vars

\* The operator has not lost track of o, so: an object of the gateway that has
\* its name is recorded in the CR's status or about to be, and a recorded
\* object exists or is being deleted.  Edits, deletions, failed calls and
\* restarts break the link only where lost says so: between an admin call
\* that took effect and the write that was to record it.
LinkKept ==
  \A o \in Objects : ~lost[o] =>
    /\ \A i \in Ids : gw[i] # None /\ gw[i].name = o =>
         \/ cr[o] # None /\ cr[o].id = i
         \/ \E k \in Kinds : Running(k, "status") /\ job[k].obj = o /\ job[k].id = i
    /\ cr[o] # None /\ cr[o].id # None /\ gw[cr[o].id] = None =>
         \E k \in Kinds : Running(k, "release") /\ job[k].obj = o

Target(o) == IF o \in Routes /\ cr[RefOf[o]] # None THEN cr[RefOf[o]].id ELSE None

\* The gateway holds what the CR asks for, or nothing if there is no CR.
InSync(o) ==
  IF cr[o] = None
  THEN \A i \in Ids : gw[i] # None => gw[i].name # o
  ELSE /\ ~cr[o].deleting
       /\ cr[o].id # None
       /\ gw[cr[o].id] = [name |-> o, spec |-> cr[o].spec, upstream |-> Target(o)]

\* A route waits for the CR of its upstream, an upstream being deleted for the
\* routes that use it.
Waiting(o) ==
  /\ cr[o] # None
  /\ IF o \in Routes
     THEN ~cr[o].deleting /\ cr[RefOf[o]] = None
     ELSE o \in Upstreams /\ cr[o].deleting /\ cr[o].id # None /\ InUse(cr[o].id)

LostFor(o) == lost[o] \/ (o \in Routes /\ lost[RefOf[o]])

Quiet == <>[][~Interfere]_vars

\* Once users, crashes and network failures leave the operator alone, every CR
\* it has not lost track of is carried over to the gateway.
Converges == Quiet => \A o \in Objects : <>[](InSync(o) \/ Waiting(o) \/ LostFor(o))

\* "config follows GitOps": once left alone, the operator makes the gateway
\* follow the CRs.
ConfigFollowsGitOps == Quiet => \A o \in Objects : <>[](InSync(o) \/ Waiting(o))
=============================================================================
