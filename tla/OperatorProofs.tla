---------------------------- MODULE OperatorProofs ----------------------------
(***************************************************************************)
(* The inductive invariant of the operator, for any number of CRs, and the *)
(* steps that leave the gateway alone.  LinkKept alone is not inductive:   *)
(* IInv adds what a reconcile knows of its CR (FreshCopy), what the admin  *)
(* call it has just made left in the gateway (StatusPending,               *)
(* ReleasePending), and that no two CRs ever refer to one identifier,      *)
(* stale copies included (NoSharing).                                      *)
(*                                                                         *)
(* Every step but a restart concerns one CR.  OneObject shows once and for *)
(* all that such a step disturbs nothing else.                             *)
(***************************************************************************)
EXTENDS Operator, TLAPS

Holds(k, o) == job[k] # None /\ job[k].obj = o

\* The identifiers that o refers to.
Refs(o) ==
  {i \in Ids :
     \/ gw[i] # None /\ gw[i].name = o
     \/ cr[o] # None /\ cr[o].id = i
     \/ cache[o] # None /\ cache[o].id = i
     \/ \E k \in Kinds : Holds(k, o) /\ job[k].id = i}

\* The identifiers that nothing but o refers to.
Own(o) == {i \in Ids : \A p \in Objects : p # o => i \notin Refs(p)}

NoSharing == \A o \in Objects : Refs(o) \subseteq Own(o)

CacheCurrent == \A o \in Objects : ~behind[o] => cache[o] = cr[o]

\* A controller works on its own kind, and only the routes' one resolves.
OwnKind(k) ==
  job[k] # None => /\ KindOf(job[k].obj) = k
                   /\ job[k].stage = "resolve" => k = "route"

AfterFinalizer == {"resolve", "upsert", "status", "failed"}

\* What a reconcile knows of its CR while its copy is the last version.
FreshCopy(k) ==
  job[k] # None /\ job[k].fresh =>
    /\ cr[job[k].obj] # None
    /\ job[k].stage # "status" => cr[job[k].obj].id = job[k].id
    /\ job[k].stage \in AfterFinalizer => cr[job[k].obj].finalizer

\* The object just written is the only one with its name.
StatusPending(k) ==
  Running(k, "status") =>
    /\ job[k].id \in Ids
    /\ gw[job[k].id] # None
    /\ \A i \in Ids : gw[i] # None /\ gw[i].name = job[k].obj => i = job[k].id

\* The object of a CR whose finalizer is about to go is gone.
ReleasePending(k) == Running(k, "release") /\ job[k].id # None => gw[job[k].id] = None

JobOK(k) == OwnKind(k) /\ FreshCopy(k) /\ StatusPending(k) /\ ReleasePending(k)

\* LinkKept, with the identifier that the deleting reconcile holds.
LinkOf(o) ==
  /\ \A i \in Ids : gw[i] # None /\ gw[i].name = o =>
       \/ cr[o] # None /\ cr[o].id = i
       \/ \E k \in Kinds : Running(k, "status") /\ job[k].obj = o /\ job[k].id = i
  /\ cr[o] # None /\ cr[o].id # None /\ gw[cr[o].id] = None =>
       \E k \in Kinds : Running(k, "release") /\ job[k].obj = o /\ job[k].id = cr[o].id

IInv ==
  /\ StateOK
  /\ CacheCurrent
  /\ NoSharing
  /\ \A k \in Kinds : JobOK(k)
  /\ \A o \in Objects : ~lost[o] => LinkOf(o)

-----------------------------------------------------------------------------
(* Steps that concern one CR *)

\* Nothing changes but what concerns o.
Only(o) ==
  /\ \A k \in Kinds : \/ job'[k] = job[k]
                      \/ /\ k = KindOf(o)
                         /\ job[k] # None => job[k].obj = o
                         /\ job'[k] # None => job'[k].obj = o
  /\ \A p \in Objects : p # o => cr'[p] = cr[p] /\ cache'[p] = cache[p] /\ lost'[p] = lost[p]
  /\ \A i \in Ids : gw'[i] = gw[i] \/ (i \in Own(o) /\ (gw'[i] # None => gw'[i].name = o))
  /\ Refs(o)' \subseteq Own(o)

LEMMA OneObject ==
  ASSUME IInv, NEW o \in Objects, Only(o),
         StateOK', CacheCurrent',
         \A k \in Kinds : Holds(k, o)' => JobOK(k)',
         ~lost'[o] => LinkOf(o)'
  PROVE  IInv'
  <1>1. \A k \in Kinds : job[k] # None =>
          job[k] \in Job /\ job[k].obj \in Objects /\ job[k].id \in Ids \cup {None}
    BY DEF IInv, StateOK, Job
  <1>2. \A k \in Kinds : job'[k] # None /\ job'[k].obj # o => job'[k] = job[k]
    BY DEF Only
  <1>3. \A k \in Kinds : job[k] # None /\ job[k].obj # o => job'[k] = job[k]
    BY DEF Only
  <1>4. \A p \in Objects : p # o => \A i \in Refs(p) : i \in Ids /\ gw'[i] = gw[i]
    BY DEF Only, Own, Refs
  <1>5. \A i \in Ids : gw'[i] # None /\ gw'[i].name # o => gw'[i] = gw[i]
    BY DEF Only
  <1>6. ASSUME NEW k \in Kinds, job'[k] # None, job'[k].obj # o
        PROVE  JobOK(k)'
    <2>1. job'[k] = job[k] /\ JobOK(k)
      BY <1>2, <1>6 DEF IInv
    <2>2. job[k].id \in Ids => gw'[job[k].id] = gw[job[k].id]
      BY <1>1, <1>4, <1>6, <2>1 DEF Refs, Holds
    <2>3. cr'[job[k].obj] = cr[job[k].obj]
      BY <1>1, <1>6, <2>1 DEF Only
    <2>4. OwnKind(k)' /\ FreshCopy(k)'
      BY <2>1, <2>3 DEF JobOK, OwnKind, FreshCopy
    <2>5. StatusPending(k)'
      BY <1>5, <1>6, <2>1, <2>2 DEF JobOK, StatusPending, Running
    <2>6. ReleasePending(k)'
      BY <1>1, <1>6, <2>1, <2>2 DEF JobOK, ReleasePending, Running
    <2>. QED
      BY <2>4, <2>5, <2>6 DEF JobOK
  <1>7. \A k \in Kinds : JobOK(k)'
    BY <1>6 DEF Holds, JobOK, OwnKind, FreshCopy, StatusPending, ReleasePending, Running
  <1>8. ASSUME NEW p \in Objects, p # o
        PROVE  Refs(p)' \subseteq Refs(p)
    <2>1. cr'[p] = cr[p] /\ cache'[p] = cache[p]
      BY <1>8 DEF Only
    <2>2. \A k \in Kinds : Holds(k, p)' => job'[k] = job[k]
      BY <1>2, <1>8 DEF Holds
    <2>. QED
      BY <1>5, <1>8, <2>1, <2>2 DEF Refs, Holds
  <1>9. NoSharing'
    <2> SUFFICES ASSUME NEW p \in Objects, NEW q \in Objects, p # q,
                        NEW i, i \in Refs(p)', i \in Refs(q)'
                 PROVE  FALSE
      BY DEF NoSharing, Own, Refs
    <2>1. i \in Refs(p) => i \notin Refs(q)
      BY DEF IInv, NoSharing, Own
    <2>2. CASE p = o
      BY <1>8, <2>2 DEF Only, Own
    <2>3. CASE q = o
      BY <1>8, <2>3 DEF Only, Own
    <2>4. CASE p # o /\ q # o
      BY <1>8, <2>1, <2>4
    <2>. QED
      BY <2>2, <2>3, <2>4
  <1>10. ASSUME NEW p \in Objects, ~lost'[p]
         PROVE  LinkOf(p)'
    <2> SUFFICES ASSUME p # o PROVE LinkOf(p)'
      BY <1>10
    <2>1. LinkOf(p) /\ cr'[p] = cr[p]
      BY <1>10 DEF IInv, Only
    <2>2. \A k \in Kinds : Holds(k, p) => job'[k] = job[k]
      BY <1>3 DEF Holds
    <2>3. cr[p] # None /\ cr[p].id # None => gw'[cr[p].id] = gw[cr[p].id]
      BY <1>4 DEF IInv, StateOK, CR, Refs
    <2>. QED
      BY <1>5, <2>1, <2>2, <2>3 DEF LinkOf, Running, Holds
  <1>. QED
    BY <1>7, <1>9, <1>10 DEF IInv

\* A step that adds no reference to an identifier.
LEMMA NoNewRefs ==
  ASSUME IInv, NEW o \in Objects, UNCHANGED gw,
         \A k \in Kinds : \/ job'[k] = job[k]
                          \/ /\ k = KindOf(o)
                             /\ job[k] # None => job[k].obj = o
                             /\ job'[k] # None => job'[k].obj = o /\ job'[k].id \in Refs(o) \cup {None},
         \A p \in Objects : p # o => cr'[p] = cr[p] /\ cache'[p] = cache[p] /\ lost'[p] = lost[p],
         cr'[o] # None => cr'[o].id \in Refs(o) \cup {None},
         cache'[o] # None => cache'[o].id \in Refs(o) \cup {None}
  PROVE  Only(o)
  <1>1. Refs(o)' \subseteq Refs(o)
    BY OperatorAssumption DEF Refs, Holds
  <1>. QED
    BY <1>1 DEF Only, IInv, NoSharing

LEMMA OutdatedWork ==
  ASSUME StateOK, NEW o \in Objects, job' = Outdated(o)
  PROVE  /\ job' \in [Kinds -> Job \cup {None}]
         /\ \A k \in Kinds :
              IF Holds(k, o)
              THEN /\ job'[k] \in Job /\ job'[k] # None /\ ~job'[k].fresh
                   /\ job'[k].obj = o /\ job'[k].id = job[k].id /\ job'[k].stage = job[k].stage
              ELSE job'[k] = job[k]
  <1> SUFFICES ASSUME NEW k \in Kinds
               PROVE  /\ job'[k] \in Job \cup {None}
                      /\ IF Holds(k, o)
                         THEN /\ job'[k] \in Job /\ job'[k] # None /\ ~job'[k].fresh
                              /\ job'[k].obj = o /\ job'[k].id = job[k].id
                              /\ job'[k].stage = job[k].stage
                         ELSE job'[k] = job[k]
    BY Zenon DEF Outdated
  <1>1. job[k] \in Job \cup {None}
    BY DEF StateOK
  <1>2. CASE Holds(k, o)
    BY Zenon, <1>1, <1>2, NoneAssumption DEF Outdated, Holds, Job
  <1>3. CASE ~Holds(k, o)
    BY <1>1, <1>3 DEF Outdated, Holds
  <1>. QED
    BY <1>2, <1>3

IdOf(c) == IF c = None THEN None ELSE c.id

\* A user's write that leaves the identifier alone.
LEMMA UserWrite ==
  ASSUME IInv, NEW o \in Objects, NEW STATE c, c \in CR \cup {None},
         IdOf(c) = IdOf(cr[o]),
         c # None /\ c.id # None => c.finalizer,
         Put(o, c), job' = Outdated(o), UNCHANGED <<gw, queue, lost, population>>
  PROVE  IInv'
  <1>1. StateOK' /\ CacheCurrent'
    BY OutdatedWork DEF IInv, StateOK, Put, CacheCurrent
  <1>2. \A k \in Kinds :
          IF Holds(k, o)
          THEN /\ job'[k] \in Job /\ job'[k] # None /\ ~job'[k].fresh
               /\ job'[k].obj = o /\ job'[k].id = job[k].id /\ job'[k].stage = job[k].stage
          ELSE job'[k] = job[k]
    BY OutdatedWork DEF IInv
  <1>3. cr'[o] = c /\ cache' = cache /\ \A p \in Objects : p # o => cr'[p] = cr[p]
    BY DEF Put, IInv, StateOK
  <1>4. \A k \in Kinds : Holds(k, o) => KindOf(o) = k /\ job[k].id \in Refs(o) \cup {None}
    BY DEF IInv, JobOK, OwnKind, Holds, Refs, StateOK, Job
  <1>5. \A d \in {cr[o], cache[o]} : d # None => d.id \in Refs(o) \cup {None}
    BY DEF IInv, StateOK, CR, Refs
  <1>6. Only(o)
    BY <1>2, <1>3, <1>4, <1>5, NoNewRefs DEF Holds, IdOf
  <1>7. ASSUME NEW k \in Kinds, Holds(k, o)'
        PROVE  JobOK(k)'
    BY <1>2, <1>7 DEF IInv, JobOK, OwnKind, FreshCopy, StatusPending, ReleasePending,
      Running, Holds
  <1>8. ~lost'[o] => LinkOf(o)'
    BY <1>2, <1>3, OperatorAssumption DEF IInv, LinkOf, Running, Holds, IdOf
  <1>. QED
    BY <1>1, <1>6, <1>7, <1>8, OneObject

LEMMA CreateKeeps ==
  ASSUME IInv, NEW o \in Objects, NEW s \in SpecsOf[o], Create(o, s), UNCHANGED population
  PROVE  IInv'
  <1>1. [spec |-> s, deleting |-> FALSE, finalizer |-> FALSE, id |-> None] \in CR
    BY DEF CR, Specs
  <1>. QED
    BY <1>1, UserWrite, NoneAssumption DEF Create, IdOf

LEMMA EditKeeps ==
  ASSUME IInv, NEW o \in Objects, NEW s \in SpecsOf[o], Edit(o, s), UNCHANGED population
  PROVE  IInv'
  <1>1. cr[o] \in CR /\ (cr[o].id # None => cr[o].finalizer)
    BY DEF Edit, IInv, StateOK
  <1>2. [cr[o] EXCEPT !.spec = s] \in CR
    BY <1>1 DEF CR, Specs
  <1>. QED
    BY <1>1, <1>2, UserWrite, NoneAssumption DEF Edit, IdOf, CR

LEMMA DeleteKeeps ==
  ASSUME IInv, NEW o \in Objects, Delete(o), UNCHANGED population
  PROVE  IInv'
  <1>1. cr[o] \in CR /\ (cr[o].id # None => cr[o].finalizer)
    BY DEF Delete, IInv, StateOK
  <1>2. [cr[o] EXCEPT !.deleting = TRUE] \in CR
    BY Zenon, <1>1 DEF CR
  <1>3. CASE cr[o].finalizer
    BY <1>1, <1>2, <1>3, UserWrite, NoneAssumption DEF Delete, IdOf, CR
  <1>4. CASE ~cr[o].finalizer
    BY <1>1, <1>4, UserWrite, NoneAssumption DEF Delete, IdOf
  <1>. QED
    BY <1>3, <1>4

LEMMA WatchKeeps ==
  ASSUME IInv, NEW o \in Objects, Watch(o), UNCHANGED population
  PROVE  IInv'
  <1>1. StateOK' /\ CacheCurrent'
    BY DEF Watch, IInv, StateOK, CacheCurrent
  <1>2. Only(o)
    <2>1. cache'[o] = cr[o] /\ \A p \in Objects : p # o => cache'[p] = cache[p]
      BY DEF Watch, IInv, StateOK
    <2>2. cr[o] # None => cr[o].id \in Refs(o) \cup {None}
      BY DEF IInv, StateOK, CR, Refs
    <2>. QED
      BY <2>1, <2>2, NoNewRefs DEF Watch
  <1>3. \A k \in Kinds : JobOK(k)'
    BY DEF Watch, IInv, JobOK, OwnKind, FreshCopy, StatusPending, ReleasePending, Running
  <1>4. ~lost'[o] => LinkOf(o)'
    BY DEF Watch, IInv, LinkOf, Running
  <1>. QED
    BY <1>1, <1>2, <1>3, <1>4, OneObject

-----------------------------------------------------------------------------
(* The steps of a reconcile *)

\* Job k of o becomes j, which knows no other identifier, or is over.
LEMMA JobStep ==
  ASSUME IInv, NEW k \in Kinds, Running(k, job[k].stage), NEW o \in Objects, job[k].obj = o,
         NEW STATE j, j \in Job \cup {None}, job' = [job EXCEPT ![k] = j],
         j # None => j.obj = o /\ j.id = job[k].id /\ (j.stage = "resolve" => k = "route"),
         UNCHANGED <<gw, cache>>,
         \A p \in Objects : p # o => cr'[p] = cr[p] /\ lost'[p] = lost[p],
         cr'[o] # None => cr'[o].id \in {cr[o].id, job[k].id, None},
         cr[o] = None => cr'[o] = None,
         StateOK', CacheCurrent',
         j # None => FreshCopy(k)' /\ StatusPending(k)' /\ ReleasePending(k)',
         ~lost'[o] => LinkOf(o)'
  PROVE  IInv'
  <1>1. job'[k] = j /\ \A l \in Kinds : l # k => job'[l] = job[l]
    BY DEF IInv, StateOK
  <1>2. \A l \in Kinds : Holds(l, o) => KindOf(o) = l
    BY DEF IInv, JobOK, OwnKind, Holds
  <1>3. KindOf(o) = k /\ job[k].id \in Refs(o) \cup {None}
    BY <1>2 DEF Holds, Refs, Running, IInv, StateOK, Job
  <1>4. \A d \in {cr[o], cache[o]} : d # None => d.id \in Refs(o) \cup {None}
    BY DEF IInv, StateOK, CR, Refs
  <1>5. Only(o)
    BY <1>1, <1>3, <1>4, NoNewRefs
  <1>6. ASSUME NEW l \in Kinds, Holds(l, o)'
        PROVE  JobOK(l)'
    <2>1. l = k
      BY <1>1, <1>2, <1>3, <1>6 DEF Holds
    <2>. QED
      BY <1>1, <1>3, <1>6, <2>1 DEF JobOK, OwnKind, Holds
  <1>. QED
    BY <1>5, <1>6, OneObject

\* A step before the admin API has been called, or after it refused.
LEMMA PlainStep ==
  ASSUME IInv, NEW k \in Kinds, job[k] # None, job[k].stage \notin {"status", "release"},
         NEW STATE j, j \in Job \cup {None}, job' = [job EXCEPT ![k] = j],
         j # None => /\ j.obj = job[k].obj
                     /\ j.id = job[k].id
                     /\ j.fresh => job[k].fresh
                     /\ \/ j.stage = "release" /\ j.id = None
                        \/ j.stage \in {"upsert", "failed"} /\ job[k].stage \in AfterFinalizer,
         queue' \in [Objects -> BOOLEAN],
         UNCHANGED <<cr, cache, behind, gw, lost, population>>
  PROVE  IInv'
  <1>1. PICK o \in Objects : job[k].obj = o
    BY DEF IInv, StateOK, Job
  <1>2. job'[k] = j /\ \A l \in Kinds : l # k => job'[l] = job[l]
    BY DEF IInv, StateOK
  <1>3. StateOK' /\ CacheCurrent'
    BY DEF IInv, StateOK, CacheCurrent
  <1>4. ASSUME j # None
        PROVE  FreshCopy(k)' /\ StatusPending(k)' /\ ReleasePending(k)'
    <2>1. FreshCopy(k)
      BY DEF IInv, JobOK
    <2>2. FreshCopy(k)'
      BY <1>2, <1>4, <2>1 DEF FreshCopy, AfterFinalizer
    <2>3. ~Running(k, "status")' /\ (Running(k, "release")' => job'[k].id = None)
      BY <1>2, <1>4 DEF Running
    <2>. QED
      BY <2>2, <2>3 DEF StatusPending, ReleasePending
  <1>5. ~lost'[o] => LinkOf(o)'
    BY <1>2 DEF IInv, LinkOf, Running
  <1>. QED
    BY Zenon, <1>1, <1>3, <1>4, <1>5, JobStep DEF Running

LEMMA StartKeeps ==
  ASSUME IInv, NEW o \in Objects, Start(o), UNCHANGED population
  PROVE  IInv'
  <1>. DEFINE k == KindOf(o)
              c == cache[o]
              j == [obj |-> o, id |-> c.id, spec |-> c.spec, target |-> None,
                    fresh |-> ~behind[o], stage |-> FirstStage(k, c)]
              n == IF c = None THEN None ELSE j
  <1>1. k \in Kinds /\ job[k] = None /\ c \in CR \cup {None}
    BY DEF Start, IInv, StateOK, KindOf, Kinds
  <1>2. /\ job' = [job EXCEPT ![k] = n]
        /\ queue' \in [Objects -> BOOLEAN]
        /\ UNCHANGED <<cr, cache, behind, gw, lost, population>>
    BY DEF Start, IInv, StateOK
  <1>3. c # None =>
          /\ FirstStage(k, c) \in {"finalize", "resolve", "upsert", "delete"}
          /\ FirstStage(k, c) = "resolve" => k = "route"
          /\ FirstStage(k, c) \in AfterFinalizer => c.finalizer
    BY <1>1 DEF FirstStage, AfterFinalizer, CR
  <1>4. c # None => j \in Job
    BY <1>1, <1>3 DEF Job, CR, IInv, StateOK
  <1>5. n # None => /\ n \in Job /\ n.obj = o /\ n.id = c.id /\ c # None
                    /\ n.stage = FirstStage(k, c) /\ (n.fresh => cr[o] = c)
    BY Zenon, <1>4 DEF IInv, CacheCurrent
  <1>. HIDE DEF n, j
  <1>6. job'[k] = n /\ \A l \in Kinds : l # k => job'[l] = job[l]
    BY <1>1, <1>2 DEF IInv, StateOK
  <1>7. StateOK' /\ CacheCurrent'
    BY <1>1, <1>2, <1>5 DEF IInv, StateOK, CacheCurrent
  <1>8. Only(o)
    <2>1. \A d \in {cr[o], cache[o]} : d # None => d.id \in Refs(o) \cup {None}
      BY DEF IInv, StateOK, CR, Refs
    <2>. QED
      BY <1>1, <1>2, <1>5, <1>6, <2>1, NoNewRefs
  <1>9. ASSUME NEW l \in Kinds, Holds(l, o)'
        PROVE  JobOK(l)'
    <2>1. l = k
      BY <1>6, <1>9 DEF IInv, JobOK, OwnKind, Holds
    <2>. QED
      BY <1>2, <1>3, <1>5, <1>6, <1>9, <2>1 DEF JobOK, OwnKind, FreshCopy, StatusPending,
        ReleasePending, Running, Holds
  <1>10. ~lost'[o] => LinkOf(o)'
    BY <1>1, <1>2, <1>6 DEF IInv, LinkOf, Running
  <1>. QED
    BY <1>7, <1>8, <1>9, <1>10, OneObject

LEMMA ResolveKeeps ==
  ASSUME IInv, NEW k \in Kinds, Resolve(k), UNCHANGED population
  PROVE  IInv'
  <1>. DEFINE u == RefOf[job[k].obj]
              j == IF cache[u] # None /\ cache[u].id # None
                   THEN [job[k] EXCEPT !.stage = "upsert", !.target = cache[u].id]
                   ELSE [job[k] EXCEPT !.stage = "failed"]
  <1>1. job[k] \in Job /\ job[k] # None /\ job[k].stage = "resolve"
    BY DEF Resolve, Running, IInv, StateOK
  <1>2. u \in Objects
    BY <1>1, OperatorAssumption DEF IInv, JobOK, OwnKind, KindOf, Objects
  <1>3. j \in Job /\ j.obj = job[k].obj /\ j.id = job[k].id /\ j.fresh = job[k].fresh
        /\ j.stage \in {"upsert", "failed"}
    BY Zenon, <1>1, <1>2 DEF Job, CR, IInv, StateOK
  <1>4. job' = [job EXCEPT ![k] = j] /\ queue' \in [Objects -> BOOLEAN]
    BY Zenon, <1>1 DEF Resolve, Advance, IInv, StateOK
  <1>. HIDE DEF j
  <1>. QED
    BY Zenon, <1>1, <1>3, <1>4, PlainStep DEF Resolve, AfterFinalizer

\* The stage of an upsert that was refused or did not get through.
LEMMA Failed ==
  ASSUME StateOK, NEW k \in Kinds, Running(k, "upsert"), Advance(k, "failed")
  PROVE  LET f == [job[k] EXCEPT !.stage = "failed"]
         IN  /\ f \in Job /\ f # None
             /\ f.obj = job[k].obj /\ f.id = job[k].id /\ f.fresh = job[k].fresh
             /\ f.stage = "failed"
             /\ job' = [job EXCEPT ![k] = f]
             /\ queue \in [Objects -> BOOLEAN]
  <1>1. job[k] \in Job
    BY DEF Running, StateOK
  <1>. QED
    BY <1>1, NoneAssumption DEF Job, Advance, StateOK

LEMMA UnsentKeeps ==
  ASSUME IInv, NEW k \in Kinds, UpsertUnsent(k) \/ DeleteUnsent(k), UNCHANGED population
  PROVE  IInv'
  <1>1. CASE UpsertUnsent(k)
    <2>. DEFINE f == [job[k] EXCEPT !.stage = "failed"]
    <2>1. /\ f \in Job /\ f.obj = job[k].obj /\ f.id = job[k].id /\ f.fresh = job[k].fresh
          /\ f.stage = "failed"
          /\ job' = [job EXCEPT ![k] = f]
          /\ queue \in [Objects -> BOOLEAN]
      BY <1>1, Failed DEF UpsertUnsent, IInv
    <2>. HIDE DEF f
    <2>. QED
      BY Zenon, <1>1, <2>1, PlainStep DEF UpsertUnsent, Running, AfterFinalizer
  <1>2. CASE DeleteUnsent(k)
    <2>1. job' = [job EXCEPT ![k] = None] /\ queue' \in [Objects -> BOOLEAN]
      BY Zenon, <1>2 DEF DeleteUnsent, Return, IInv, StateOK
    <2>. QED
      BY Zenon, <1>2, <2>1, PlainStep DEF DeleteUnsent, Running
  <1>. QED
    BY <1>1, <1>2

LEMMA AddFinalizerKeeps ==
  ASSUME IInv, NEW k \in Kinds, AddFinalizer(k), UNCHANGED population
  PROVE  IInv'
  <1>1. job[k] \in Job /\ job[k] # None /\ job[k].stage = "finalize"
    BY DEF AddFinalizer, Running, IInv, StateOK
  <1>2. PICK o \in Objects : job[k].obj = o
    BY <1>1 DEF Job
  <1>. DEFINE c == [cr[o] EXCEPT !.finalizer = TRUE]
              j == [job[k] EXCEPT !.stage = IF k = "route" THEN "resolve" ELSE "upsert"]
  <1>3. CASE ~job[k].fresh
    <2>1. job' = [job EXCEPT ![k] = None] /\ queue' \in [Objects -> BOOLEAN]
      BY Zenon, <1>3 DEF AddFinalizer, Return, IInv, StateOK
    <2>. QED
      BY Zenon, <1>1, <1>3, <2>1, PlainStep DEF AddFinalizer
  <1>4. CASE job[k].fresh
    <2>1. cr[o] \in CR /\ cr[o] # None /\ cr[o].id = job[k].id
      BY <1>1, <1>2, <1>4 DEF IInv, StateOK, JobOK, FreshCopy
    <2>2. c \in CR /\ c # None /\ c.id = cr[o].id /\ c.finalizer
      BY <2>1, NoneAssumption, Zenon DEF CR
    <2>3. j \in Job /\ j # None /\ j.obj = o /\ j.id = job[k].id
          /\ j.stage \in {"resolve", "upsert"} /\ (j.stage = "resolve" => k = "route")
      BY <1>1, <1>2, NoneAssumption DEF Job
    <2>4. /\ Put(o, c)
          /\ job' = [job EXCEPT ![k] = j]
          /\ UNCHANGED <<gw, queue, lost, population>>
      BY <1>2, <1>4 DEF AddFinalizer, Advance, IInv, StateOK
    <2>. HIDE DEF c, j
    <2>5. cr'[o] = c /\ \A p \in Objects : p # o => cr'[p] = cr[p]
      BY <2>4 DEF Put, IInv, StateOK
    <2>6. job'[k] = j /\ \A l \in Kinds : l # k => job'[l] = job[l]
      BY <2>4 DEF IInv, StateOK
    <2>7. StateOK' /\ CacheCurrent'
      BY <2>2, <2>3, <2>4, <2>5, Zenon DEF IInv, StateOK, Put, CacheCurrent
    <2>8. FreshCopy(k)' /\ StatusPending(k)' /\ ReleasePending(k)'
      BY <2>1, <2>2, <2>3, <2>5, <2>6 DEF FreshCopy, StatusPending, ReleasePending, Running
    <2>9. ASSUME ~lost'[o]
          PROVE  LinkOf(o)'
      <3>1. LinkOf(o)
        BY <2>4, <2>9 DEF IInv
      <3>2. ASSUME NEW l \in Kinds, NEW x \in {"status", "release"}, Running(l, x)
            PROVE  Running(l, x)' /\ job'[l] = job[l]
        BY <1>1, <2>6, <3>2 DEF Running
      <3>3. cr'[o] # None /\ cr'[o].id = cr[o].id /\ gw' = gw
        BY <2>2, <2>4, <2>5
      <3>4. ASSUME NEW i \in Ids, gw'[i] # None, gw'[i].name = o, cr'[o].id # i
            PROVE  \E l \in Kinds : Running(l, "status")' /\ job'[l].obj = o /\ job'[l].id = i
        <4>1. PICK l \in Kinds : Running(l, "status") /\ job[l].obj = o /\ job[l].id = i
          BY Zenon, <3>1, <3>3, <3>4 DEF LinkOf
        <4>2. Running(l, "status")' /\ job'[l] = job[l]
          BY Zenon, <3>2, <4>1
        <4>. QED
          BY Zenon, <4>1, <4>2
      <3>5. ASSUME cr'[o].id # None, gw'[cr'[o].id] = None
            PROVE  \E l \in Kinds : Running(l, "release")' /\ job'[l].obj = o /\ job'[l].id = cr'[o].id
        <4>1. PICK l \in Kinds : Running(l, "release") /\ job[l].obj = o /\ job[l].id = cr[o].id
          BY Zenon, <2>1, <3>1, <3>3, <3>5 DEF LinkOf
        <4>2. Running(l, "release")' /\ job'[l] = job[l]
          BY Zenon, <3>2, <4>1
        <4>. QED
          BY Zenon, <3>3, <4>1, <4>2
      <3>. QED
        BY Zenon, <3>3, <3>4, <3>5 DEF LinkOf
    <2>10. Running(k, job[k].stage) /\ UNCHANGED <<gw, cache>>
      BY <1>1, <2>4 DEF Running, Put
    <2>11. /\ \A p \in Objects : p # o => cr'[p] = cr[p] /\ lost'[p] = lost[p]
           /\ cr'[o].id \in {cr[o].id, job[k].id, None}
      BY <2>2, <2>4, <2>5
    <2>. QED
      BY Zenon, <1>2, <2>1, <2>3, <2>4, <2>7, <2>8, <2>9, <2>10, <2>11, JobStep
  <1>. QED
    BY <1>3, <1>4

\* The reconcile of o ends, and may have changed o's CR.
Ends(k, o) ==
  /\ job[k] # None /\ job[k].obj = o
  /\ job' = [job EXCEPT ![k] = None] /\ queue' \in [Objects -> BOOLEAN]
  /\ cr' \in [Objects -> CR \cup {None}] /\ behind' \in [Objects -> BOOLEAN]
  /\ cr[o] = None => cr'[o] = None
  /\ cr'[o] # None => /\ cr'[o].id \in {cr[o].id, job[k].id}
                      /\ cr'[o].id # None => cr'[o].finalizer
  /\ cr'[o] # cr[o] => behind'[o]
  /\ lost' \in [Objects -> BOOLEAN]
  /\ \A p \in Objects : /\ behind[p] => behind'[p]
                        /\ p # o => cr'[p] = cr[p] /\ lost'[p] = lost[p]
  /\ UNCHANGED <<cache, gw, population>>

\* Then o's CR names its object, and no other.
Settled(o) ==
  /\ \A i \in Ids : gw[i] # None /\ gw[i].name = o => cr[o] # None /\ cr[o].id = i
  /\ cr[o] # None /\ cr[o].id # None => gw[cr[o].id] # None

LEMMA JobDone ==
  ASSUME IInv, NEW k \in Kinds, NEW o \in Objects, Ends(k, o), ~lost'[o] => Settled(o)'
  PROVE  IInv'
  <1>1. StateOK'
    <2>1. job' \in [Kinds -> Job \cup {None}]
      BY DEF IInv, StateOK, Ends
    <2>. QED
      BY <2>1 DEF IInv, StateOK, Ends
  <1>2. CacheCurrent'
    BY DEF IInv, CacheCurrent, Ends
  <1>3. ~lost'[o] => LinkOf(o)'
    BY DEF LinkOf, Settled
  <1>4. Running(k, job[k].stage) /\ UNCHANGED <<gw, cache>>
    BY DEF Running, Ends
  <1>5. /\ \A p \in Objects : p # o => cr'[p] = cr[p] /\ lost'[p] = lost[p]
        /\ cr'[o] # None => cr'[o].id \in {cr[o].id, job[k].id, None}
    BY DEF Ends
  <1>. QED
    BY Zenon, <1>1, <1>2, <1>3, <1>4, <1>5, JobStep DEF Ends

\* The copy was outdated: the CR stays as it is, and a change that only the
\* reconcile knew of is lost.
LEMMA Conflict ==
  ASSUME IInv, NEW k \in Kinds, NEW o \in Objects, job[k] # None, job[k].obj = o,
         job' = [job EXCEPT ![k] = None], queue' \in [Objects -> BOOLEAN],
         lost' \in [Objects -> BOOLEAN], \A p \in Objects : p # o => lost'[p] = lost[p],
         lost[o] \/ Unrecorded(job[k]) => lost'[o],
         UNCHANGED <<cr, cache, behind, gw, population>>
  PROVE  IInv'
  <1>1. cr[o] \in CR \cup {None} /\ (cr[o] # None => cr[o].id \in Ids \cup {None})
    BY DEF IInv, StateOK, CR
  <1>2. \A l \in Kinds : l # k => ~Holds(l, o)
    BY ZenonT(30) DEF IInv, JobOK, OwnKind, Holds
  <1>3. ~lost'[o] => Settled(o)'
    <2> SUFFICES ASSUME ~lost[o], ~Unrecorded(job[k])
                 PROVE  Settled(o)
      BY DEF Settled
    <2>1. LinkOf(o)
      BY DEF IInv
    <2>2. Running(k, "status") => cr[o] # None /\ cr[o].id = job[k].id
      BY DEF Unrecorded, Running
    <2>3. ~(Running(k, "release") /\ job[k].id # None)
      BY DEF Unrecorded, Running
    <2>4. \A l \in Kinds, x \in {"status", "release"} : Running(l, x) /\ job[l].obj = o => l = k
      BY <1>2, Zenon DEF Running, Holds
    <2>5. \A i \in Ids : gw[i] # None /\ gw[i].name = o => cr[o] # None /\ cr[o].id = i
      BY <2>1, <2>2, <2>4 DEF LinkOf
    <2>6. cr[o] # None /\ cr[o].id # None => gw[cr[o].id] # None
      BY <2>1, <2>3, <2>4 DEF LinkOf
    <2>. QED
      BY <2>5, <2>6 DEF Settled
  <1>4. Ends(k, o)
    BY DEF Ends, IInv, StateOK
  <1>. QED
    BY <1>3, <1>4, JobDone

LEMMA WriteStatusKeeps ==
  ASSUME IInv, NEW k \in Kinds, NEW s \in {"status", "failed"}, WriteStatus(k, s),
         UNCHANGED population
  PROVE  IInv'
  <1>1. job[k] \in Job /\ job[k] # None /\ job[k].stage = s
    BY DEF WriteStatus, Running, IInv, StateOK
  <1>2. PICK o \in Objects : job[k].obj = o
    BY <1>1 DEF Job
  <1>3. job' = [job EXCEPT ![k] = None] /\ queue' \in [Objects -> BOOLEAN]
    BY Zenon DEF WriteStatus, Return, IInv, StateOK
  <1>4. CASE ~job[k].fresh
    <2>1. /\ lost' \in [Objects -> BOOLEAN] /\ \A p \in Objects : p # o => lost'[p] = lost[p]
          /\ lost[o] \/ Unrecorded(job[k]) => lost'[o]
          /\ UNCHANGED <<cr, cache, behind, gw>>
      BY Zenon, <1>2, <1>4 DEF WriteStatus, IInv, StateOK
    <2>. QED
      BY Zenon, <1>1, <1>2, <1>3, <2>1, Conflict
  <1>5. CASE job[k].fresh
    <2>. DEFINE c == [cr[o] EXCEPT !.id = job[k].id]
    <2>1. cr[o] \in CR /\ cr[o] # None /\ (s = "failed" => cr[o].id = job[k].id)
          /\ cr[o].finalizer
      BY <1>1, <1>2, <1>5 DEF IInv, StateOK, JobOK, FreshCopy, AfterFinalizer
    <2>2. c \in CR /\ c # None /\ c.finalizer /\ c.id = job[k].id /\ job[k].id \in Ids \cup {None}
      BY <1>1, <2>1, NoneAssumption, Zenon DEF CR, Job
    <2>3. cr[o].id = job[k].id => c = cr[o]
      BY <2>1, SMT DEF CR
    <2>4. /\ \/ cr' = [cr EXCEPT ![o] = c] /\ behind' = [behind EXCEPT ![o] = TRUE]
             \/ cr[o].id = job[k].id /\ UNCHANGED <<cr, behind>>
          /\ UNCHANGED <<cache, lost, gw>>
      BY Zenon, <1>2, <1>5 DEF WriteStatus, Put, SaidBefore
    <2>. HIDE DEF c
    <2>5. /\ cr' = [cr EXCEPT ![o] = c]
          /\ \/ behind' = [behind EXCEPT ![o] = TRUE]
             \/ c = cr[o] /\ UNCHANGED behind
          /\ UNCHANGED <<cache, lost, gw>>
      BY <2>3, <2>4 DEF IInv, StateOK
    <2>6. \A l \in Kinds : l # k => ~Holds(l, o)
      BY <1>1, <1>2 DEF IInv, JobOK, OwnKind, Holds
    <2>7. cr'[o] = c
      BY <2>5 DEF IInv, StateOK
    <2>8. ~lost[o] => Settled(o)'
      <3>1. CASE s = "status"
        BY <1>1, <1>2, <2>2, <2>5, <2>7, <3>1 DEF IInv, JobOK, StatusPending, Running, Settled
      <3>2. CASE s = "failed"
        <4>1. ~lost[o] => LinkOf(o)
          BY DEF IInv
        <4>2. \A l \in Kinds : l # k => ~(job[l] # None /\ job[l].obj = o)
          BY <2>6 DEF Holds
        <4>3. \A l \in Kinds, x \in {"status", "release"} : ~(Running(l, x) /\ job[l].obj = o)
          BY <1>1, <3>2, <4>2 DEF Running
        <4>4. ~lost[o] => /\ \A i \in Ids : gw[i] # None /\ gw[i].name = o => cr[o].id = i
                          /\ cr[o].id # None => gw[cr[o].id] # None
          BY <2>1, <4>1, <4>3 DEF LinkOf
        <4>. QED
          BY <2>1, <2>2, <2>5, <2>7, <3>2, <4>4 DEF Settled
      <3>. QED
        BY <3>1, <3>2
    <2>9. Ends(k, o)
      BY Zenon, <1>1, <1>2, <1>3, <2>1, <2>2, <2>5, <2>7 DEF Ends, IInv, StateOK
    <2>. QED
      BY <2>5, <2>8, <2>9, JobDone
  <1>. QED
    BY <1>4, <1>5

LEMMA ReleaseKeeps ==
  ASSUME IInv, NEW k \in Kinds, Release(k), UNCHANGED population
  PROVE  IInv'
  <1>1. job[k] \in Job /\ job[k] # None /\ job[k].stage = "release"
    BY DEF Release, Running, IInv, StateOK
  <1>2. PICK o \in Objects : job[k].obj = o
    BY <1>1 DEF Job
  <1>3. job' = [job EXCEPT ![k] = None] /\ queue' \in [Objects -> BOOLEAN]
    BY Zenon DEF Release, Return, IInv, StateOK
  <1>4. CASE ~job[k].fresh
    <2>1. /\ lost' \in [Objects -> BOOLEAN] /\ \A p \in Objects : p # o => lost'[p] = lost[p]
          /\ lost[o] \/ Unrecorded(job[k]) => lost'[o]
          /\ UNCHANGED <<cr, cache, behind, gw>>
      BY Zenon, <1>2, <1>4 DEF Release, IInv, StateOK
    <2>. QED
      BY Zenon, <1>1, <1>2, <1>3, <2>1, Conflict
  <1>5. CASE job[k].fresh
    <2>1. /\ cr' = [cr EXCEPT ![o] = None]
          /\ behind' = [behind EXCEPT ![o] = TRUE]
          /\ UNCHANGED <<cache, lost, gw>>
      BY <1>2, <1>5 DEF Release, Put
    <2>2. \A l \in Kinds : l # k => ~Holds(l, o)
      BY <1>1, <1>2 DEF IInv, JobOK, OwnKind, Holds
    <2>3. cr[o] # None /\ cr[o].id = job[k].id /\ (job[k].id # None => gw[job[k].id] = None)
      BY <1>1, <1>2, <1>5 DEF IInv, JobOK, FreshCopy, ReleasePending, Running
    <2>4. cr'[o] = None
      BY <2>1 DEF IInv, StateOK
    <2>5. ~lost[o] => Settled(o)'
      <3>1. ~lost[o] => LinkOf(o)
        BY DEF IInv
      <3>. QED
        BY ZenonT(30), <1>1, <1>2, <2>1, <2>2, <2>3, <2>4, <3>1, OperatorAssumption
        DEF LinkOf, Running, Holds, Settled
    <2>6. Ends(k, o)
      BY <1>1, <1>2, <1>3, <2>1, <2>3, <2>4 DEF Ends, IInv, StateOK
    <2>. QED
      BY <2>1, <2>5, <2>6, JobDone
  <1>. QED
    BY <1>4, <1>5
=============================================================================
