---------------------------- MODULE OperatorTheorems --------------------------
(***************************************************************************)
(* The calls of the admin API and the operator's restart keep IInv, and    *)
(* what follows from it: LinkKept, StateOK and CleanRemoval.                *)
(***************************************************************************)
EXTENDS OperatorProofs

-----------------------------------------------------------------------------
(* The calls of the admin API *)

\* The reconcile of o has changed the gateway's object n, which is o's.
Rewrites(k, o, n) ==
  /\ job[k] # None /\ job[k].obj = o
  /\ n \in Own(o)
  /\ gw' \in [Ids -> GatewayObject \cup {None}]
  /\ gw'[n] # None => gw'[n].name = o
  /\ \A i \in Ids : i # n => gw'[i] = gw[i]
  /\ job' \in [Kinds -> Job \cup {None}]
  /\ \A l \in Kinds : l # k => job'[l] = job[l]
  /\ job'[k] # None => /\ job'[k].obj = o /\ job'[k].id \in {job[k].id, n}
                       /\ job'[k].stage # "resolve"
  /\ queue' \in [Objects -> BOOLEAN]
  /\ lost' \in [Objects -> BOOLEAN]
  /\ \A p \in Objects : p # o => lost'[p] = lost[p]
  /\ UNCHANGED <<cr, cache, behind, population>>

LEMMA GatewayStep ==
  ASSUME IInv, NEW k \in Kinds, NEW o \in Objects, NEW n \in Ids, Rewrites(k, o, n),
         job'[k] # None => FreshCopy(k)' /\ StatusPending(k)' /\ ReleasePending(k)',
         ~lost'[o] => LinkOf(o)'
  PROVE  IInv'
  <1>1. StateOK' /\ CacheCurrent'
    BY DEF Rewrites, IInv, StateOK, CacheCurrent
  <1>2. KindOf(o) = k /\ \A l \in Kinds : Holds(l, o) => l = k
    BY DEF Rewrites, IInv, JobOK, OwnKind, Holds
  <1>3. Refs(o)' \subseteq Own(o)
    <2>1. Refs(o)' \subseteq Refs(o) \cup {n}
      BY <1>2 DEF Refs, Holds, Rewrites
    <2>2. Refs(o) \subseteq Own(o) /\ n \in Own(o)
      BY DEF IInv, NoSharing, Rewrites
    <2>. QED
      BY <2>1, <2>2
  <1>4. Only(o)
    BY <1>2, <1>3 DEF Only, Rewrites
  <1>5. ASSUME NEW l \in Kinds, Holds(l, o)'
        PROVE  JobOK(l)'
    <2>1. l = k
      BY <1>2, <1>5 DEF Holds, Rewrites
    <2>. QED
      BY <1>2, <1>5, <2>1 DEF JobOK, OwnKind, Holds, Rewrites
  <1>. QED
    BY <1>1, <1>4, <1>5, OneObject

\* What an accepted create or update writes.
Stored(k, o, n) ==
  /\ n = WriteTo(job[k])
  /\ gw' \in [Ids -> GatewayObject \cup {None}]
  /\ gw'[n] # None /\ gw'[n].name = o
  /\ \A i \in Ids : i # n => gw'[i] = gw[i]
  /\ job[k].id # None => n = job[k].id
  /\ \A i \in Ids : gw[i] # None /\ gw[i].name = o => i = job[k].id

LEMMA Stores ==
  ASSUME IInv, NEW k \in Kinds, Running(k, "upsert"), Unused # {}, Accepted(job[k]),
         gw' = [gw EXCEPT ![WriteTo(job[k])] = Written(job[k])],
         NEW o \in Objects, job[k].obj = o
  PROVE  \E n \in Own(o) : Stored(k, o, n)
  <1>. DEFINE n == WriteTo(job[k])
              w == Written(job[k])
  <1>1. job[k] \in Job /\ job[k] # None
    BY DEF Running, IInv, StateOK
  <1>2. job[k].id = None => n \in Unused
    BY DEF WriteTo, NewId
  <1>3. n \in Ids /\ (job[k].id # None => n = job[k].id)
    BY <1>1, <1>2 DEF WriteTo, Job, Unused
  <1>4. w \in GatewayObject /\ w # None /\ w.name = o
    BY <1>1, NoneAssumption DEF Written, GatewayObject, Job
  <1>. HIDE DEF n, w
  <1>5. /\ gw' \in [Ids -> GatewayObject \cup {None}]
        /\ gw'[n] # None /\ gw'[n].name = o
        /\ \A i \in Ids : i # n => gw'[i] = gw[i]
    BY <1>3, <1>4 DEF n, w, IInv, StateOK
  <1>6. n \in Own(o)
    <2>1. CASE job[k].id = None
      BY <1>2, <1>3, <2>1 DEF Unused, Own, Refs, Holds
    <2>2. CASE job[k].id # None
      BY <1>1, <1>3, <2>2 DEF IInv, NoSharing, Refs, Holds
    <2>. QED
      BY <2>1, <2>2
  <1>7. \A i \in Ids : gw[i] # None /\ gw[i].name = o => i = job[k].id
    BY DEF Accepted
  <1>. QED
    BY <1>3, <1>5, <1>6, <1>7 DEF n, Stored

LEMMA UpsertKeeps ==
  ASSUME IInv, NEW k \in Kinds, Upsert(k), UNCHANGED population
  PROVE  IInv'
  <1>1. job[k] \in Job /\ job[k] # None /\ job[k].stage = "upsert"
    BY DEF Upsert, Running, IInv, StateOK
  <1>2. PICK o \in Objects : job[k].obj = o
    BY <1>1 DEF Job
  <1>3. CASE ~Accepted(job[k])
    <2>. DEFINE f == [job[k] EXCEPT !.stage = "failed"]
    <2>1. /\ f \in Job /\ f.obj = job[k].obj /\ f.id = job[k].id /\ f.fresh = job[k].fresh
          /\ f.stage = "failed"
          /\ job' = [job EXCEPT ![k] = f]
          /\ queue \in [Objects -> BOOLEAN]
      BY <1>3, Failed DEF Upsert, IInv
    <2>. HIDE DEF f
    <2>. QED
      BY Zenon, <1>1, <1>3, <2>1, PlainStep DEF Upsert, AfterFinalizer
  <1>4. CASE Accepted(job[k])
    <2>0. PICK n \in Own(o) : Stored(k, o, n)
      BY <1>2, <1>4, Stores DEF Upsert
    <2>1. /\ n = WriteTo(job[k])
          /\ gw' \in [Ids -> GatewayObject \cup {None}]
          /\ gw'[n] # None /\ gw'[n].name = o
          /\ \A i \in Ids : i # n => gw'[i] = gw[i]
          /\ \A i \in Ids : gw[i] # None /\ gw[i].name = o => i = n
      BY <2>0, OperatorAssumption DEF Stored
    <2>. DEFINE j == [job[k] EXCEPT !.stage = "status", !.id = n]
    <2>2. n \in Ids
      BY DEF Own
    <2>3. j \in Job /\ j # None /\ j.obj = o /\ j.id = n /\ j.stage = "status"
          /\ j.fresh = job[k].fresh
      BY <1>1, <1>2, <2>2, NoneAssumption, Zenon DEF Job
    <2>4. job' = [job EXCEPT ![k] = j] /\ UNCHANGED <<cr, cache, behind, queue, lost>>
      BY <1>4, <2>1, Zenon DEF Upsert, IInv, StateOK
    <2>. HIDE DEF j
    <2>5. job'[k] = j /\ \A l \in Kinds : l # k => job'[l] = job[l]
      BY <2>4 DEF IInv, StateOK
    <2>6. Rewrites(k, o, n)
      BY <1>1, <1>2, <2>1, <2>3, <2>4, <2>5 DEF Rewrites, IInv, StateOK
    <2>7. FreshCopy(k)' /\ StatusPending(k)' /\ ReleasePending(k)'
      <3>1. \A i \in Ids : gw'[i] # None /\ gw'[i].name = o => i = n
        BY <2>1, OperatorAssumption
      <3>2. job[k].fresh => cr[o] # None /\ cr[o].finalizer
        BY <1>1, <1>2 DEF IInv, JobOK, FreshCopy, AfterFinalizer
      <3>. QED
        BY <2>1, <2>2, <2>3, <2>4, <2>5, <3>1, <3>2
        DEF FreshCopy, StatusPending, ReleasePending, Running, AfterFinalizer
    <2>8. ~lost'[o] => LinkOf(o)'
      <3>1. \A i \in Ids : gw'[i] # None /\ gw'[i].name = o => i = n
        BY <2>1, OperatorAssumption
      <3>2. Running(k, "status")' /\ job'[k].obj = o /\ job'[k].id = n
        BY <2>3, <2>5 DEF Running
      <3>3. ~lost[o] /\ cr[o] # None /\ cr[o].id # None => gw'[cr[o].id] # None
        <4>1. \A l \in Kinds : Holds(l, o) => l = k
          BY <1>1, <1>2 DEF IInv, JobOK, OwnKind, Holds
        <4>2. ~lost[o] => LinkOf(o)
          BY DEF IInv
        <4>3. cr[o] # None /\ cr[o].id # None => cr[o].id \in Ids
          BY DEF IInv, StateOK, CR
        <4>. QED
          BY <1>1, <2>1, <4>1, <4>2, <4>3 DEF LinkOf, Running, Holds
      <3>. QED
        BY <2>4, <3>1, <3>2, <3>3 DEF LinkOf
    <2>. QED
      BY <2>2, <2>6, <2>7, <2>8, GatewayStep
  <1>. QED
    BY <1>3, <1>4

LEMMA UnansweredKeeps ==
  ASSUME IInv, NEW k \in Kinds, UpsertUnanswered(k), UNCHANGED population
  PROVE  IInv'
  <1>1. job[k] \in Job /\ job[k] # None /\ job[k].stage = "upsert"
    BY DEF UpsertUnanswered, Running, IInv, StateOK
  <1>2. PICK o \in Objects : job[k].obj = o
    BY <1>1 DEF Job
  <1>3. PICK n \in Own(o) : Stored(k, o, n)
    <2>1. /\ Running(k, "upsert") /\ Unused # {} /\ Accepted(job[k])
          /\ gw' = [gw EXCEPT ![WriteTo(job[k])] = Written(job[k])]
      BY DEF UpsertUnanswered
    <2>. QED
      BY Zenon, <1>2, <2>1, Stores
  <1>. DEFINE f == [job[k] EXCEPT !.stage = "failed"]
  <1>4. /\ f \in Job /\ f # None
        /\ f.obj = o /\ f.id = job[k].id /\ f.fresh = job[k].fresh
        /\ f.stage = "failed"
        /\ job' = [job EXCEPT ![k] = f]
    BY <1>2, Failed DEF UpsertUnanswered, IInv
  <1>. HIDE DEF f
  <1>5. job'[k] = f /\ \A l \in Kinds : l # k => job'[l] = job[l]
    BY <1>4 DEF IInv, StateOK
  <1>6. /\ lost' \in [Objects -> BOOLEAN]
        /\ lost[o] \/ job[k].id = None => lost'[o]
        /\ \A p \in Objects : p # o => lost'[p] = lost[p]
    BY Zenon, <1>2 DEF UpsertUnanswered, IInv, StateOK
  <1>7. UNCHANGED <<cr, cache, behind, queue>> /\ n \in Ids
    BY DEF UpsertUnanswered, Own
  <1>8. Rewrites(k, o, n)
    BY <1>1, <1>2, <1>3, <1>4, <1>5, <1>6, <1>7 DEF Stored, Rewrites, IInv, StateOK
  <1>9. FreshCopy(k)' /\ StatusPending(k)' /\ ReleasePending(k)'
    BY <1>1, <1>2, <1>4, <1>5, <1>7
    DEF IInv, JobOK, FreshCopy, StatusPending, ReleasePending, Running, AfterFinalizer
  <1>10. ~lost'[o] => LinkOf(o)'
    <2> SUFFICES ASSUME ~lost[o], job[k].id # None
                 PROVE  LinkOf(o)'
      BY <1>6
    <2>1. \A l \in Kinds : Holds(l, o) => l = k
      BY <1>1, <1>2 DEF IInv, JobOK, OwnKind, Holds
    <2>2. gw[n] # None /\ gw[n].name = o
      <3>1. gw[n] # None /\ gw[n].name \in Objects
        BY <1>3, <1>7 DEF Stored, UpsertUnanswered, Accepted, IInv, StateOK, GatewayObject
      <3>. QED
        BY <3>1 DEF Own, Refs
    <2>3. LinkOf(o) /\ (cr[o] # None /\ cr[o].id # None => cr[o].id \in Ids)
      BY DEF IInv, StateOK, CR
    <2>4. ~Running(k, "status") /\ ~Running(k, "release")
      BY <1>1 DEF Running
    <2>. QED
      BY <1>3, <1>7, <2>1, <2>2, <2>3, <2>4 DEF Stored, LinkOf, Running, Holds
  <1>. QED
    BY <1>7, <1>8, <1>9, <1>10, GatewayStep

\* A delete that the gateway carries out.
LEMMA Removal ==
  ASSUME IInv, NEW k \in Kinds, Running(k, "delete"), job[k].id # None,
         NEW STATE j, j \in Job \cup {None}, job' = [job EXCEPT ![k] = j],
         j # None => /\ j.obj = job[k].obj
                     /\ j.id = job[k].id
                     /\ j.stage = "release"
                     /\ j.fresh => job[k].fresh,
         gw' = [gw EXCEPT ![job[k].id] = None],
         lost' \in [Objects -> BOOLEAN], queue' \in [Objects -> BOOLEAN],
         \A p \in Objects : lost[p] => lost'[p],
         \A p \in Objects : p # job[k].obj => lost'[p] = lost[p],
         j = None => lost'[job[k].obj],
         UNCHANGED <<cr, cache, behind, population>>
  PROVE  IInv'
  <1>1. job[k] # None /\ job[k].stage = "delete" /\ job[k] \in Job
    BY DEF Running, IInv, StateOK
  <1>2. PICK o \in Objects : job[k].obj = o
    BY <1>1 DEF Job
  <1>3. PICK n \in Ids : job[k].id = n
    BY <1>1 DEF Job
  <1>4. job'[k] = j /\ \A l \in Kinds : l # k => job'[l] = job[l]
    BY DEF IInv, StateOK
  <1>5. gw'[n] = None /\ \A i \in Ids : i # n => gw'[i] = gw[i]
    BY <1>3 DEF IInv, StateOK
  <1>6. n \in Own(o)
    BY <1>1, <1>2, <1>3 DEF IInv, NoSharing, Refs, Holds
  <1>7. /\ gw' \in [Ids -> GatewayObject \cup {None}]
        /\ job' \in [Kinds -> Job \cup {None}]
    BY Zenon DEF IInv, StateOK
  <1>8. Rewrites(k, o, n)
    BY <1>1, <1>2, <1>3, <1>4, <1>5, <1>6, <1>7 DEF Rewrites
  <1>9. job'[k] # None => FreshCopy(k)' /\ StatusPending(k)' /\ ReleasePending(k)'
    <2> SUFFICES ASSUME j # None
                 PROVE  FreshCopy(k)' /\ StatusPending(k)' /\ ReleasePending(k)'
      BY Zenon, <1>4
    <2>1. j.obj = o /\ j.id = n /\ j.stage = "release" /\ (j.fresh => job[k].fresh)
      BY Zenon, <1>2, <1>3
    <2>2. FreshCopy(k)'
      <3>1. job[k].fresh => cr[o] # None /\ cr[o].id = n
        BY <1>1, <1>2, <1>3 DEF IInv, JobOK, FreshCopy
      <3>. QED
        BY <1>4, <2>1, <3>1 DEF FreshCopy, AfterFinalizer
    <2>3. StatusPending(k)'
      BY <1>4, <2>1 DEF StatusPending, Running
    <2>4. ReleasePending(k)'
      BY Zenon, <1>4, <1>5, <2>1 DEF ReleasePending
    <2> QED BY <2>2, <2>3, <2>4
  <1>10. ~lost'[o] => LinkOf(o)'
    <2> SUFFICES ASSUME ~lost[o], j # None
                 PROVE  LinkOf(o)'
      BY <1>2
    <2>1. \A l \in Kinds : Holds(l, o) => l = k
      BY <1>1, <1>2 DEF IInv, JobOK, OwnKind, Holds
    <2>2. LinkOf(o) /\ (cr[o] # None /\ cr[o].id # None => cr[o].id \in Ids)
      BY DEF IInv, StateOK, CR
    <2>3. ~Running(k, "status") /\ ~Running(k, "release")
      BY <1>1 DEF Running
    <2>4. Running(k, "release")' /\ job'[k].obj = o /\ job'[k].id = n
      BY <1>2, <1>3, <1>4 DEF Running
    <2>5. ASSUME NEW l \in Kinds, NEW x \in {"status", "release"}, Running(l, x), job[l].obj = o
          PROVE  FALSE
      <3>1. l = k
        BY <2>1, <2>5 DEF Running, Holds
      <3>. QED
        BY <2>3, <2>5, <3>1
    <2>6. ASSUME NEW i \in Ids, gw'[i] # None, gw'[i].name = o
          PROVE  cr[o] # None /\ cr[o].id = i
      <3>1. gw[i] # None /\ gw[i].name = o
        BY Zenon, <1>5, <2>6
      <3>. QED
        BY Zenon, <2>2, <2>5, <3>1 DEF LinkOf
    <2>7. ASSUME cr[o] # None, cr[o].id # None, gw'[cr[o].id] = None
          PROVE  cr[o].id = n
      <3>1. SUFFICES ASSUME cr[o].id # n
                     PROVE  FALSE
        OBVIOUS
      <3>2. gw[cr[o].id] = None
        BY Zenon, <1>5, <2>2, <2>7, <3>1
      <3>. QED
        BY Zenon, <2>2, <2>5, <2>7, <3>2 DEF LinkOf
    <2>8. cr[o] # None /\ cr[o].id # None /\ gw'[cr[o].id] = None =>
            \E l \in Kinds : Running(l, "release")' /\ job'[l].obj = o /\ job'[l].id = cr[o].id
      BY Zenon, <2>4, <2>7
    <2>. QED
      BY Zenon, <2>6, <2>8 DEF LinkOf
  <1>. QED
    BY <1>8, <1>9, <1>10, GatewayStep

LEMMA DeleteObjectKeeps ==
  ASSUME IInv, NEW k \in Kinds, DeleteObject(k), UNCHANGED population
  PROVE  IInv'
  <1>. DEFINE j == [job[k] EXCEPT !.stage = "release"]
  <1>1. job[k] \in Job /\ job[k] # None /\ job[k].stage = "delete" /\ job[k].obj \in Objects
    BY DEF DeleteObject, Running, IInv, StateOK, Job
  <1>2. j \in Job /\ j # None /\ j.obj = job[k].obj /\ j.id = job[k].id /\ j.stage = "release"
        /\ j.fresh = job[k].fresh
    BY <1>1, NoneAssumption DEF Job
  <1>3. [job EXCEPT ![k].stage = "release"] = [job EXCEPT ![k] = j]
    BY DEF IInv, StateOK
  <1>4. UNCHANGED <<cr, cache, behind, lost>>
        /\ lost \in [Objects -> BOOLEAN] /\ queue \in [Objects -> BOOLEAN]
    BY DEF DeleteObject, IInv, StateOK
  <1>. HIDE DEF j
  <1>5. CASE job[k].id = None
    <2>1. job' = [job EXCEPT ![k] = j] /\ UNCHANGED <<gw, queue>>
      BY <1>3, <1>5 DEF DeleteObject, Advance
    <2>. QED
      BY Zenon, <1>1, <1>2, <1>4, <1>5, <2>1, PlainStep
  <1>6. CASE job[k].id # None /\ Deletable(job[k].id)
    <2>1. /\ job' = [job EXCEPT ![k] = j]
          /\ gw' = [gw EXCEPT ![job[k].id] = None]
          /\ UNCHANGED queue
      BY <1>3, <1>6 DEF DeleteObject, Advance
    <2>. QED
      BY Zenon, <1>1, <1>2, <1>4, <1>6, <2>1, Removal DEF Running
  <1>7. CASE job[k].id # None /\ ~Deletable(job[k].id)
    <2>1. job' = [job EXCEPT ![k] = None] /\ UNCHANGED gw /\ queue' \in [Objects -> BOOLEAN]
      BY <1>4, <1>7, Zenon DEF DeleteObject, Return
    <2>. QED
      BY Zenon, <1>1, <1>4, <2>1, PlainStep
  <1>. QED
    BY <1>5, <1>6, <1>7

LEMMA DeleteUnansweredKeeps ==
  ASSUME IInv, NEW k \in Kinds, DeleteUnanswered(k), UNCHANGED population
  PROVE  IInv'
  <1>1. job[k].obj \in Objects
    BY DEF DeleteUnanswered, Running, IInv, StateOK, Job
  <1>2. /\ lost' \in [Objects -> BOOLEAN] /\ lost'[job[k].obj]
        /\ \A p \in Objects : lost[p] => lost'[p]
        /\ \A p \in Objects : p # job[k].obj => lost'[p] = lost[p]
    BY <1>1 DEF DeleteUnanswered, IInv, StateOK
  <1>3. queue' \in [Objects -> BOOLEAN] /\ job' = [job EXCEPT ![k] = None]
    BY <1>1 DEF DeleteUnanswered, Return, IInv, StateOK
  <1>4. /\ Running(k, "delete") /\ job[k].id # None
        /\ gw' = [gw EXCEPT ![job[k].id] = None]
        /\ UNCHANGED <<cr, cache, behind>>
    BY DEF DeleteUnanswered
  <1>. QED
    BY Zenon, <1>2, <1>3, <1>4, Removal

-----------------------------------------------------------------------------
LEMMA RestartKeeps ==
  ASSUME IInv, Restart, UNCHANGED population
  PROVE  IInv'
  <1>. USE DEF Restart
  <1>1. StateOK' /\ CacheCurrent' /\ \A k \in Kinds : JobOK(k)'
    BY DEF IInv, StateOK, CacheCurrent, JobOK, OwnKind, FreshCopy, StatusPending, ReleasePending,
      Running
  <1>2. NoSharing'
    <2>1. \A o \in Objects : Refs(o)' \subseteq Refs(o)
      BY DEF Refs, Holds
    <2>. QED
      BY <2>1 DEF IInv, NoSharing, Own
  <1>3. ASSUME NEW o \in Objects, ~lost'[o]
        PROVE  LinkOf(o)'
    <2>1. LinkOf(o) /\ \A k \in Kinds : job[k] # None /\ job[k].obj = o => ~Unrecorded(job[k])
      BY <1>3, Zenon DEF IInv
    <2>2. ASSUME NEW k \in Kinds, Running(k, "status"), job[k].obj = o
          PROVE  cr[o] # None /\ cr[o].id = job[k].id
      BY <2>1, <2>2 DEF Unrecorded, Running
    <2>3. ASSUME NEW k \in Kinds, Running(k, "release"), job[k].obj = o
          PROVE  job[k].id = None
      BY <2>1, <2>3 DEF Unrecorded, Running
    <2>. QED
      BY <2>1, <2>2, <2>3 DEF LinkOf
  <1>. QED
    BY <1>1, <1>2, <1>3 DEF IInv

LEMMA InitHolds == Init => IInv
  <1>. SUFFICES ASSUME Init
                PROVE  IInv
    OBVIOUS
  <1>1. StateOK /\ CacheCurrent
    BY DEF Init, StateOK, CacheCurrent
  <1>2. \A k \in Kinds : job[k] = None
    BY DEF Init
  <1>3. \A o \in Objects : cr[o] = None /\ cache[o] = None
    BY DEF Init
  <1>4. NoSharing
    BY <1>2, <1>3 DEF NoSharing, Own, Refs, Holds, Init
  <1>5. \A k \in Kinds : JobOK(k)
    BY <1>2 DEF JobOK, OwnKind, FreshCopy, StatusPending, ReleasePending, Running
  <1>6. \A o \in Objects : LinkOf(o)
    BY <1>2, <1>3 DEF LinkOf, Running, Init
  <1>. QED
    BY <1>1, <1>4, <1>5, <1>6 DEF IInv

LEMMA NextKeeps ==
  ASSUME IInv, [Next]_<<vars, population>>
  PROVE  IInv'
  <1>1. CASE UNCHANGED <<vars, population>>
    <2>. UNCHANGED <<cr, cache, behind, gw, job, queue, lost, population>>
      BY <1>1 DEF vars
    <2>1. StateOK'
      BY DEF IInv, StateOK
    <2>2. CacheCurrent'
      BY DEF IInv, CacheCurrent
    <2>3. NoSharing'
      BY DEF IInv, NoSharing, Own, Refs, Holds
    <2>4. ASSUME NEW k \in Kinds
          PROVE  JobOK(k)'
      <3>1. JobOK(k)
        BY DEF IInv
      <3>. QED
        BY <3>1 DEF JobOK, OwnKind, FreshCopy, StatusPending, ReleasePending, Running
    <2>5. ASSUME NEW o \in Objects, ~lost'[o]
          PROVE  LinkOf(o)'
      <3>1. LinkOf(o)
        BY <2>5 DEF IInv
      <3>. QED
        BY <3>1 DEF LinkOf, Running
    <2>. QED
      BY <2>1, <2>2, <2>3, <2>4, <2>5 DEF IInv
  <1>2. CASE Next
    <2>. UNCHANGED population
      BY <1>2 DEF Next
    <2>1. CASE Interfere
      BY <2>1, CreateKeeps, EditKeeps, DeleteKeeps, UnansweredKeeps, UnsentKeeps,
        DeleteUnansweredKeeps, RestartKeeps DEF Interfere
    <2>2. CASE \E o \in Objects : Watch(o) \/ Start(o)
      BY <2>2, WatchKeeps, StartKeeps
    <2>3. CASE \E k \in Kinds : Work(k)
      BY <2>3, AddFinalizerKeeps, ResolveKeeps, UpsertKeeps, WriteStatusKeeps,
        DeleteObjectKeeps, ReleaseKeeps DEF Work
    <2>. QED
      BY <1>2, <2>1, <2>2, <2>3 DEF Next
  <1>. QED
    BY <1>1, <1>2

\* For any number of CRs of the three kinds, reconciled from stale caches and
\* edited, deleted, cut off and restarted at any step: the operator keeps the
\* link between a CR and its gateway object, save where lost says otherwise.
THEOREM LinkIsKept == Spec => []LinkKept
  <1>1. IInv => LinkKept
    BY DEF IInv, LinkOf, LinkKept, Running
  <1>. QED
    BY <1>1, InitHolds, NextKeeps, PTL DEF Spec

\* Every write of the Ready condition gives it one of its values.
LEMMA SaidTyped ==
  ASSUME said \in [Objects -> Conditions], [Next]_<<vars, population>>
  PROVE  said' \in [Objects -> Conditions]
  <1>1. ASSUME NEW o, NEW x \in Conditions, said' = [said EXCEPT ![o] = x]
        PROVE  said' \in [Objects -> Conditions]
    BY <1>1, Zenon
  <1>2. "none" \in Conditions /\ \A stage : Verdict(stage) \in Conditions
    BY DEF Conditions, Verdict
  <1>3. CASE UNCHANGED said
    BY <1>3
  <1>4. CASE ~UNCHANGED said /\ Next
    <2>1. CASE \E o \in Objects : \E s \in SpecsOf[o] : Create(o, s) \/ Edit(o, s)
      BY <2>1, <1>1, <1>2 DEF Create, Edit
    <2>2. CASE \E o \in Objects : Delete(o)
      BY <2>2, <1>1, <1>2 DEF Delete
    <2>3. CASE \E k \in Kinds : WriteStatus(k, "status") \/ WriteStatus(k, "failed")
      BY Zenon, <2>3, <1>1, <1>2, <1>3 DEF WriteStatus
    <2>. QED
      BY Zenon, <1>4, <2>1, <2>2, <2>3 DEF Next, Interfere, Work, UpsertUnanswered, UpsertUnsent,
        DeleteUnanswered, DeleteUnsent, Restart, Watch, Start, AddFinalizer, Resolve, Upsert,
        DeleteObject, Release
  <1>. QED
    BY <1>3, <1>4 DEF vars

\* The state stays well-typed, and no CR has an identifier without a finalizer.
THEOREM OperatorTypes == Spec => []TypeOK
  <1>. DEFINE Typed == IInv /\ said \in [Objects -> Conditions]
  <1>1. Init => Typed
    BY InitHolds DEF Init, Conditions
  <1>2. Typed /\ [Next]_<<vars, population>> => Typed'
    BY NextKeeps, SaidTyped
  <1>3. Typed => TypeOK
    BY DEF IInv, TypeOK
  <1>. QED
    BY <1>1, <1>2, <1>3, PTL DEF Spec

\* The removal of a CR that has an identifier finds its object gone, even where
\* the operator has lost track: only Release removes it, with a fresh copy.
THEOREM RemovalIsClean == Spec => CleanRemoval
  <1>1. ASSUME IInv, Next, NEW o \in Objects,
               cr[o] # None, cr'[o] = None, cr[o].id # None
        PROVE  gw[cr[o].id] = None
    <2>. USE DEF IInv
    <2>1. cr \in [Objects -> CR \cup {None}] /\ cr[o] \in CR /\ cr[o].finalizer
      BY <1>1 DEF StateOK
    <2>2. \A p \in Objects : cr[p] # None =>
            /\ \A s \in Specs : [cr[p] EXCEPT !.spec = s] # None
            /\ [cr[p] EXCEPT !.deleting = TRUE] # None
            /\ [cr[p] EXCEPT !.finalizer = TRUE] # None
            /\ \A i \in Ids \cup {None} : [cr[p] EXCEPT !.id = i] # None
      BY <2>1, NoneAssumption, Zenon DEF CR
    <2>3. ASSUME NEW p \in Objects, NEW s \in SpecsOf[p], Create(p, s) \/ Edit(p, s)
          PROVE  FALSE
      BY <1>1, <2>1, <2>2, <2>3 DEF Create, Edit, Put, Specs
    <2>4. ASSUME NEW p \in Objects, Delete(p)
          PROVE  FALSE
      BY <1>1, <2>1, <2>2, <2>4 DEF Delete, Put, CR
    <2>5. ASSUME NEW k \in Kinds, AddFinalizer(k)
          PROVE  FALSE
      BY <1>1, <2>1, <2>2, <2>5, ZenonT(30)
      DEF AddFinalizer, Running, JobOK, FreshCopy, Put, StateOK, Job, CR
    <2>6. ASSUME NEW k \in Kinds, WriteStatus(k, "status") \/ WriteStatus(k, "failed")
          PROVE  FALSE
      <3>1. job[k] \in Job /\ job[k] # None
        BY <1>1, <2>6, Zenon DEF WriteStatus, Running, StateOK
      <3>2. CASE job[k].fresh
        BY <1>1, <2>1, <2>2, <2>6, <3>1, <3>2 DEF WriteStatus, JobOK, FreshCopy, Put, Job
      <3>3. CASE ~job[k].fresh
        BY <1>1, <2>6, <3>3, Zenon DEF WriteStatus
      <3>. QED
        BY <3>2, <3>3
    <2>7. ASSUME NEW k \in Kinds, Release(k)
          PROVE  gw[cr[o].id] = None
      <3>1. job[k] # None /\ job[k].stage = "release" /\ job[k].fresh
        BY <1>1, <2>7, Zenon DEF Release, Running
      <3>2. job[k].obj = o
        BY <1>1, <2>1, <2>7, <3>1 DEF Release, Put
      <3>. QED
        BY <1>1, <3>1, <3>2 DEF JobOK, FreshCopy, ReleasePending, Running
    <2>8. CASE cr' = cr
      BY <1>1, <2>8
    <2>. QED
      BY <1>1, <2>3, <2>4, <2>5, <2>6, <2>7, <2>8, Zenon DEF Next, Interfere, Work, UpsertUnanswered,
        UpsertUnsent, DeleteUnanswered, DeleteUnsent, Restart, Watch, Start, Resolve, Upsert,
        DeleteObject
  <1>2. IInv /\ [Next]_<<vars, population>> =>
          [\A o \in Objects :
             cr[o] # None /\ cr'[o] = None /\ cr[o].id # None => gw[cr[o].id] = None]_vars
    BY <1>1
  <1>. QED
    BY <1>2, InitHolds, NextKeeps, PTL DEF Spec, CleanRemoval
=============================================================================
