----------------------------- MODULE StoreProofs -----------------------------
(***************************************************************************)
(* Proofs about the store and what hangs on it: the API keys, for any      *)
(* number of keys, handlers and requests; the configuration, for any       *)
(* number of routes, upstreams and policies, any request bodies and any    *)
(* interleaving of operations, failed writes and crashes; and the router   *)
(* on top of that, for any number of reload goroutines.  The keys share no *)
(* state with the other two.                                               *)
(***************************************************************************)
EXTENDS KeyStore, Router, TLAPS

(***************************************************************************)
(*                              The API keys                               *)
(***************************************************************************)

\* What the properties rest on: an object's KeyHash is its own hash or blank;
\* an indexed key that this process did not create still has its hash, so a
\* deletion finds the index entry; a key that is stored and known, or held by
\* a validation, is indexed.
KeyInv ==
  /\ KeyTypeOK
  /\ IndexSound
  /\ \A i \in Ids : obj[i] # Nil => obj[i].hash \in {i, Blank} /\ i \in generated
  /\ \A i \in Ids : keyFile[i] # Nil => keyFile[i].hash \in {i, Blank} /\ i \in generated
  /\ \A i \in Ids : hashIndex[i] = i /\ i \notin created => obj[i].hash = i
  /\ \A i \in created : obj[i] # Nil /\ obj[i].hash = Blank
  /\ \A i \in apiKeys : i \in created \/ obj[i].hash # Blank => hashIndex[i] = i
  /\ \A v \in Validators :
       lookup[v] # Nil =>
         /\ lookup[v] \in apiKeys => hashIndex[lookup[v]] = lookup[v]
         /\ valid[v] \/ ~obj[lookup[v]].active

-----------------------------------------------------------------------------
LEMMA KeyInitInv == KeyInit => KeyInv
BY KeyAssumption DEF KeyInit, KeyInv, KeyTypeOK, IndexSound

\* The steps that change no key.
LEMMA QuietStep ==
  ASSUME KeyInv, UNCHANGED <<obj, apiKeys, hashIndex, generated, created, lookup>>, Observe,
         keyFile' \in [Ids -> Key \cup {Nil}],
         \A i \in Ids : keyFile'[i] # Nil => keyFile'[i].hash \in {i, Blank} /\ i \in generated,
         pending' \in [Togglers -> (Ids \X BOOLEAN) \cup {Nil}]
  PROVE  KeyInv'
<1>1. KeyTypeOK'
  BY DEF KeyInv, KeyTypeOK, Observe
<1>2. QED
  BY <1>1 DEF KeyInv, KeyTypeOK, IndexSound, Observe

\* What persist() saves satisfies the file's part of the invariant.
LEMMA SnapshotSound ==
  ASSUME NEW o \in [Ids -> Key \cup {Nil}], NEW ids \in SUBSET Ids, NEW known,
         \A i \in ids : o[i] # Nil => o[i].hash \in {i, Blank} /\ i \in known
  PROVE  /\ Snapshot(o, ids) \in [Ids -> Key \cup {Nil}]
         /\ \A i \in Ids : Snapshot(o, ids)[i] # Nil =>
              Snapshot(o, ids)[i].hash \in {i, Blank} /\ i \in known
BY DEF Snapshot

LEMMA CreateStep ==
  ASSUME KeyInv, NEW id \in Ids, NEW name \in KeyNames, CreateAPIKey(id, name)
  PROVE  KeyInv'
<1> DEFINE key == NewKey(name, id)
           blanked == NewKey(name, Blank)
<1>0. key.hash = id /\ blanked.hash = Blank /\ blanked.active = TRUE
  BY DEF NewKey
<1>1. key \in Key /\ blanked \in Key /\ key # Nil /\ blanked # Nil
  <2>1. key \in Key /\ blanked \in Key
    BY DEF Key, NewKey
  <2> QED BY <2>1, KeyAssumption
<1>2. obj' = [obj EXCEPT ![id] = blanked]
  BY DEF CreateAPIKey
<1>3. /\ id \notin generated
      /\ apiKeys' = apiKeys \cup {id}
      /\ hashIndex' = [hashIndex EXCEPT ![id] = id]
      /\ generated' = generated \cup {id}
      /\ created' = created \cup {id}
      /\ UNCHANGED <<pending, lookup>>
      /\ Observe
  BY DEF CreateAPIKey
<1>4. /\ keyFile' \in [Ids -> Key \cup {Nil}]
      /\ \A i \in Ids : keyFile'[i] # Nil => keyFile'[i].hash \in {i, Blank} /\ i \in generated'
  <2>1. [obj EXCEPT ![id] = key] \in [Ids -> Key \cup {Nil}]
    BY <1>1 DEF KeyInv, KeyTypeOK
  <2>2. \A i \in apiKeys' : [obj EXCEPT ![id] = key][i] # Nil =>
          [obj EXCEPT ![id] = key][i].hash \in {i, Blank} /\ i \in generated'
    BY <1>0, <1>1, <1>3 DEF KeyInv, KeyTypeOK
  <2>3. apiKeys' \in SUBSET Ids
    BY <1>3 DEF KeyInv, KeyTypeOK
  <2>4. keyFile' = Snapshot([obj EXCEPT ![id] = key], apiKeys')
    BY DEF CreateAPIKey
  <2> QED BY Zenon, <2>1, <2>2, <2>3, <2>4, SnapshotSound
<1> HIDE DEF key
<1>5. obj[id] = Nil /\ id \notin apiKeys /\ hashIndex[id] = Nil
  BY <1>3, KeyAssumption DEF KeyInv, KeyTypeOK, IndexSound
<1>6. \A i \in Ids : obj'[i] = IF i = id THEN blanked ELSE obj[i]
  BY <1>2 DEF KeyInv, KeyTypeOK
<1>7. \A h \in Ids \cup {Blank} : hashIndex'[h] = IF h = id THEN id ELSE hashIndex[h]
  BY <1>3 DEF KeyInv, KeyTypeOK
<1> HIDE DEF blanked
<1>8. KeyTypeOK'
  <2>1. obj' \in [Ids -> Key \cup {Nil}]
    BY <1>1, <1>2 DEF KeyInv, KeyTypeOK
  <2>2. \A i \in Ids : obj[i] # Nil => obj'[i] # Nil
    BY <1>1, <1>6
  <2>3. obj'[id] # Nil
    BY <1>1, <1>6
  <2>4. hashIndex' \in [Ids \cup {Blank} -> {i \in Ids : obj'[i] # Nil} \cup {Nil}]
    BY <1>3, <2>2, <2>3 DEF KeyInv, KeyTypeOK
  <2>5. valid' \in [Validators -> BOOLEAN]
    BY <1>3 DEF Observe
  <2> QED BY <1>3, <1>4, <2>1, <2>2, <2>3, <2>4, <2>5 DEF KeyInv, KeyTypeOK
<1>10. \A v \in Validators : lookup[v] # Nil => lookup[v] \in Ids /\ lookup[v] # id
  BY <1>5 DEF KeyInv, KeyTypeOK
<1>11. \A v \in Validators :
         lookup'[v] # Nil =>
           /\ lookup'[v] \in apiKeys' => hashIndex'[lookup'[v]] = lookup'[v]
           /\ valid'[v] \/ ~obj'[lookup'[v]].active
  BY <1>3, <1>6, <1>7, <1>10 DEF KeyInv, KeyTypeOK, Observe
<1>12. IndexSound'
  BY <1>3, <1>7 DEF KeyInv, IndexSound
<1> QED
  BY <1>0, <1>1, <1>3, <1>4, <1>5, <1>6, <1>7, <1>8, <1>11, <1>12, KeyAssumption
  DEF KeyInv, KeyTypeOK

LEMMA DeleteStep ==
  ASSUME KeyInv, NEW id \in Ids, DeleteAPIKey(id)
  PROVE  KeyInv'
<1>1. /\ id \in apiKeys
      /\ hashIndex' = [hashIndex EXCEPT ![obj[id].hash] = Nil]
      /\ apiKeys' = apiKeys \ {id}
      /\ UNCHANGED <<obj, generated, created, pending, lookup>>
      /\ Observe
  BY DEF DeleteAPIKey
<1>2. obj[id] # Nil /\ obj[id].hash \in {id, Blank}
  BY <1>1 DEF KeyInv, KeyTypeOK
<1>3. \A h \in Ids : hashIndex'[h] = IF h = obj[id].hash THEN Nil ELSE hashIndex[h]
  BY <1>1 DEF KeyInv, KeyTypeOK
<1>4. /\ keyFile' \in [Ids -> Key \cup {Nil}]
      /\ \A i \in Ids : keyFile'[i] # Nil => keyFile'[i].hash \in {i, Blank} /\ i \in generated
  <2>1. keyFile' = Snapshot(obj, apiKeys') /\ apiKeys' \in SUBSET Ids
    BY <1>1 DEF DeleteAPIKey, KeyInv, KeyTypeOK
  <2>2. \A i \in apiKeys' : obj[i] # Nil => obj[i].hash \in {i, Blank} /\ i \in generated
    BY <2>1 DEF KeyInv
  <2> QED BY <2>1, <2>2, SnapshotSound DEF KeyInv, KeyTypeOK
<1>5. KeyTypeOK'
  BY <1>1, <1>4 DEF KeyInv, KeyTypeOK, Observe
<1>6. IndexSound'
  BY <1>1, <1>2, <1>3, KeyAssumption DEF KeyInv, IndexSound, KeyTypeOK
<1>7. \A v \in Validators :
         lookup'[v] # Nil =>
           /\ lookup'[v] \in apiKeys' => hashIndex'[lookup'[v]] = lookup'[v]
           /\ valid'[v] \/ ~obj'[lookup'[v]].active
  BY <1>1, <1>2, <1>3, KeyAssumption DEF KeyInv, KeyTypeOK, Observe
<1> QED
  BY <1>1, <1>2, <1>3, <1>4, <1>5, <1>6, <1>7, KeyAssumption DEF KeyInv, KeyTypeOK

LEMMA DeleteFailsStep ==
  ASSUME KeyInv, NEW id \in Ids, DeleteFails(id)
  PROVE  KeyInv'
<1>1. /\ id \in apiKeys
      /\ hashIndex' = [hashIndex EXCEPT ![obj[id].hash] = id]
      /\ UNCHANGED <<obj, apiKeys, keyFile, generated, created, pending, lookup>>
      /\ Observe
  BY DEF DeleteFails
<1>2. obj[id] # Nil /\ obj[id].hash \in {id, Blank}
  BY <1>1 DEF KeyInv, KeyTypeOK
<1>3. \A h \in Ids : hashIndex'[h] = hashIndex[h]
  BY <1>1, <1>2, KeyAssumption DEF KeyInv, KeyTypeOK
<1>4. KeyTypeOK'
  BY <1>1, <1>2 DEF KeyInv, KeyTypeOK, Observe
<1>5. IndexSound'
  BY <1>1, <1>3 DEF KeyInv, IndexSound
<1>6. \A v \in Validators :
         lookup'[v] # Nil =>
           /\ lookup'[v] \in apiKeys' => hashIndex'[lookup'[v]] = lookup'[v]
           /\ valid'[v] \/ ~obj'[lookup'[v]].active
  BY <1>1, <1>3 DEF KeyInv, KeyTypeOK, Observe
<1> QED
  BY <1>1, <1>3, <1>4, <1>5, <1>6 DEF KeyInv, KeyTypeOK

LEMMA RestartStep ==
  ASSUME KeyInv, RestartStore
  PROVE  KeyInv'
<1>1. \A h \in Ids : hashIndex'[h] = IF keyFile[h] # Nil /\ keyFile[h].hash = h THEN h ELSE Nil
  BY DEF RestartStore
<1>2. hashIndex' \in [Ids \cup {Blank} -> {i \in Ids : obj'[i] # Nil} \cup {Nil}]
  BY DEF RestartStore
<1>3. KeyTypeOK'
  BY <1>2 DEF RestartStore, KeyInv, KeyTypeOK, Observe
<1>4. IndexSound'
  BY <1>1 DEF RestartStore, IndexSound
<1> QED
  BY <1>1, <1>3, <1>4, KeyAssumption DEF RestartStore, KeyInv, KeyTypeOK

\* Both outcomes of a toggle whose key is still there.
LEMMA ToggleStep ==
  ASSUME KeyInv, NEW t \in Togglers, ToggleAPIKey(t) \/ ToggleFails(t)
  PROVE  KeyInv'
<1> DEFINE id == pending[t][1]
<1>1. /\ id \in apiKeys
      /\ obj' = Toggled(t)
      /\ pending' = [pending EXCEPT ![t] = Nil]
      /\ UNCHANGED <<apiKeys, hashIndex, generated, created, lookup>>
      /\ Observe
      /\ keyFile' = Snapshot(obj', apiKeys) \/ keyFile' = keyFile
  BY DEF ToggleAPIKey, ToggleFails
<1>2. pending[t] \in Ids \X BOOLEAN
  BY DEF ToggleAPIKey, ToggleFails, KeyInv, KeyTypeOK
<1>3. obj[id] \in Key /\ obj[id] # Nil /\ id \in Ids
  BY <1>1 DEF KeyInv, KeyTypeOK
<1> DEFINE toggled == [obj[id] EXCEPT !.active = pending[t][2]]
<1>4. toggled \in Key /\ toggled.hash = obj[id].hash
  BY <1>2, <1>3 DEF Key
<1>5. toggled # Nil
  BY <1>4, KeyAssumption
<1>6. obj' = [obj EXCEPT ![id] = toggled]
  BY <1>1 DEF Toggled
<1> HIDE DEF toggled
<1>7. \A i \in Ids : obj'[i] = IF i = id THEN toggled ELSE obj[i]
  BY <1>6 DEF KeyInv, KeyTypeOK
<1>8. obj' \in [Ids -> Key \cup {Nil}]
  BY Zenon, <1>4, <1>6 DEF KeyInv, KeyTypeOK
<1>9. \A i \in Ids : /\ obj'[i] # Nil <=> obj[i] # Nil
                     /\ obj[i] # Nil => obj'[i].hash = obj[i].hash
  BY <1>3, <1>4, <1>5, <1>7
<1>10. /\ keyFile' \in [Ids -> Key \cup {Nil}]
       /\ \A i \in Ids : keyFile'[i] # Nil => keyFile'[i].hash \in {i, Blank} /\ i \in generated
  <2>1. \A i \in apiKeys : obj'[i] # Nil => obj'[i].hash \in {i, Blank} /\ i \in generated
    BY <1>9 DEF KeyInv, KeyTypeOK
  <2>2. apiKeys \in SUBSET Ids
    BY DEF KeyInv, KeyTypeOK
  <2>3. CASE keyFile' = Snapshot(obj', apiKeys)
    BY <1>8, <2>1, <2>2, <2>3, SnapshotSound
  <2>4. CASE keyFile' = keyFile
    BY <2>4 DEF KeyInv, KeyTypeOK
  <2> QED BY <1>1, <2>3, <2>4
<1>11. KeyTypeOK'
  <2>1. {i \in Ids : obj'[i] # Nil} = {i \in Ids : obj[i] # Nil}
    BY <1>9
  <2> QED BY <1>1, <1>2, <1>8, <1>10, <2>1 DEF KeyInv, KeyTypeOK, Observe
<1>12. IndexSound'
  BY <1>1 DEF KeyInv, IndexSound
<1>13. ASSUME NEW v \in Validators, lookup[v] # Nil
       PROVE  /\ lookup[v] \in apiKeys => hashIndex[lookup[v]] = lookup[v]
              /\ valid'[v] \/ ~obj'[lookup[v]].active
  <2>1. lookup[v] \in Ids
    BY <1>13 DEF KeyInv, KeyTypeOK
  <2>2. lookup[v] \in apiKeys => hashIndex[lookup[v]] = lookup[v]
    BY <1>13 DEF KeyInv
  <2>3. CASE lookup[v] = id
    BY <1>1, <1>13, <2>1, <2>2, <2>3, KeyAssumption DEF Observe, AcceptedBy
  <2>4. CASE lookup[v] # id
    BY Zenon, <1>1, <1>7, <1>13, <2>1, <2>4 DEF KeyInv, Observe
  <2> QED BY <2>2, <2>3, <2>4
<1> HIDE DEF id
<1>14. \A i \in Ids : obj'[i] # Nil => obj'[i].hash \in {i, Blank} /\ i \in generated
  BY <1>9 DEF KeyInv
<1>15. \A i \in Ids : hashIndex[i] = i /\ i \notin created => obj'[i].hash = i
  BY <1>9 DEF KeyInv, KeyTypeOK
<1>16. \A i \in created : obj'[i] # Nil /\ obj'[i].hash = Blank
  BY <1>9 DEF KeyInv, KeyTypeOK
<1>17. \A i \in apiKeys : i \in created \/ obj'[i].hash # Blank => hashIndex[i] = i
  BY <1>9 DEF KeyInv, KeyTypeOK
<1> QED
  BY Zenon, <1>1, <1>10, <1>11, <1>12, <1>13, <1>14, <1>15, <1>16, <1>17 DEF KeyInv

LEMMA LookupStep ==
  ASSUME KeyInv, NEW v \in Validators, NEW h \in Ids, Lookup(v, h)
  PROVE  KeyInv'
<1>1. /\ lookup[v] = Nil
      /\ hashIndex[h] = h
      /\ obj[h] # Nil
      /\ lookup' = [lookup EXCEPT ![v] = h]
      /\ UNCHANGED <<keyVars, pending>>
      /\ Observe
  BY Zenon DEF Lookup, KeyInv, KeyTypeOK, IndexSound
<1>2. KeyTypeOK'
  BY <1>1 DEF KeyInv, KeyTypeOK, keyVars, Observe
<1>3. ASSUME NEW w \in Validators, lookup'[w] # Nil
      PROVE  /\ lookup'[w] \in apiKeys => hashIndex[lookup'[w]] = lookup'[w]
             /\ valid'[w] \/ ~obj[lookup'[w]].active
  <2>1. CASE w = v
    <3>1. lookup'[w] = h
      BY <1>1, <2>1 DEF KeyInv, KeyTypeOK
    <3> QED BY Zenon, <1>1, <1>3, <3>1, KeyAssumption DEF Observe, AcceptedBy, keyVars
  <2>2. CASE w # v
    BY <1>1, <1>3, <2>2 DEF KeyInv, KeyTypeOK, Observe, keyVars
  <2> QED BY <2>1, <2>2
<1> QED
  BY Zenon, <1>1, <1>2, <1>3 DEF KeyInv, KeyTypeOK, IndexSound, keyVars

LEMMA DecideStep ==
  ASSUME KeyInv, NEW v \in Validators, Decide(v)
  PROVE  KeyInv'
<1>1. /\ lookup' = [lookup EXCEPT ![v] = Nil]
      /\ UNCHANGED <<keyVars, pending>>
      /\ Observe
  BY DEF Decide
<1>2. KeyTypeOK'
  BY <1>1 DEF KeyInv, KeyTypeOK, keyVars, Observe
<1>3. ASSUME NEW w \in Validators, lookup'[w] # Nil
      PROVE  /\ lookup'[w] \in apiKeys => hashIndex[lookup'[w]] = lookup'[w]
             /\ valid'[w] \/ ~obj[lookup'[w]].active
  BY <1>1, <1>3 DEF KeyInv, KeyTypeOK, Observe, keyVars
<1> QED
  BY <1>1, <1>2, <1>3 DEF KeyInv, KeyTypeOK, IndexSound, keyVars

LEMMA CreateFailsStep ==
  ASSUME KeyInv, NEW id \in Ids, NEW name \in KeyNames, CreateFails(id, name)
  PROVE  KeyInv'
<1>1. KeyTypeOK'
  BY DEF CreateFails, KeyInv, KeyTypeOK, Observe
<1> QED
  BY <1>1 DEF CreateFails, KeyInv, KeyTypeOK, IndexSound, Observe

\* One step preserves the inductive invariant.
LEMMA KeyNextInv == KeyInv /\ [KeyNext]_keyStoreVars => KeyInv'
<1> SUFFICES ASSUME KeyInv, [KeyNext]_keyStoreVars
             PROVE  KeyInv'
  OBVIOUS
<1>1. CASE OtherOperation
  <2>1. /\ keyFile' \in [Ids -> Key \cup {Nil}]
        /\ \A i \in Ids : keyFile'[i] # Nil => keyFile'[i].hash \in {i, Blank} /\ i \in generated
    BY Zenon, <1>1, SnapshotSound DEF OtherOperation, KeyInv, KeyTypeOK
  <2> QED BY Zenon, <1>1, <2>1, QuietStep DEF OtherOperation, KeyInv, KeyTypeOK
<1>2. ASSUME NEW t \in Togglers, NEW id \in Ids, GetAPIKey(t, id)
      PROVE  KeyInv'
  <2>1. <<id, ~obj[id].active>> \in Ids \X BOOLEAN
    BY Zenon DEF KeyInv, KeyTypeOK
  <2>2. pending' \in [Togglers -> (Ids \X BOOLEAN) \cup {Nil}]
    BY Zenon, <1>2, <2>1 DEF GetAPIKey, KeyInv, KeyTypeOK
  <2> QED BY Zenon, <1>2, <2>2, QuietStep DEF GetAPIKey, keyVars, KeyInv, KeyTypeOK
<1>3. ASSUME NEW t \in Togglers, ToggleNotFound(t)
      PROVE  KeyInv'
  <2>1. pending' \in [Togglers -> (Ids \X BOOLEAN) \cup {Nil}]
    BY <1>3 DEF ToggleNotFound, KeyInv, KeyTypeOK
  <2> QED BY Zenon, <1>3, <2>1, QuietStep DEF ToggleNotFound, keyVars, KeyInv, KeyTypeOK
<1>4. CASE UNCHANGED keyStoreVars
  BY <1>4 DEF keyStoreVars, keyVars, KeyInv, KeyTypeOK, IndexSound
<1> QED
  BY <1>1, <1>2, <1>3, <1>4, CreateStep, CreateFailsStep, DeleteStep, DeleteFailsStep,
     ToggleStep, LookupStep, DecideStep, RestartStep
  DEF KeyNext

LEMMA KeyInvariance == KeySpec => []KeyInv
BY KeyInitInv, KeyNextInv, PTL DEF KeySpec

-----------------------------------------------------------------------------
(* The theorems *)

\* The key store keeps its typing: no map points to a missing object.
THEOREM KeyTypeCorrect == KeySpec => []KeyTypeOK
<1>1. KeyInv => KeyTypeOK
  BY DEF KeyInv
<1> QED BY KeyInvariance, <1>1, PTL

\* Every indexed hash leads to its own key, which is registered or was created
\* by this process.
THEOREM SoundIndex == KeySpec => []IndexSound
<1>1. KeyInv => IndexSound
  BY DEF KeyInv
<1> QED BY KeyInvariance, <1>1, PTL

\* A stored key whose hash is known is accepted exactly while it is active.
THEOREM KnownKeys == KeySpec => []KnownKeysDecided
<1>1. KeyInv => KnownKeysDecided
  BY KeyAssumption DEF KeyInv, KeyTypeOK, KnownKeysDecided, Accepts, AcceptedBy
<1> QED BY KeyInvariance, <1>1, PTL

\* The two unprotected reads of ValidateAPIKey act as one.
THEOREM AtomicValidation == KeySpec => ValidationAtomic
<1>1. KeyInv /\ [KeyNext]_keyStoreVars =>
        [\A v \in Validators : Decide(v) /\ obj[lookup[v]].active => valid[v]]_keyStoreVars
  BY DEF KeyInv, Decide
<1> QED BY KeyInvariance, <1>1, PTL DEF KeySpec, ValidationAtomic

(***************************************************************************)
(*                            The configuration                            *)
(***************************************************************************)

(***************************************************************************)
(* The inductive invariant.  Beyond the properties it says how far the     *)
(* running operation has come: undo is set exactly while an operation      *)
(* runs, the operation has changed one object of a consistent memory, the  *)
(* temporary file is complete before it is renamed, and the file still     *)
(* holds what memory held before the operation.                            *)
(***************************************************************************)
IInv ==
  /\ TypeOK
  /\ disk \in Config
  /\ Consistent(mem)
  /\ Consistent(disk)
  /\ phase = "idle" <=> undo = None
  /\ undo # None => Consistent(undo) /\ Change(undo, mem)
  /\ op = "toggle" => undo # None /\ Toggle(undo, mem)
  /\ phase = "rename" => tmp = mem
  /\ ~dirty => Served = disk

-----------------------------------------------------------------------------
(* Changing one entry of a map *)

\* Replacing one entry by an object whose name is free keeps names unique.
LEMMA UniqueAfterSet ==
  ASSUME NEW I, NEW map, DOMAIN map = I, NamesUnique(map),
         NEW id \in I, NEW o, o # None => NameFree(map, o.name, id)
  PROVE  NamesUnique([map EXCEPT ![id] = o])
BY DEF NamesUnique, NameFree

\* SetRoute with a checked body, or a removal, is a consistent change.
LEMMA SetRouteOK ==
  ASSUME mem \in Config, Consistent(mem), NEW id \in RouteIds,
         NEW r \in Route \cup {None},
         r # None => NameFree(mem.routes, r.name, id) /\ Resolves(r.upstreamID)
  PROVE  /\ SetRoute(id, r) \in Config
         /\ Consistent(SetRoute(id, r))
         /\ Change(mem, SetRoute(id, r))
PROOF
  <1> DEFINE d == SetRoute(id, r)
  <1>1. d \in Config
    BY DEF SetRoute, Config
  <1>2. /\ d.routes = [mem.routes EXCEPT ![id] = r]
        /\ d.upstreams = mem.upstreams
        /\ d.policies = mem.policies
    BY DEF SetRoute, Config
  <1>3. NamesUnique(d.routes)
    <2>1. DOMAIN mem.routes = RouteIds
      BY DEF Config
    <2>2. NamesUnique(mem.routes)
      BY Zenon DEF Consistent
    <2>3. NamesUnique([mem.routes EXCEPT ![id] = r])
      BY Zenon, <2>1, <2>2, UniqueAfterSet
    <2> QED BY Zenon, <1>2, <2>3
  <1>4. Consistent(d)
    <2>1. ASSUME NEW i \in RouteIds, d.routes[i] # None, d.routes[i].upstreamID # None
          PROVE  d.upstreams[d.routes[i].upstreamID] # None
      BY <2>1, <1>2 DEF Consistent, Resolves, Config, Route
    <2> QED BY <2>1, <1>2, <1>3 DEF Consistent
  <1>5. d = [mem EXCEPT !.routes[id] = d.routes[id]]
    BY <1>2 DEF SetRoute, Config
  <1> QED BY <1>1, <1>4, <1>5 DEF Change

\* SetUpstream with a checked body, or the removal of an upstream that no
\* route uses, is a consistent change.
LEMMA SetUpstreamOK ==
  ASSUME mem \in Config, Consistent(mem), NEW id \in UpstreamIds,
         NEW u \in Upstream \cup {None},
         u # None => NameFree(mem.upstreams, u.name, id),
         u = None => \A i \in RouteIds :
                       mem.routes[i] # None => mem.routes[i].upstreamID # id
  PROVE  /\ SetUpstream(id, u) \in Config
         /\ Consistent(SetUpstream(id, u))
         /\ Change(mem, SetUpstream(id, u))
PROOF
  <1> DEFINE d == SetUpstream(id, u)
  <1>1. d \in Config
    BY DEF SetUpstream, Config
  <1>2. /\ d.upstreams = [mem.upstreams EXCEPT ![id] = u]
        /\ d.routes = mem.routes
        /\ d.policies = mem.policies
    BY DEF SetUpstream, Config
  <1>3. NamesUnique(d.upstreams)
    <2>1. DOMAIN mem.upstreams = UpstreamIds
      BY DEF Config
    <2>2. NamesUnique(mem.upstreams)
      BY Zenon DEF Consistent
    <2>3. NamesUnique([mem.upstreams EXCEPT ![id] = u])
      BY Zenon, <2>1, <2>2, UniqueAfterSet
    <2> QED BY Zenon, <1>2, <2>3
  <1>4. Consistent(d)
    <2>1. ASSUME NEW i \in RouteIds, d.routes[i] # None, d.routes[i].upstreamID # None
          PROVE  d.upstreams[d.routes[i].upstreamID] # None
      <3>1. mem.routes[i] # None /\ mem.routes[i].upstreamID # None
        BY Zenon, <1>2, <2>1
      <3>2. mem.upstreams[mem.routes[i].upstreamID] # None
        BY Zenon, <3>1 DEF Consistent
      <3>3. mem.routes[i].upstreamID \in UpstreamIds
        BY <3>1 DEF Config, Route
      <3>4. DOMAIN mem.upstreams = UpstreamIds
        BY DEF Config
      <3> QED BY <1>2, <3>1, <3>2, <3>3, <3>4
    <2> QED BY <2>1, <1>2, <1>3 DEF Consistent
  <1>5. d = [mem EXCEPT !.upstreams[id] = d.upstreams[id]]
    BY <1>2 DEF SetUpstream, Config
  <1> QED BY <1>1, <1>4, <1>5 DEF Change

\* SetPolicy with a checked body, or a removal, is a consistent change.
LEMMA SetPolicyOK ==
  ASSUME mem \in Config, Consistent(mem), NEW id \in PolicyIds,
         NEW p \in Policy \cup {None},
         p # None => NameFree(mem.policies, p.name, id)
  PROVE  /\ SetPolicy(id, p) \in Config
         /\ Consistent(SetPolicy(id, p))
         /\ Change(mem, SetPolicy(id, p))
PROOF
  <1> DEFINE d == SetPolicy(id, p)
  <1>1. d \in Config
    BY DEF SetPolicy, Config
  <1>2. /\ d.policies = [mem.policies EXCEPT ![id] = p]
        /\ d.routes = mem.routes
        /\ d.upstreams = mem.upstreams
    BY DEF SetPolicy, Config
  <1>3. NamesUnique(d.policies)
    <2>1. DOMAIN mem.policies = PolicyIds
      BY DEF Config
    <2>2. NamesUnique(mem.policies)
      BY Zenon DEF Consistent
    <2>3. NamesUnique([mem.policies EXCEPT ![id] = p])
      BY Zenon, <2>1, <2>2, UniqueAfterSet
    <2> QED BY Zenon, <1>2, <2>3
  <1>4. Consistent(d)
    BY <1>2, <1>3 DEF Consistent
  <1>5. d = [mem EXCEPT !.policies[id] = d.policies[id]]
    BY <1>2 DEF SetPolicy, Config
  <1> QED BY <1>1, <1>4, <1>5 DEF Change

-----------------------------------------------------------------------------
(* The steps *)

LEMMA InitIInv == Init => IInv
PROOF
  <1> SUFFICES ASSUME Init
               PROVE  IInv
    OBVIOUS
  <1>1. Empty \in Config
    BY DEF Empty, Config
  <1>2. Consistent(Empty)
    BY DEF Empty, Consistent, NamesUnique
  <1> QED BY Zenon, <1>1, <1>2 DEF Init, IInv, TypeOK, Served

\* An operation that starts with a consistent change keeps the invariant.
LEMMA BeginIInv ==
  ASSUME IInv, NEW new \in Config, NEW kind \in {"change", "toggle", "key"},
         Begin(kind, new), Consistent(new), Change(mem, new),
         kind = "toggle" => Toggle(mem, new),
         used' \subseteq RouteIds \cup UpstreamIds \cup PolicyIds
  PROVE  IInv'
PROOF
  <1>1. mem \in Config /\ mem # None
    BY StoreAssumption DEF IInv, TypeOK
  <1>2. TypeOK'
    BY <1>1 DEF IInv, TypeOK, Begin
  <1>3. Consistent(mem)' /\ Consistent(disk)'
    BY Zenon DEF Begin, IInv, Consistent
  <1>4. (Consistent(undo) /\ Change(undo, mem))'
    BY DEF Begin, IInv, Consistent, Change
  <1>5. (op = "toggle" => Toggle(undo, mem))'
    BY DEF Begin, Toggle
  <1> QED BY <1>1, <1>2, <1>3, <1>4, <1>5 DEF Begin, IInv, Served

\* Toggling an existing route changes one object and nothing a check reads.
LEMMA ToggleRouteOK ==
  ASSUME IInv, NEW id \in RouteIds, NEW active \in BOOLEAN, mem.routes[id] # None
  PROVE  LET new == SetRoute(id, [mem.routes[id] EXCEPT !.active = active])
         IN  /\ new \in Config
             /\ Consistent(new)
             /\ Change(mem, new)
             /\ Toggle(mem, new)
PROOF
  <1> DEFINE r == [mem.routes[id] EXCEPT !.active = active]
             new == SetRoute(id, r)
  <1>1. mem \in Config /\ Consistent(mem) /\ mem.routes[id] \in Route
    BY DEF IInv, TypeOK, Config
  <1>2. /\ r \in Route
        /\ r.name = mem.routes[id].name
        /\ r.upstreamID = mem.routes[id].upstreamID
    BY <1>1 DEF Route
  <1>3. NameFree(mem.routes, r.name, id) /\ Resolves(r.upstreamID)
    BY <1>1, <1>2 DEF NameFree, Resolves, Consistent, NamesUnique, Config
  <1> HIDE DEF r
  <1>4. new \in Config /\ Consistent(new) /\ Change(mem, new)
    BY <1>1, <1>2, <1>3, SetRouteOK
  <1>5. Toggle(mem, new)
    BY DEF Toggle, SetRoute, r
  <1> QED BY <1>4, <1>5 DEF r

LEMMA TogglePolicyOK ==
  ASSUME IInv, NEW id \in PolicyIds, NEW active \in BOOLEAN, mem.policies[id] # None
  PROVE  LET new == SetPolicy(id, [mem.policies[id] EXCEPT !.active = active])
         IN  /\ new \in Config
             /\ Consistent(new)
             /\ Change(mem, new)
             /\ Toggle(mem, new)
PROOF
  <1> DEFINE p == [mem.policies[id] EXCEPT !.active = active]
             new == SetPolicy(id, p)
  <1>1. mem \in Config /\ Consistent(mem) /\ mem.policies[id] \in Policy
    BY DEF IInv, TypeOK, Config
  <1>2. p \in Policy /\ p.name = mem.policies[id].name
    BY <1>1 DEF Policy
  <1>3. NameFree(mem.policies, p.name, id)
    BY <1>1, <1>2 DEF NameFree, Consistent, NamesUnique, Config
  <1> HIDE DEF p
  <1>4. new \in Config /\ Consistent(new) /\ Change(mem, new)
    BY <1>1, <1>2, <1>3, SetPolicyOK
  <1>5. Toggle(mem, new)
    BY DEF Toggle, SetPolicy, p
  <1> QED BY <1>4, <1>5 DEF p

\* Every admin operation keeps the invariant.
LEMMA MutateIInv == IInv /\ Mutate => IInv'
PROOF
  <1> SUFFICES ASSUME IInv, Mutate
               PROVE  IInv'
    OBVIOUS
  <1>0. /\ mem \in Config /\ Consistent(mem)
        /\ used \subseteq RouteIds \cup UpstreamIds \cup PolicyIds
        /\ RouteBodies \subseteq Route
        /\ UpstreamBodies \subseteq Upstream
        /\ PolicyBodies \subseteq Policy
        /\ None \notin Route /\ None \notin Upstream /\ None \notin Policy
    BY StoreAssumption DEF IInv, TypeOK
  <1>1. ASSUME NEW id \in RouteIds, NEW body \in RouteBodies, CreateRoute(id, body)
        PROVE  IInv'
    BY <1>0, <1>1, SetRouteOK, BeginIInv DEF CreateRoute
  <1>2. ASSUME NEW id \in RouteIds, NEW body \in RouteBodies, UpdateRoute(id, body)
        PROVE  IInv'
    BY <1>0, <1>2, SetRouteOK, BeginIInv DEF UpdateRoute
  <1>3. ASSUME NEW id \in RouteIds, DeleteRoute(id)
        PROVE  IInv'
    BY <1>0, <1>3, SetRouteOK, BeginIInv DEF DeleteRoute
  <1>4. ASSUME NEW id \in RouteIds, NEW active \in BOOLEAN, ToggleRoute(id, active)
        PROVE  IInv'
    BY <1>0, <1>4, ToggleRouteOK, BeginIInv DEF ToggleRoute
  <1>5. ASSUME NEW id \in UpstreamIds, NEW body \in UpstreamBodies, CreateUpstream(id, body)
        PROVE  IInv'
    BY <1>0, <1>5, SetUpstreamOK, BeginIInv DEF CreateUpstream
  <1>6. ASSUME NEW id \in UpstreamIds, NEW body \in UpstreamBodies, UpdateUpstream(id, body)
        PROVE  IInv'
    BY <1>0, <1>6, SetUpstreamOK, BeginIInv DEF UpdateUpstream
  <1>7. ASSUME NEW id \in UpstreamIds, DeleteUpstream(id)
        PROVE  IInv'
    BY <1>0, <1>7, SetUpstreamOK, BeginIInv DEF DeleteUpstream
  <1>8. ASSUME NEW id \in PolicyIds, NEW body \in PolicyBodies, CreateIPPolicy(id, body)
        PROVE  IInv'
    BY <1>0, <1>8, SetPolicyOK, BeginIInv DEF CreateIPPolicy
  <1>9. ASSUME NEW id \in PolicyIds, NEW body \in PolicyBodies, UpdateIPPolicy(id, body)
        PROVE  IInv'
    BY <1>0, <1>9, SetPolicyOK, BeginIInv DEF UpdateIPPolicy
  <1>10. ASSUME NEW id \in PolicyIds, DeleteIPPolicy(id)
         PROVE  IInv'
    BY <1>0, <1>10, SetPolicyOK, BeginIInv DEF DeleteIPPolicy
  <1>11. ASSUME NEW id \in PolicyIds, NEW active \in BOOLEAN, ToggleIPPolicy(id, active)
         PROVE  IInv'
    BY <1>0, <1>11, TogglePolicyOK, BeginIInv DEF ToggleIPPolicy
  <1>12. CASE KeyOperation
    BY <1>0, <1>12, BeginIInv DEF KeyOperation, Change
  <1> QED BY <1>1, <1>2, <1>3, <1>4, <1>5, <1>6, <1>7, <1>8, <1>9, <1>10, <1>11, <1>12
          DEF Mutate

\* One step of the store, a failed write or a crash keeps the invariant.
LEMMA NextIInv == IInv /\ [Next]_storeVars => IInv'
PROOF
  <1> SUFFICES ASSUME IInv, [Next]_storeVars
               PROVE  IInv'
    OBVIOUS
  <1>0. None \notin Config /\ Torn \notin Config
    BY StoreAssumption
  <1>1. CASE Mutate
    BY <1>1, MutateIInv
  <1>2. CASE WriteTmp
    BY ZenonT(30), <1>2 DEF WriteTmp, IInv, TypeOK, Served, Consistent, Change, Toggle
  <1>3. CASE PersistFails
    BY Zenon, <1>0, <1>3 DEF PersistFails, Restored, IInv, TypeOK, Served, Consistent, Change, Toggle
  <1>4. CASE Rename
    BY Zenon, <1>0, <1>4 DEF Rename, IInv, TypeOK, Served, Consistent, Change, Toggle
  <1>5. CASE Restart
    BY Zenon, <1>0, <1>5 DEF Restart, IInv, TypeOK, Served, Consistent, Change, Toggle
  <1>6. CASE UNCHANGED storeVars
    <2>1. TypeOK' /\ Served' = Served
      BY <1>6 DEF storeVars, IInv, TypeOK, Served
    <2> QED BY <1>6, <2>1 DEF storeVars, IInv, Consistent, Change, Toggle
  <1> QED BY <1>1, <1>2, <1>3, <1>4, <1>5, <1>6 DEF Next

LEMMA Invariance == Spec => []IInv
BY InitIInv, NextIInv, PTL DEF Spec

-----------------------------------------------------------------------------
(* The results *)

\* Memory, file and temporary file always hold what their types say.
THEOREM TypeCorrect == Spec => []TypeOK
<1>1. IInv => TypeOK
  BY DEF IInv
<1> QED BY <1>1, Invariance, PTL

\* The store's checks and rollbacks keep names unique and every UpstreamID
\* resolvable, in memory and in the file, for any number of objects.
THEOREM Consistency == Spec => []AlwaysConsistent
<1>1. IInv => AlwaysConsistent
  BY DEF IInv, AlwaysConsistent
<1> QED BY <1>1, Invariance, PTL

\* No crash and no failed write leaves a file that New() cannot load.
THEOREM Loadable == Spec => []FileLoadable
<1>1. IInv => FileLoadable
  BY StoreAssumption DEF IInv, FileLoadable
<1> QED BY <1>1, Invariance, PTL

\* Between operations memory and file agree, unless a toggle failed.
THEOREM Durability == Spec => []CleanIsDurable
<1>1. IInv => CleanIsDurable
  BY DEF IInv, CleanIsDurable, Served
<1> QED BY <1>1, Invariance, PTL

\* Starting an operation shows nothing to readers and leaves the file alone.
LEMMA MutateHidden == Mutate => Served' = Served /\ disk' = disk
BY Zenon DEF Mutate, Begin, Served, CreateRoute, UpdateRoute, DeleteRoute, ToggleRoute,
       CreateUpstream, UpdateUpstream, DeleteUpstream, CreateIPPolicy,
       UpdateIPPolicy, DeleteIPPolicy, ToggleIPPolicy, KeyOperation

\* The store implements DurableConfig: an operation takes effect at the rename,
\* in memory and in the file at once, a failed one not at all, and a failed
\* toggle in memory alone.
THEOREM Refinement == Spec => ImplementsDurableConfig
PROOF
  <1>1. Init => Durable!Init
    BY DEF Init, Durable!Init, Served
  <1>2. IInv /\ [Next]_storeVars => [Durable!Next]_<<Served, disk>>
    <2> SUFFICES ASSUME IInv, [Next]_storeVars
                 PROVE  Durable!Next \/ UNCHANGED <<Served, disk>>
      OBVIOUS
    <2>1. CASE Mutate
      BY <2>1, MutateHidden
    <2>2. CASE WriteTmp
      BY <2>2 DEF WriteTmp, Served
    <2>3. CASE PersistFails
      <3>1. phase # "idle" /\ Served = undo /\ Served' = Restored /\ disk' = disk
        BY <2>3 DEF PersistFails, Served
      <3>2. CASE op = "toggle"
        <4>1. Toggle(undo, mem) /\ Served' = mem
          BY <3>1, <3>2 DEF Restored, IInv
        <4>2. Durable!FailedToggle
          BY <3>1, <4>1 DEF Durable!FailedToggle
        <4> QED BY <4>2 DEF Durable!Next
      <3>3. CASE op # "toggle"
        BY <3>1, <3>3 DEF Restored
      <3> QED BY <3>2, <3>3
    <2>4. CASE Rename
      <3>1. Served = undo /\ Served' = mem /\ disk' = mem /\ Change(undo, mem)
        BY <2>4 DEF Rename, Served, IInv
      <3>2. Durable!Commit
        BY <3>1 DEF Durable!Commit
      <3> QED BY <3>2 DEF Durable!Next
    <2>5. CASE Restart
      <3>1. Served' = disk /\ disk' = disk
        BY <2>5 DEF Restart, Served
      <3>2. Durable!Recover
        BY <3>1 DEF Durable!Recover
      <3> QED BY <3>2 DEF Durable!Next
    <2>6. CASE UNCHANGED storeVars
      BY <2>6 DEF storeVars, Served
    <2> QED BY <2>1, <2>2, <2>3, <2>4, <2>5, <2>6 DEF Next
  <1> QED BY <1>1, <1>2, Invariance, PTL DEF Spec, Durable!Spec, ImplementsDurableConfig

-----------------------------------------------------------------------------
(* The router *)


(***************************************************************************)
(* The store's own invariant, with the router's variables added: every     *)
(* router step is a step of the store or leaves the store alone.           *)
(***************************************************************************)
LEMMA RouterStepIsStoreStep == RouterNext => [Next]_storeVars
BY DEF RouterNext, Quiet, StoreFails, Notify, SavedSilently, RouterRestart,
       ListUpstreams, ListRoutes, Publish, Next

\* The table the configuration that readers see asks for.
Wanted == Build(Served.upstreams, Served.routes)

\* The goroutine that holds r.reloadMu works on what readers see now.
HolderCurrent ==
  \/ reload[reloadMu] = "listed" /\ ups[reloadMu] = Served.upstreams
  \/ reload[reloadMu] = "built" /\ built[reloadMu] = Wanted

(***************************************************************************)
(* The inductive invariant.  The table may be stale, and so may the work   *)
(* of the goroutine that holds r.reloadMu, but then another goroutine is   *)
(* still waiting for the lock and has read nothing yet.                    *)
(***************************************************************************)
RInv ==
  /\ IInv
  /\ RouterTypeOK
  /\ ReloadsExclude
  /\ reloadMu # None => reload[reloadMu] \in {"listed", "built"}
  /\ op = "key" => mem = undo
  /\ phase # "idle" => op # "none"
  /\ ~unheard =>
       \/ \E g \in Reloaders : reload[g] = "waiting"
       \/ reloadMu # None /\ HolderCurrent
       \/ reloadMu = None /\ table = Wanted

\* reload() builds well-formed tables.
LEMMA BuildType ==
  ASSUME NEW us \in UpstreamMap, NEW rs \in [RouteIds -> Route \cup {None}]
  PROVE  Build(us, rs) \in Table
PROOF
  <1>1. ASSUME NEW id \in RouteIds, Routable(rs[id], us)
        PROVE  [route |-> rs[id], targets |-> Targets(rs[id], us)] \in Entry
    <2>1. rs[id] \in Route
      BY <1>1 DEF Routable
    <2>2. ASSUME NEW u \in Proxied(us)
          PROVE  <<u, us[u].spec>> \in UpstreamIds \X Specs
      BY DEF Proxied, UpstreamMap, Upstream
    <2>3. Targets(rs[id], us) \subseteq UpstreamIds \X Specs
      BY <2>2 DEF Targets
    <2> QED BY <2>1, <2>3 DEF Entry
  <1> QED BY <1>1 DEF Build, Table

\* What readers see is always a configuration, with well-typed maps.
LEMMA ServedType ==
  ASSUME IInv
  PROVE  /\ Served \in Config
         /\ Served.upstreams \in UpstreamMap
         /\ Served.routes \in [RouteIds -> Route \cup {None}]
         /\ Wanted \in Table
PROOF
  <1>1. Served \in Config
    BY StoreAssumption DEF IInv, TypeOK, Served
  <1>2. /\ Served.upstreams \in UpstreamMap
        /\ Served.routes \in [RouteIds -> Route \cup {None}]
    BY <1>1 DEF Config, UpstreamMap
  <1> QED BY <1>1, <1>2, BuildType DEF Wanted

LEMMA RouterInitInv == RouterInit => RInv
PROOF
  <1> SUFFICES ASSUME RouterInit
               PROVE  RInv
    OBVIOUS
  <1>1. IInv
    BY InitIInv DEF RouterInit
  <1>2. RouterTypeOK
    BY Zenon, <1>1 DEF RouterInit, RouterTypeOK, IInv, Table, NoTable, UpstreamMap, NoUpstreams, Stage
  <1>3. Wanted = NoTable
    BY DEF Wanted, Build, Routable, NoTable, RouterInit, Init, Served, Empty
  <1> QED BY <1>1, <1>2, <1>3 DEF RInv, RouterInit, Init, ReloadsExclude

\* A store step that changes neither what readers see nor the router keeps the
\* router's part of the invariant.
LEMMA HiddenStep ==
  ASSUME RInv, IInv', Served' = Served,
         UNCHANGED <<table, reload, reloadMu, ups, built>>,
         unheard' \in BOOLEAN, unheard => unheard',
         (op = "key" => mem = undo)', (phase # "idle" => op # "none")'
  PROVE  RInv'
PROOF
  <1>1. RouterTypeOK'
    BY DEF RInv, RouterTypeOK, IInv
  <1>2. Wanted' = Wanted /\ HolderCurrent' = HolderCurrent
    BY DEF Wanted, HolderCurrent
  <1> QED BY <1>1, <1>2 DEF RInv, ReloadsExclude

LEMMA RouterNextInv == RInv /\ [RouterNext]_vars => RInv'
PROOF
  <1> SUFFICES ASSUME RInv, [RouterNext]_vars
               PROVE  RInv'
    OBVIOUS
  <1>0. IInv /\ IInv'
    <2>1. [Next]_storeVars
      BY RouterStepIsStoreStep DEF vars, storeVars
    <2> QED BY <2>1, NextIInv DEF RInv
  <1>t. RouterTypeOK /\ None \notin Reloaders /\ TypeOK'
    BY <1>0, RouterAssumption DEF RInv, IInv
  <1>1. CASE Quiet
    <2>1. Served' = Served
      BY <1>1, MutateHidden DEF Quiet, WriteTmp, Served
    <2>2. (op = "key" => mem = undo)' /\ (phase # "idle" => op # "none")'
      BY Zenon, <1>1 DEF RInv, Quiet, WriteTmp, Mutate, Begin, CreateRoute, UpdateRoute,
           DeleteRoute, ToggleRoute, CreateUpstream, UpdateUpstream, DeleteUpstream,
           CreateIPPolicy, UpdateIPPolicy, DeleteIPPolicy, ToggleIPPolicy, KeyOperation
    <2> QED BY <1>0, <1>1, <2>1, <2>2, <1>t, HiddenStep DEF Quiet, routerVars, RouterTypeOK
  <1>2. CASE StoreFails
    <2>1. CASE op = "toggle"
      BY Zenon, <1>0, <1>2, <1>t, <2>1 DEF StoreFails, PersistFails, RInv, RouterTypeOK, ReloadsExclude
    <2>2. CASE op # "toggle"
      <3>1. Served' = Served
        BY <1>2, <2>2 DEF StoreFails, PersistFails, Restored, Served
      <3> QED BY <1>0, <1>2, <2>2, <3>1, <1>t, HiddenStep DEF StoreFails, PersistFails, RouterTypeOK
    <2> QED BY <2>1, <2>2
  <1>3. ASSUME NEW g \in Reloaders, Notify(g)
        PROVE  RInv'
    <2>1. reload' = [reload EXCEPT ![g] = "waiting"] /\ reload'[g] = "waiting"
      BY <1>3, <1>t DEF Notify, RouterTypeOK
    <2>2. RouterTypeOK'
      BY Zenon, <1>3, <1>t, <2>1 DEF Notify, RouterTypeOK, Stage
    <2>3. op' = "none" /\ phase' = "idle"
      BY <1>3 DEF Notify, Rename
    <2> QED BY Zenon, <1>0, <1>3, <1>t, <2>1, <2>2, <2>3 DEF Notify, RInv, ReloadsExclude, RouterTypeOK
  <1>4. CASE SavedSilently
    <2>1. Served' = Served
      BY <1>4 DEF SavedSilently, Rename, RInv, Served
    <2> QED BY <1>0, <1>4, <2>1, <1>t, HiddenStep
            DEF SavedSilently, Rename, routerVars, RouterTypeOK
  <1>5. CASE RouterRestart
    <2>1. Served' = disk /\ disk \in Config
      BY <1>5, <1>0 DEF RouterRestart, Restart, Served, IInv
    <2>2. Wanted' = table'
      BY ZenonT(30), <1>5, <2>1 DEF RouterRestart, Wanted, Build, Routable, Targets, Proxied
    <2>3. table' \in Table
      <3>1. disk.upstreams \in UpstreamMap /\ disk.routes \in [RouteIds -> Route \cup {None}]
        BY <2>1 DEF Config, UpstreamMap
      <3> QED BY <1>5, <3>1, BuildType DEF RouterRestart
    <2>4. RouterTypeOK'
      BY Zenon, <1>5, <1>t, <2>3
         DEF RouterRestart, RouterTypeOK, Stage, Table, NoTable, UpstreamMap, NoUpstreams
    <2> QED BY <1>0, <1>5, <2>2, <2>4 DEF RouterRestart, Restart, RInv, ReloadsExclude
  <1>6. ASSUME NEW g \in Reloaders, ListUpstreams(g)
        PROVE  RInv'
    <2>1. Served' = Served /\ mem = Served /\ op' = op /\ mem' = mem /\ undo' = undo /\ phase' = phase
      BY <1>6 DEF ListUpstreams, storeVars, Served
    <2>2. RouterTypeOK'
      BY <1>0, <1>6, <1>t, <2>1, ServedType DEF ListUpstreams, RouterTypeOK, Stage
    <2>3. reloadMu' = g /\ reload'[g] = "listed" /\ ups'[g] = Served'.upstreams
      BY <1>6, <1>t, <2>1 DEF ListUpstreams, RouterTypeOK
    <2>4. HolderCurrent'
      BY <2>3 DEF HolderCurrent
    <2>5. ReloadsExclude'
      BY <1>6, <1>t DEF ListUpstreams, LockFree, RInv, ReloadsExclude, RouterTypeOK
    <2> QED BY <1>0, <1>t, <2>1, <2>2, <2>3, <2>4, <2>5 DEF RInv
  <1>7. ASSUME NEW g \in Reloaders, ListRoutes(g)
        PROVE  RInv'
    <2>1. Served' = Served /\ mem = Served /\ op' = op /\ mem' = mem /\ undo' = undo /\ phase' = phase
      BY <1>7 DEF ListRoutes, storeVars, Served
    <2>2. reloadMu = g /\ reloadMu' = g /\ reload'[g] = "built"
          /\ built'[g] = Build(ups[g], Served.routes)
      BY Zenon, <1>7, <1>t, <2>1 DEF ListRoutes, RInv, ReloadsExclude, RouterTypeOK
    <2>3. Build(ups[g], Served.routes) \in Table
      BY Zenon, <1>0, <1>t, ServedType, BuildType DEF RouterTypeOK
    <2>4. RouterTypeOK'
      BY <1>7, <1>t, <2>1, <2>3 DEF ListRoutes, RouterTypeOK, Stage, UpstreamMap, NoUpstreams
    <2>5. ASSUME reload[reloadMu] = "listed", HolderCurrent
          PROVE  HolderCurrent'
      BY Zenon, <2>1, <2>2, <2>5 DEF HolderCurrent, Wanted
    <2>6. ASSUME NEW h \in Reloaders, reload[h] = "waiting"
          PROVE  reload'[h] = "waiting"
      BY <1>7, <1>t, <2>6 DEF ListRoutes, RouterTypeOK
    <2>7. ReloadsExclude'
      BY <1>7, <1>t DEF ListRoutes, RInv, ReloadsExclude, RouterTypeOK
    <2>8. unheard' = unheard /\ reload[g] = "listed"
      BY <1>7 DEF ListRoutes
    <2> QED BY <1>0, <1>t, <2>1, <2>2, <2>4, <2>5, <2>6, <2>7, <2>8 DEF RInv
  <1>8. ASSUME NEW g \in Reloaders, Publish(g)
        PROVE  RInv'
    <2>1. Served' = Served /\ op' = op /\ mem' = mem /\ undo' = undo /\ phase' = phase
      BY <1>8 DEF Publish, storeVars, Served
    <2>2. reloadMu = g /\ reloadMu' = None /\ table' = built[g] /\ Wanted' = Wanted
      BY <1>8, <2>1 DEF Publish, RInv, ReloadsExclude, Wanted
    <2>3. RouterTypeOK'
      BY <1>8, <1>t DEF Publish, RouterTypeOK, Stage, Table, NoTable
    <2>4. HolderCurrent => table' = Wanted'
      BY <1>8, <2>2 DEF Publish, HolderCurrent
    <2>5. ASSUME NEW h \in Reloaders, reload[h] = "waiting"
          PROVE  reload'[h] = "waiting"
      BY <1>8, <1>t, <2>5 DEF Publish, RouterTypeOK
    <2>6. ReloadsExclude'
      BY <1>8, <1>t, <2>2 DEF Publish, RInv, ReloadsExclude, RouterTypeOK
    <2>7. unheard' = unheard
      BY <1>8 DEF Publish
    <2> QED BY <1>0, <1>t, <2>1, <2>2, <2>3, <2>4, <2>5, <2>6, <2>7 DEF RInv
  <1>9. CASE UNCHANGED vars
    <2>1. Served' = Served
      BY <1>9 DEF vars, storeVars, Served
    <2> QED BY Zenon, <1>0, <1>9, <1>t, <2>1, HiddenStep
            DEF vars, storeVars, routerVars, RInv, RouterTypeOK
  <1> QED BY <1>1, <1>2, <1>3, <1>4, <1>5, <1>6, <1>7, <1>8, <1>9 DEF RouterNext

LEMMA RouterInvariance == RouterSpec => []RInv
BY RouterInitInv, RouterNextInv, PTL DEF RouterSpec

\* The store and the router stay well typed.
THEOREM RouterTypeCorrect == RouterSpec => []RouterTypeOK
<1>1. RInv => RouterTypeOK
  BY DEF RInv
<1> QED BY <1>1, RouterInvariance, PTL

\* Two reloads never overlap between their first read and their publication.
THEOREM Exclusion == RouterSpec => []ReloadsExclude
<1>1. RInv => ReloadsExclude
  BY DEF RInv
<1> QED BY <1>1, RouterInvariance, PTL

\* When all reloads have ended, and unless a toggle has failed, requests are
\* matched against exactly the table that the stored configuration describes.
THEOREM Convergence == RouterSpec => []Converged
<1>1. RInv => Converged
  BY RouterAssumption DEF RInv, Converged, Settled, RouterTypeOK, Wanted, Current, Served
<1> QED BY <1>1, RouterInvariance, PTL
=============================================================================
