------------------------------- MODULE KeyStore -------------------------------
(***************************************************************************)
(* The API keys of the store, the admin handlers that create, delete and   *)
(* toggle them, and their validation by the "api-key-auth" plugin.         *)
(*                                                                         *)
(* s.apiKeys and s.hashIndex hold pointers to the same objects.  An object *)
(* is called by the identifier of its key, and one model value stands for  *)
(* the identifier and for the hash generated with it, both random.         *)
(*                                                                         *)
(* A store operation holds s.mu throughout and saves the file atomically   *)
(* (module Store), so it is one step here, with one more for its error     *)
(* path.  The toggle handler and ValidateAPIKey each take two steps with   *)
(* the lock released in between.                                           *)
(***************************************************************************)
CONSTANTS
  Ids,        \* identifiers and hashes
  KeyNames,   \* the Name of a key
  Togglers,   \* toggleKey handlers running at a time
  Validators, \* requests being validated at a time
  Blank,      \* an empty KeyHash
  Nil         \* no object, no pointer

Key == [name : KeyNames, hash : Ids \cup {Blank}, active : BOOLEAN]

ASSUME KeyAssumption ==
  /\ Blank \notin Ids
  /\ Nil \notin Ids
  /\ Nil \notin Key
  /\ Nil \notin Ids \X BOOLEAN

VARIABLES
  obj,        \* the key objects, with those no longer in s.apiKeys
  apiKeys,    \* the identifiers in s.apiKeys
  hashIndex,  \* s.hashIndex: hash to object
  keyFile,    \* the keys in the file
  generated,  \* history: identifiers generated so far
  created,    \* history: keys created by this process
  pending,    \* what each toggleKey handler is about to write
  lookup,     \* the object each ValidateAPIKey call has found
  valid       \* history: that key was acceptable at some time since

keyVars == <<obj, apiKeys, hashIndex, keyFile, generated, created>>
keyStoreVars == <<keyVars, pending, lookup, valid>>

KeyTypeOK ==
  /\ obj \in [Ids -> Key \cup {Nil}]
  /\ apiKeys \subseteq {i \in Ids : obj[i] # Nil}
  /\ hashIndex \in [Ids \cup {Blank} -> {i \in Ids : obj[i] # Nil} \cup {Nil}]
  /\ keyFile \in [Ids -> Key \cup {Nil}]
  /\ generated \subseteq Ids
  /\ created \subseteq generated
  /\ pending \in [Togglers -> (Ids \X BOOLEAN) \cup {Nil}]
  /\ lookup \in [Validators -> {i \in Ids : obj[i] # Nil} \cup {Nil}]
  /\ valid \in [Validators -> BOOLEAN]

KeyInit ==
  /\ obj = [i \in Ids |-> Nil]
  /\ apiKeys = {}
  /\ hashIndex = [h \in Ids \cup {Blank} |-> Nil]
  /\ keyFile = [i \in Ids |-> Nil]
  /\ generated = {}
  /\ created = {}
  /\ pending = [t \in Togglers |-> Nil]
  /\ lookup = [v \in Validators |-> Nil]
  /\ valid = [v \in Validators |-> FALSE]

-----------------------------------------------------------------------------
AcceptedBy(index, objects, h) == index[h] # Nil /\ objects[index[h]].active

Accepts(h) == AcceptedBy(hashIndex, obj, h)

\* Keeps the history of the keys that are being validated.
Observe ==
  valid' = [v \in Validators |->
              /\ lookup'[v] # Nil
              /\ \/ lookup[v] # Nil /\ valid[v]
                 \/ AcceptedBy(hashIndex', obj', lookup'[v])]

-----------------------------------------------------------------------------
(* The store's operations *)

\* What persist() saves.
Snapshot(o, ids) == [i \in Ids |-> IF i \in ids THEN o[i] ELSE Nil]

NewKey(name, hash) == [name |-> name, hash |-> hash, active |-> TRUE]

NameUnused(name) == \A i \in apiKeys : obj[i].name # name

\* createKey.  The object is saved with its hash, which is then blanked in the
\* object that both maps share.
CreateAPIKey(id, name) ==
  /\ id \notin generated
  /\ NameUnused(name)
  /\ obj' = [obj EXCEPT ![id] = NewKey(name, Blank)]
  /\ apiKeys' = apiKeys \cup {id}
  /\ hashIndex' = [hashIndex EXCEPT ![id] = id]
  /\ keyFile' = Snapshot([obj EXCEPT ![id] = NewKey(name, id)], apiKeys')
  /\ generated' = generated \cup {id}
  /\ created' = created \cup {id}
  /\ UNCHANGED <<pending, lookup>>
  /\ Observe

\* Leaves the hash of the key it could not save in the index.
CreateFailsIndexed(id, name) ==
  /\ id \notin generated
  /\ NameUnused(name)
  /\ obj' = [obj EXCEPT ![id] = NewKey(name, id)]
  /\ hashIndex' = [hashIndex EXCEPT ![id] = id]
  /\ generated' = generated \cup {id}
  /\ UNCHANGED <<apiKeys, keyFile, created, pending, lookup>>
  /\ Observe

CreateFails(id, name) ==
  /\ id \notin generated
  /\ NameUnused(name)
  /\ generated' = generated \cup {id}
  /\ UNCHANGED <<obj, apiKeys, hashIndex, keyFile, created, pending, lookup>>
  /\ Observe

\* deleteKey.  The index entry removed is that of the object's own KeyHash.
DeleteAPIKey(id) ==
  /\ id \in apiKeys
  /\ hashIndex' = [hashIndex EXCEPT ![obj[id].hash] = Nil]
  /\ apiKeys' = apiKeys \ {id}
  /\ keyFile' = Snapshot(obj, apiKeys')
  /\ UNCHANGED <<obj, generated, created, pending, lookup>>
  /\ Observe

\* Puts the key back, but not its index entry.
DeleteFailsUnindexed(id) ==
  /\ id \in apiKeys
  /\ hashIndex' = [hashIndex EXCEPT ![obj[id].hash] = Nil]
  /\ UNCHANGED <<obj, apiKeys, keyFile, generated, created, pending, lookup>>
  /\ Observe

DeleteFails(id) ==
  /\ id \in apiKeys
  /\ hashIndex' = [hashIndex EXCEPT ![obj[id].hash] = id]
  /\ UNCHANGED <<obj, apiKeys, keyFile, generated, created, pending, lookup>>
  /\ Observe

\* An operation on routes, upstreams or policies saves the keys as well.
OtherOperation ==
  /\ keyFile' = Snapshot(obj, apiKeys)
  /\ UNCHANGED <<obj, apiKeys, hashIndex, generated, created, pending, lookup>>
  /\ Observe

-----------------------------------------------------------------------------
(* toggleKey: GetAPIKey, then ToggleAPIKey with the negated Active *)

GetAPIKey(t, id) ==
  /\ pending[t] = Nil
  /\ id \in apiKeys
  /\ pending' = [pending EXCEPT ![t] = <<id, ~obj[id].active>>]
  /\ UNCHANGED <<keyVars, lookup>>
  /\ Observe

Toggled(t) == [obj EXCEPT ![pending[t][1]].active = pending[t][2]]

\* Does not check that the key still exists.
ToggleUnchecked(t) ==
  /\ pending[t] # Nil
  /\ obj' = Toggled(t)
  /\ keyFile' = Snapshot(obj', apiKeys)
  /\ pending' = [pending EXCEPT ![t] = Nil]
  /\ UNCHANGED <<apiKeys, hashIndex, generated, created, lookup>>
  /\ Observe

ToggleAPIKey(t) ==
  /\ pending[t] # Nil
  /\ pending[t][1] \in apiKeys
  /\ obj' = Toggled(t)
  /\ keyFile' = Snapshot(obj', apiKeys)
  /\ pending' = [pending EXCEPT ![t] = Nil]
  /\ UNCHANGED <<apiKeys, hashIndex, generated, created, lookup>>
  /\ Observe

\* The object stays changed although the caller gets an error.
ToggleFails(t) ==
  /\ pending[t] # Nil
  /\ pending[t][1] \in apiKeys
  /\ obj' = Toggled(t)
  /\ pending' = [pending EXCEPT ![t] = Nil]
  /\ UNCHANGED <<apiKeys, hashIndex, keyFile, generated, created, lookup>>
  /\ Observe

\* The key was deleted in between: ErrNotFound.
ToggleNotFound(t) ==
  /\ pending[t] # Nil
  /\ pending[t][1] \notin apiKeys
  /\ pending' = [pending EXCEPT ![t] = Nil]
  /\ UNCHANGED <<keyVars, lookup>>
  /\ Observe

-----------------------------------------------------------------------------
(* ValidateAPIKey: the index under the read lock, then Active without it *)

Lookup(v, h) ==
  /\ lookup[v] = Nil
  /\ hashIndex[h] # Nil
  /\ lookup' = [lookup EXCEPT ![v] = hashIndex[h]]
  /\ UNCHANGED <<keyVars, pending>>
  /\ Observe

\* The request is accepted if the object is active now.
Decide(v) ==
  /\ lookup[v] # Nil
  /\ lookup' = [lookup EXCEPT ![v] = Nil]
  /\ UNCHANGED <<keyVars, pending>>
  /\ Observe

-----------------------------------------------------------------------------
\* The process ends and load() builds the maps from the file: a key without a
\* hash is not indexed.
RestartStore ==
  /\ obj' = keyFile
  /\ apiKeys' = {i \in Ids : keyFile[i] # Nil}
  /\ hashIndex' = [h \in Ids \cup {Blank} |->
                     IF h \in Ids /\ keyFile[h] # Nil /\ keyFile[h].hash = h THEN h ELSE Nil]
  /\ pending' = [t \in Togglers |-> Nil]
  /\ lookup' = [v \in Validators |-> Nil]
  /\ created' = {}
  /\ UNCHANGED <<keyFile, generated>>
  /\ Observe

KeyNext ==
  \/ \E id \in Ids, name \in KeyNames : CreateAPIKey(id, name)
  \/ \E id \in Ids, name \in KeyNames : CreateFails(id, name)
  \/ \E id \in Ids : DeleteAPIKey(id)
  \/ \E id \in Ids : DeleteFails(id)
  \/ OtherOperation
  \/ \E t \in Togglers, id \in Ids : GetAPIKey(t, id)
  \/ \E t \in Togglers : ToggleAPIKey(t)
  \/ \E t \in Togglers : ToggleFails(t)
  \/ \E t \in Togglers : ToggleNotFound(t)
  \/ \E v \in Validators, h \in Ids : Lookup(v, h)
  \/ \E v \in Validators : Decide(v)
  \/ RestartStore

KeySpec == KeyInit /\ [][KeyNext]_keyStoreVars

-----------------------------------------------------------------------------
(* Properties *)

\* Every indexed hash leads to its own key, and that key is in s.apiKeys or was
\* created by this process: the rollbacks of failed operations leave nothing
\* behind, and of the deleted keys only those whose hash was blanked in memory
\* stay in the index, until the next restart.
IndexSound ==
  \A h \in Ids :
    hashIndex[h] # Nil => hashIndex[h] = h /\ h \in apiKeys \cup created

\* A stored key whose hash this process has seen, because it created the key or
\* loaded the hash with it, is accepted exactly while it is active, whatever
\* deletions and toggles of it failed in between.
KnownKeysDecided ==
  \A i \in apiKeys :
    i \in created \/ obj[i].hash # Blank => (Accepts(i) <=> obj[i].active)

\* Although ValidateAPIKey releases s.mu between its two reads, a request is
\* accepted only if its key was acceptable at one moment between them: the
\* two reads act as one.
ValidationAtomic ==
  [][\A v \in Validators : Decide(v) /\ obj[lookup[v]].active => valid[v]]_keyStoreVars

\* "Keys are validated against the store's API key registry": a key that is no
\* longer registered is not accepted.
AcceptedIsRegistered == \A h \in Ids : Accepts(h) => h \in apiKeys
=============================================================================
