-------------------------------- MODULE Store --------------------------------
(***************************************************************************)
(* The configuration store: routes, upstreams and IP policies in memory,   *)
(* guarded by s.mu, and the JSON file that every mutation rewrites through *)
(* a temporary file and a rename.  API keys, kept in the same file, are    *)
(* modelled in KeyStore.                                                   *)
(*                                                                         *)
(* A mutation holds s.mu while it changes memory, writes the temporary     *)
(* file and renames it: phase tells how far it has come.  The process may  *)
(* die between any two of these steps.  A call that returns an error       *)
(* before it changes anything is a step that is not enabled.               *)
(***************************************************************************)
CONSTANTS
  RouteIds, UpstreamIds, PolicyIds, \* what uuid.NewString may return
  Names,          \* the Name of a route, an upstream or a policy
  Rules,          \* the rest of a route: match rule, plugins, strip flag
  Specs,          \* the rest of an upstream: URL, endpoints, algorithm
  RouteBodies,    \* request bodies of the admin API
  UpstreamBodies,
  PolicyBodies,
  None,           \* no such object; an empty UpstreamID
  Torn            \* the content of a file that was written in part

Route ==
  [name : Names, active : BOOLEAN, upstreamID : UpstreamIds \cup {None},
   weighted : SUBSET UpstreamIds, rule : Rules]

Upstream == [name : Names, spec : Specs]

Policy == [name : Names, active : BOOLEAN]

\* A snapshot: the contents of the maps, or of the file.
Config ==
  [routes    : [RouteIds -> Route \cup {None}],
   upstreams : [UpstreamIds -> Upstream \cup {None}],
   policies  : [PolicyIds -> Policy \cup {None}]]

ASSUME StoreAssumption ==
  /\ RouteBodies \subseteq Route
  /\ UpstreamBodies \subseteq Upstream
  /\ PolicyBodies \subseteq Policy
  /\ None \notin Route \cup Upstream \cup Policy \cup UpstreamIds
  /\ None \notin Config
  /\ Torn \notin Config

VARIABLES
  mem,     \* s.routes, s.upstreams, s.policies
  disk,    \* the file at s.filePath (a missing file loads as Empty)
  tmp,     \* the file at s.filePath + ".tmp"
  phase,   \* "idle": s.mu is free; "write", "rename": inside persist()
  undo,    \* memory as the running operation found it, None between operations
  op,      \* the kind of the running operation
  used,    \* history: the identifiers handed out so far
  dirty    \* history: a toggle failed to persist since the last success

storeVars == <<mem, disk, tmp, phase, undo, op, used, dirty>>

Empty ==
  [routes    |-> [i \in RouteIds |-> None],
   upstreams |-> [i \in UpstreamIds |-> None],
   policies  |-> [i \in PolicyIds |-> None]]

TypeOK ==
  /\ mem \in Config
  /\ disk \in Config \cup {Torn}
  /\ tmp \in Config \cup {Torn}
  /\ phase \in {"idle", "write", "rename"}
  /\ undo \in Config \cup {None}
  /\ op \in {"none", "change", "toggle", "key"}
  /\ used \subseteq RouteIds \cup UpstreamIds \cup PolicyIds
  /\ dirty \in BOOLEAN

Init ==
  /\ mem = Empty
  /\ disk = Empty
  /\ tmp = Torn
  /\ phase = "idle"
  /\ undo = None
  /\ op = "none"
  /\ used = {}
  /\ dirty = FALSE

-----------------------------------------------------------------------------
(* What every mutation shares *)

\* Lock s.mu and change memory from mem to new.
Begin(kind, new) ==
  /\ phase = "idle"
  /\ mem' = new
  /\ undo' = mem
  /\ op' = kind
  /\ phase' = "write"
  /\ UNCHANGED <<disk, tmp, dirty>>

\* No object of the map other than the one called id has this name.
NameFree(map, name, id) ==
  \A i \in DOMAIN map : i # id /\ map[i] # None => map[i].name # name

\* A route's UpstreamID is empty or names an upstream of the store.
Resolves(u) == u # None => mem.upstreams[u] # None

-----------------------------------------------------------------------------
(* Routes *)

SetRoute(id, r) == [mem EXCEPT !.routes[id] = r]

\* Does not look the upstream up.
CreateRouteUnchecked(id, body) ==
  /\ id \notin used
  /\ NameFree(mem.routes, body.name, id)
  /\ Begin("change", SetRoute(id, body))
  /\ used' = used \cup {id}

CreateRoute(id, body) ==
  /\ id \notin used
  /\ NameFree(mem.routes, body.name, id)
  /\ Resolves(body.upstreamID)
  /\ Begin("change", SetRoute(id, body))
  /\ used' = used \cup {id}

UpdateRoute(id, patch) ==
  /\ mem.routes[id] # None
  /\ Resolves(patch.upstreamID)
  /\ NameFree(mem.routes, patch.name, id)
  /\ Begin("change", SetRoute(id, patch))
  /\ UNCHANGED used

DeleteRoute(id) ==
  /\ mem.routes[id] # None
  /\ Begin("change", SetRoute(id, None))
  /\ UNCHANGED used

\* The stored object is changed in place and a failed persist() leaves it so.
ToggleRoute(id, active) ==
  /\ mem.routes[id] # None
  /\ Begin("toggle", SetRoute(id, [mem.routes[id] EXCEPT !.active = active]))
  /\ UNCHANGED used

-----------------------------------------------------------------------------
(* Upstreams *)

SetUpstream(id, u) == [mem EXCEPT !.upstreams[id] = u]

CreateUpstream(id, body) ==
  /\ id \notin used
  /\ NameFree(mem.upstreams, body.name, id)
  /\ Begin("change", SetUpstream(id, body))
  /\ used' = used \cup {id}

UpdateUpstream(id, patch) ==
  /\ mem.upstreams[id] # None
  /\ NameFree(mem.upstreams, patch.name, id)
  /\ Begin("change", SetUpstream(id, patch))
  /\ UNCHANGED used

\* ErrInUse looks at UpstreamID only, not at the weighted upstreams.
DeleteUpstream(id) ==
  /\ mem.upstreams[id] # None
  /\ \A i \in RouteIds : mem.routes[i] # None => mem.routes[i].upstreamID # id
  /\ Begin("change", SetUpstream(id, None))
  /\ UNCHANGED used

-----------------------------------------------------------------------------
(* IP policies *)

SetPolicy(id, p) == [mem EXCEPT !.policies[id] = p]

CreateIPPolicy(id, body) ==
  /\ id \notin used
  /\ NameFree(mem.policies, body.name, id)
  /\ Begin("change", SetPolicy(id, body))
  /\ used' = used \cup {id}

UpdateIPPolicy(id, patch) ==
  /\ mem.policies[id] # None
  /\ NameFree(mem.policies, patch.name, id)
  /\ Begin("change", SetPolicy(id, patch))
  /\ UNCHANGED used

DeleteIPPolicy(id) ==
  /\ mem.policies[id] # None
  /\ Begin("change", SetPolicy(id, None))
  /\ UNCHANGED used

ToggleIPPolicy(id, active) ==
  /\ mem.policies[id] # None
  /\ Begin("toggle", SetPolicy(id, [mem.policies[id] EXCEPT !.active = active]))
  /\ UNCHANGED used

-----------------------------------------------------------------------------
(* API keys *)

\* CreateAPIKey, DeleteAPIKey and ToggleAPIKey leave these maps alone, but
\* their persist() saves them with the keys.
KeyOperation ==
  /\ Begin("key", mem)
  /\ UNCHANGED used

-----------------------------------------------------------------------------
(* persist(), and the operation's return *)

\* os.WriteFile straight to s.filePath, cut short.
WriteInPlace ==
  /\ phase = "write"
  /\ disk' = Torn
  /\ phase' = "rename"
  /\ tmp' = mem
  /\ UNCHANGED <<mem, undo, op, used, dirty>>

\* Marshals a snapshot taken before the operation changed memory.
WriteStale ==
  /\ phase = "write"
  /\ tmp' = undo
  /\ phase' = "rename"
  /\ UNCHANGED <<mem, disk, undo, op, used, dirty>>

\* os.WriteFile replaces the temporary file.
WriteTmp ==
  /\ phase = "write"
  /\ tmp' = mem
  /\ phase' = "rename"
  /\ UNCHANGED <<mem, disk, undo, op, used, dirty>>

\* No rollback at all.
RestoredForgotten == mem

\* What memory holds after the operation's error path: the old objects are put
\* back, except by a toggle.
Restored == IF op = "toggle" THEN mem ELSE undo

\* persist() fails, in os.WriteFile or in os.Rename.  Whatever the temporary
\* file now holds is never read: the next operation rewrites it.
PersistFails ==
  /\ phase \in {"write", "rename"}
  /\ mem' = Restored
  /\ tmp' = Torn
  /\ phase' = "idle"
  /\ undo' = None
  /\ op' = "none"
  /\ dirty' = (dirty \/ op = "toggle")
  /\ UNCHANGED <<disk, used>>

\* os.Rename succeeds; the caller notifies the listeners and unlocks.
Rename ==
  /\ phase = "rename"
  /\ disk' = tmp
  /\ tmp' = Torn
  /\ phase' = "idle"
  /\ undo' = None
  /\ op' = "none"
  /\ dirty' = FALSE
  /\ UNCHANGED <<mem, used>>

\* The process dies, in whatever phase, and New() loads the file into fresh
\* maps.  A file that does not parse stops New(), and the gateway with it.
Restart ==
  /\ disk # Torn
  /\ mem' = disk
  /\ tmp' = Torn
  /\ phase' = "idle"
  /\ undo' = None
  /\ op' = "none"
  /\ dirty' = FALSE
  /\ UNCHANGED <<disk, used>>

-----------------------------------------------------------------------------
Mutate ==
  \/ \E id \in RouteIds, body \in RouteBodies : CreateRoute(id, body)
  \/ \E id \in RouteIds, body \in RouteBodies : UpdateRoute(id, body)
  \/ \E id \in RouteIds : DeleteRoute(id)
  \/ \E id \in RouteIds, active \in BOOLEAN : ToggleRoute(id, active)
  \/ \E id \in UpstreamIds, body \in UpstreamBodies : CreateUpstream(id, body)
  \/ \E id \in UpstreamIds, body \in UpstreamBodies : UpdateUpstream(id, body)
  \/ \E id \in UpstreamIds : DeleteUpstream(id)
  \/ \E id \in PolicyIds, body \in PolicyBodies : CreateIPPolicy(id, body)
  \/ \E id \in PolicyIds, body \in PolicyBodies : UpdateIPPolicy(id, body)
  \/ \E id \in PolicyIds : DeleteIPPolicy(id)
  \/ \E id \in PolicyIds, active \in BOOLEAN : ToggleIPPolicy(id, active)
  \/ KeyOperation

Next == Mutate \/ WriteTmp \/ PersistFails \/ Rename \/ Restart

Spec == Init /\ [][Next]_storeVars

-----------------------------------------------------------------------------
(* Properties *)

NamesUnique(map) ==
  \A i, j \in DOMAIN map :
    map[i] # None /\ map[j] # None /\ map[i].name = map[j].name => i = j

Consistent(cfg) ==
  /\ NamesUnique(cfg.routes)
  /\ NamesUnique(cfg.upstreams)
  /\ NamesUnique(cfg.policies)
  /\ \A i \in RouteIds :
       cfg.routes[i] # None /\ cfg.routes[i].upstreamID # None
         => cfg.upstreams[cfg.routes[i].upstreamID] # None

\* Names are unique and every UpstreamID names an upstream: in memory, in the
\* middle of an operation as well, after every rollback, and in the file that
\* a restart loads.  The checks of the create, update and delete operations
\* each guard one direction only, and a rollback undoes one map only.
AlwaysConsistent ==
  /\ Consistent(mem)
  /\ disk # Torn => Consistent(disk)
  /\ undo # None => Consistent(undo)

\* The file can always be loaded: a crash or a full disk during persist() never
\* leaves a partial file at s.filePath.
FileLoadable == disk # Torn

\* While no operation is running, memory and file agree, unless a toggle has
\* failed to persist: what the store serves is what a restart brings back.
CleanIsDurable == phase = "idle" /\ ~dirty => mem = disk

\* The store implements DurableConfig: readers, who need s.mu, see the memory
\* of before an operation until the operation has ended.
Served == IF phase = "idle" THEN mem ELSE undo

\* At most one object of one map differs, and the result is consistent.
Change(c, d) ==
  /\ Consistent(d)
  /\ \/ c = d
     \/ \E i \in RouteIds : d = [c EXCEPT !.routes[i] = d.routes[i]]
     \/ \E i \in UpstreamIds : d = [c EXCEPT !.upstreams[i] = d.upstreams[i]]
     \/ \E i \in PolicyIds : d = [c EXCEPT !.policies[i] = d.policies[i]]

Toggle(c, d) ==
  \/ \E i \in RouteIds, active \in BOOLEAN :
       c.routes[i] # None /\ d = [c EXCEPT !.routes[i].active = active]
  \/ \E i \in PolicyIds, active \in BOOLEAN :
       c.policies[i] # None /\ d = [c EXCEPT !.policies[i].active = active]

Durable == INSTANCE DurableConfig
             WITH Initial <- Empty, served <- Served, saved <- disk

\* Every operation takes effect at one instant, in memory and in the file,
\* whatever the phase a crash or a failed write interrupts it in; only a
\* toggle may take effect in memory alone.
ImplementsDurableConfig == Durable!Spec
=============================================================================
