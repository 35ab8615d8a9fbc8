------------------------------- MODULE Plugins -------------------------------
(***************************************************************************)
(* internal/plugin: an external plugin on its way from the directory       *)
(* HELIX_PLUGIN_DIR through the watcher and the loader into the registry.  *)
(* The build is one with cgo.  One .so file stands for all: files share    *)
(* nothing but the map of factories.                                       *)
(*                                                                         *)
(* The map has no lock.  Go's runtime may end the process when it is read  *)
(* while Register writes to it; if it does not, the read sees the map as   *)
(* it was or as it will be.                                                *)
(***************************************************************************)
EXTENDS Naturals, Sequences

CONSTANTS
  MaxVersion,  \* bound on the versions of the file
  Broken       \* versions that lack a symbol or have one of the wrong type

ASSUME VersionAssumption == MaxVersion \in Nat /\ Broken \subseteq 1 .. MaxVersion

VARIABLES
  file,        \* the .so file: its version, or 0, and whether all is written
  first,       \* the version that was there when the process started
  events,      \* what fsnotify has to report
  watcher,     \* the watcher's goroutine
  opened,      \* the version that plugin.Open has mapped, or 0
  registered   \* the version behind the registered factory, or 0

pluginVars == <<file, first, events, watcher, opened, registered>>

Versions == 0 .. MaxVersion

PluginType ==
  /\ file \in [version : Versions, whole : BOOLEAN]
  /\ first \in Versions
  /\ events \in Seq({"create", "write"})
  /\ watcher \in {"wait", "open", "lookup", "register", "write"}
  /\ opened \in Versions
  /\ registered \in Versions

\* The watcher looks at no file that is there already.
InitPlugins ==
  /\ first \in Versions
  /\ file = [version |-> first, whole |-> TRUE]
  /\ events = <<>>
  /\ watcher = "wait"
  /\ opened = 0
  /\ registered = 0

-----------------------------------------------------------------------------
(* The user *)

\* cp starts to write the next version, over the old one if there is one.
Copy ==
  /\ file.whole
  /\ file.version < MaxVersion
  /\ file' = [version |-> file.version + 1, whole |-> FALSE]
  /\ events' = Append(events, IF file.version = 0 THEN "create" ELSE "write")
  /\ UNCHANGED <<first, watcher, opened, registered>>

Copied ==
  /\ ~file.whole
  /\ file' = [file EXCEPT !.whole = TRUE]
  /\ events' = Append(events, "write")
  /\ UNCHANGED <<first, watcher, opened, registered>>

-----------------------------------------------------------------------------
(* The watcher *)

\* Modified files are left alone.
ReceiveCreate ==
  /\ watcher = "wait"
  /\ events # <<>>
  /\ events' = Tail(events)
  /\ watcher' = IF Head(events) = "create" THEN "open" ELSE "wait"
  /\ UNCHANGED <<file, first, opened, registered>>

Receive ==
  /\ watcher = "wait"
  /\ events # <<>>
  /\ events' = Tail(events)
  /\ watcher' = "open"
  /\ UNCHANGED <<file, first, opened, registered>>

\* plugin.Open returns what it has opened under this path before, whatever is
\* in the file by now, and fails on a file that is not whole.
Open ==
  /\ watcher = "open"
  /\ IF opened # 0 \/ file.whole
     THEN /\ watcher' = "lookup"
          /\ opened' = IF opened # 0 THEN opened ELSE file.version
     ELSE watcher' = "wait" /\ UNCHANGED opened
  /\ UNCHANGED <<file, first, events, registered>>

LookupSymbols ==
  /\ watcher = "lookup"
  /\ watcher' = IF opened \in Broken THEN "wait" ELSE "register"
  /\ UNCHANGED <<file, first, events, opened, registered>>

\* Register writes to the map from one step to the next.
BeginWrite ==
  /\ watcher = "register"
  /\ watcher' = "write"
  /\ UNCHANGED <<file, first, events, opened, registered>>

EndWrite ==
  /\ watcher = "write"
  /\ watcher' = "wait"
  /\ registered' = opened
  /\ UNCHANGED <<file, first, events, opened>>

Watching == Receive \/ Open \/ LookupSymbols \/ BeginWrite \/ EndWrite

\* What a read of the map may find, if the process survives it.
Readable == IF watcher = "write" THEN {registered, opened} ELSE {registered}

Racing == watcher = "write"

-----------------------------------------------------------------------------
\* A usable version of the file has arrived since the process started.
Installed(v) == file = [version |-> v, whole |-> TRUE] /\ v > first /\ v \notin Broken
=============================================================================
