---------------------------- MODULE SlidingWindow ----------------------------
(***************************************************************************)
(* The sliding window of one client, kept in a Redis sorted set by a Lua   *)
(* script that runs atomically.                                            *)
(***************************************************************************)
EXTENDS Clock, FiniteSets

CONSTANTS
  Win,    \* the length of the window
  Limit,  \* how many requests it admits
  Grace   \* PEXPIRE: the set is gone Win + Grace after the last admission

ASSUME WindowAssumption ==
  /\ Win \in Nat
  /\ Limit \in Nat
  /\ Grace \in Nat

VARIABLES
  window,  \* the sorted set: its members, which are request ids, with their scores
  added,   \* when one was last added, or -(Win + Grace)
  log      \* history: the requests admitted within the window and the skew, with the times

windowVars == <<window, added, log>>

\* Requests with a time each.
IsTable(times) ==
  /\ times \in [DOMAIN times -> Int]
  /\ DOMAIN times \subseteq Nat
  /\ IsFiniteSet(DOMAIN times)

WindowTypeOK ==
  /\ IsTable(window)
  /\ added \in Int
  /\ IsTable(log)

Empty == [i \in {} |-> 0]

WindowInit ==
  /\ window = Empty
  /\ added = -(Win + Grace)
  /\ log = Empty

After(times, t) == {i \in DOMAIN times : times[i] > t}

Keep(times, ids) == [i \in ids |-> times[i]]

Put(times, id, t) == [i \in DOMAIN times \cup {id} |-> IF i = id THEN t ELSE times[i]]

\* Drops the members a moment too early.
LiveLess(now) == IF real >= added + Win + Grace THEN {} ELSE After(window, now - Win + 1)

\* ZREMRANGEBYSCORE drops what is older than the window.
Live(now) == IF real >= added + Win + Grace THEN {} ELSE After(window, now - Win)

\* ZCARD
Room(now) == Cardinality(Live(now)) < Limit

\* Refused requests are added, too.
RunWindowAlways(now, id) ==
  /\ window' = Put(Keep(window, Live(now)), id, now)
  /\ added' = real
  /\ log' = IF Room(now) THEN Put(log, id, real) ELSE log

\* The script.  A refused request leaves no trace.
RunWindow(now, id) ==
  IF Room(now)
  THEN /\ window' = Put(Keep(window, Live(now)), id, now)
       /\ added' = real
       /\ log' = Put(log, id, real)
  ELSE /\ window' = Keep(window, Live(now))
       /\ UNCHANGED <<added, log>>

-----------------------------------------------------------------------------
(* Properties *)

\* However the readings of the pods are ordered, no more than Limit requests are
\* admitted in any stretch of time as long as the window less the skew.
WindowBound == Cardinality(After(log, real - (Win - Skew))) <= Limit

\* The window refuses a request only if it has admitted Limit requests within
\* the window and the skew.
WindowRefusal ==
  \A now \in Readings : ~Room(now) => Cardinality(DOMAIN log) >= Limit
=============================================================================
