------------------------------ MODULE AuditLog ------------------------------
(***************************************************************************)
(* internal/audit/log.go and the admin handlers that record in it: those   *)
(* of API keys (internal/admin/keys.go).  The store call they begin with   *)
(* is one step here; KeyStore has what it does.                            *)
(***************************************************************************)
EXTENDS Handlers, Naturals, Sequences

CONSTANTS
  MaxSize       \* of the log

ASSUME MaxSizeAssumption == MaxSize \in Nat \ {0}

VARIABLES
  entries,      \* the log: the request of each entry, whose time is the entry's
  clock,        \* readings of time.Now() so far; the wall clock does not go back
  stage,        \* how far each request is
  time,         \* the reading of the clock that it has taken, or 0
  before,       \* history: the requests that had been answered when it came
  recorded      \* the requests in the order of their entries, evicted ones too

auditVars == <<entries, clock, stage, time, before, recorded>>

AuditType ==
  /\ entries \in Seq(KeyOps) /\ Len(entries) <= MaxSize
  /\ stage \in [KeyOps -> {"idle", "change", "stamp", "append", "answer", "done", "failed"}]
  /\ time \in [KeyOps -> 0 .. clock]
  /\ before \in [KeyOps -> SUBSET KeyOps]
  /\ recorded \in Seq(KeyOps)

InitAudit ==
  /\ entries = <<>>
  /\ clock = 0
  /\ stage = [k \in KeyOps |-> "idle"]
  /\ time = [k \in KeyOps |-> 0]
  /\ before = [k \in KeyOps |-> {}]
  /\ recorded = <<>>

Stage(k, from, to) ==
  /\ stage[k] = from
  /\ stage' = [stage EXCEPT ![k] = to]

\* The request arrives.
Begin(k) ==
  /\ Stage(k, "idle", "change")
  /\ before' = [before EXCEPT ![k] = {o \in KeyOps : stage[o] = "done"}]
  /\ UNCHANGED <<entries, clock, time, recorded>>

\* Only a change that the store has saved is recorded.
Change(k) ==
  /\ Stage(k, "change", "stamp") \/ Stage(k, "change", "failed")
  /\ UNCHANGED <<entries, clock, time, before, recorded>>

\* Record reads the clock before it takes l.mu.
Stamp(k) ==
  /\ Stage(k, "stamp", "append")
  /\ clock' = clock + 1
  /\ time' = [time EXCEPT ![k] = clock + 1]
  /\ UNCHANGED <<entries, before, recorded>>

\* One entry is evicted too early.
AppendSmall(k) ==
  LET kept == IF Len(entries) >= MaxSize - 1 /\ entries # <<>> THEN Tail(entries) ELSE entries
  IN
  /\ Stage(k, "append", "answer")
  /\ entries' = Append(kept, k)
  /\ recorded' = Append(recorded, k)
  /\ UNCHANGED <<clock, time, before>>

\* Nothing is evicted.
AppendUnbounded(k) ==
  /\ Stage(k, "append", "answer")
  /\ entries' = Append(entries, k)
  /\ recorded' = Append(recorded, k)
  /\ UNCHANGED <<clock, time, before>>

\* Puts the newest first.
AppendFirst(k) ==
  LET kept == IF Len(entries) >= MaxSize THEN Tail(entries) ELSE entries
  IN
  /\ Stage(k, "append", "answer")
  /\ entries' = <<k>> \o kept
  /\ recorded' = Append(recorded, k)
  /\ UNCHANGED <<clock, time, before>>

AppendEntry(k) ==
  LET kept == IF Len(entries) >= MaxSize THEN Tail(entries) ELSE entries
  IN
  /\ Stage(k, "append", "answer")
  /\ entries' = Append(kept, k)
  /\ recorded' = Append(recorded, k)
  /\ UNCHANGED <<clock, time, before>>

Answer(k) ==
  /\ Stage(k, "answer", "done")
  /\ UNCHANGED <<entries, clock, time, before, recorded>>

Recording(k) == Change(k) \/ Stamp(k) \/ AppendEntry(k) \/ Answer(k)

\* GET /admin/v1/audit
List(limit) ==
  LET n == Len(entries)
      m == IF limit = 0 \/ limit > n THEN n ELSE limit
  IN  SubSeq(entries, n - m + 1, n)

-----------------------------------------------------------------------------
\* When a change of a key is answered, it is in the log, and it stays among the
\* newest n entries until n others have been recorded after it, n up to the
\* size of the log.
AnsweredAreAudited ==
  \A k \in KeyOps : stage[k] = "done" =>
    \E i \in 1 .. Len(recorded) :
      /\ recorded[i] = k
      /\ \A n \in 1 .. MaxSize : Len(recorded) - i < n =>
           LET list == List(n) IN \E j \in 1 .. Len(list) : list[j] = k

\* Entries are newest-last as far as anybody can tell: only two requests that
\* were under way together can be in the log, or have times, in either order.
NewestLast ==
  \A i, j \in 1 .. Len(entries) :
    entries[i] \in before[entries[j]] => i < j /\ time[entries[i]] < time[entries[j]]
=============================================================================
