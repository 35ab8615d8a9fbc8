----------------------------- MODULE RateLimiter -----------------------------
(***************************************************************************)
(* Limiter.check for one client: the requests of several pods run the two  *)
(* scripts one after the other, each with a clock reading of its own, and  *)
(* each call may fail before or after its script has run.                  *)
(***************************************************************************)
EXTENDS TokenBucket, SlidingWindow

CONSTANTS
  Checks,     \* calls of check under way; one that is over stands for a new one
  MaxTime     \* bound on real

VARIABLES
  bucketSays,  \* what the checks between the two calls heard from the bucket
  passed       \* history: the requests that passed and that the window has
               \* answered, with the times, as far back as the window less the skew

limiterVars == <<real, bucketVars, windowVars, bucketSays, passed>>

Replies == {"yes", "no", "error"}

LimiterTypeOK ==
  /\ BucketTypeOK
  /\ WindowTypeOK
  /\ bucketSays \in [Checks -> Replies \cup {"idle"}]
  /\ IsTable(passed)

LimiterInit ==
  /\ ClockInit
  /\ BucketInit
  /\ WindowInit
  /\ bucketSays = [r \in Checks |-> "idle"]
  /\ passed = Empty

-----------------------------------------------------------------------------
(* The first call: tb.allow *)

Hear(r, answer) == bucketSays' = [bucketSays EXCEPT ![r] = answer]

CallBucket(r) ==
  /\ bucketSays[r] = "idle"
  /\ \E now \in Readings :
       /\ RunBucket(now)
       /\ Hear(r, IF Enough(now) THEN "yes" ELSE "no")
  /\ UNCHANGED <<real, windowVars, passed>>

BucketFails(r) ==
  /\ bucketSays[r] = "idle"
  /\ Hear(r, "error")
  /\ UNCHANGED <<real, bucketVars, windowVars, passed>>

BucketUnanswered(r) ==
  /\ bucketSays[r] = "idle"
  /\ \E now \in Readings : RunBucket(now)
  /\ Hear(r, "error")
  /\ UNCHANGED <<real, windowVars, passed>>

-----------------------------------------------------------------------------
(* The second call: sw.allow, made whatever the first one said *)

Used == DOMAIN window \cup DOMAIN log \cup DOMAIN passed

\* Eight random bytes, taken to be an id that nobody else has.
reqID == CHOOSE i \in 0 .. Cardinality(Used) : i \notin Used

\* One of the two is enough.
AllowedByOne(tb, sw) == tb # "no" \/ sw # "no"

\* An answer that is missing counts as yes.
Allowed(tb, sw) == tb # "no" /\ sw # "no"

Passes(r, answer) ==
  passed' = IF Allowed(bucketSays[r], answer) THEN Put(passed, reqID, real) ELSE passed

CallWindow(r) ==
  /\ bucketSays[r] # "idle"
  /\ \E now \in Readings :
       /\ RunWindow(now, reqID)
       /\ Passes(r, IF Room(now) THEN "yes" ELSE "no")
  /\ Hear(r, "idle")
  /\ UNCHANGED <<real, bucketVars>>

WindowFails(r) ==
  /\ bucketSays[r] # "idle"
  /\ Hear(r, "idle")
  /\ UNCHANGED <<real, bucketVars, windowVars, passed>>

WindowUnanswered(r) ==
  /\ bucketSays[r] # "idle"
  /\ \E now \in Readings : RunWindow(now, reqID)
  /\ Hear(r, "idle")
  /\ UNCHANGED <<real, bucketVars, passed>>

-----------------------------------------------------------------------------
LimiterTick ==
  /\ real < MaxTime
  /\ real' = real + 1
  /\ log' = Keep(log, After(log, real' - Win - Skew))
  /\ passed' = Keep(passed, After(passed, real' - (Win - Skew)))
  /\ UNCHANGED <<bucketVars, window, added, bucketSays>>

LimiterNext ==
  \/ LimiterTick
  \/ Watch /\ UNCHANGED <<windowVars, bucketSays, passed>>
  \/ \E r \in Checks :
       \/ CallBucket(r)
       \/ BucketFails(r)
       \/ BucketUnanswered(r)
       \/ CallWindow(r)
       \/ WindowFails(r)
       \/ WindowUnanswered(r)

LimiterSpec == LimiterInit /\ [][LimiterNext]_limiterVars

-----------------------------------------------------------------------------
(* Properties *)

\* The window is a hard cap on what passes, not only on what it admits: of the
\* requests it has answered no more than Limit pass in any stretch of time
\* as long as the window less the skew.  Where the bucket's call fails, this is
\* what check's comment says, "treat it as allowed and rely on the other".
HardCap == Cardinality(After(passed, real - (Win - Skew))) <= Limit

\* AllowIP "Returns false only when both Redis checks succeed and either
\* rejects": a request whose call of the bucket has failed passes, whatever the
\* window answers.
FailsOpen ==
  [][\A r \in Checks :
       bucketSays[r] = "error" /\ CallWindow(r) => passed' # passed]_limiterVars
=============================================================================
