----------------------------- MODULE TokenBucket -----------------------------
(***************************************************************************)
(* The token bucket of one client, kept in a Redis hash by a Lua script    *)
(* that runs atomically.  Tokens are counted in the time it takes to       *)
(* refill them, so the rate is 1 and a request costs Cost.                 *)
(***************************************************************************)
EXTENDS Clock

CONSTANTS
  Capacity,  \* of the bucket
  Cost,      \* of a request
  TTL        \* PEXPIRE: the hash is gone this long after the last script

\* A bucket is full again before its hash expires.
ASSUME BucketAssumption ==
  /\ Capacity \in Nat
  /\ Cost \in Nat
  /\ TTL \in Nat \ {0}
  /\ Cost <= Capacity
  /\ Capacity + Skew <= TTL

VARIABLES
  tokens, ts,  \* the fields of the hash
  ran,        \* when the script last ran, or -TTL
  spent,       \* history: tokens spent since the observation began
  from,        \* history: when the observation began
  last         \* history: when a request was last admitted, or -TTL

bucketVars == <<tokens, ts, ran, spent, from, last>>

\* ts is a reading made when the script last ran.
BucketTypeOK ==
  /\ real \in Nat
  /\ tokens \in Int
  /\ ts \in Int
  /\ ran \in Int
  /\ spent \in Nat
  /\ from \in Nat
  /\ last \in Int
  /\ tokens <= Capacity
  /\ ran # -TTL => ts \in ran - Skew .. ran

BucketInit ==
  /\ tokens = 0
  /\ ts = 0
  /\ ran = -TTL
  /\ spent = 0
  /\ from = 0
  /\ last = -TTL

Expired == real >= ran + TTL

Least(a, b) == IF a <= b THEN a ELSE b

\* Without the capacity as an upper limit.
RefilledFreely(now) == IF Expired THEN Capacity ELSE tokens + now - ts

\* A reading older than the last one takes tokens away.
Refilled(now) == IF Expired THEN Capacity ELSE Least(Capacity, tokens + now - ts)

Enough(now) == Refilled(now) >= Cost

\* A refused request costs as much as an admitted one.
RunBucketPunishing(now) ==
  /\ tokens' = Refilled(now) - Cost
  /\ ts' = now
  /\ ran' = real
  /\ spent' = IF Enough(now) THEN spent + Cost ELSE spent
  /\ last' = IF Enough(now) THEN real ELSE last
  /\ UNCHANGED from

\* The script.  It saves the bucket even if the request is refused.
RunBucket(now) ==
  /\ tokens' = IF Enough(now) THEN Refilled(now) - Cost ELSE Refilled(now)
  /\ ts' = now
  /\ ran' = real
  /\ spent' = IF Enough(now) THEN spent + Cost ELSE spent
  /\ last' = IF Enough(now) THEN real ELSE last
  /\ UNCHANGED from

\* An observation may begin at any time.
Watch ==
  /\ spent' = 0
  /\ from' = real
  /\ UNCHANGED <<real, tokens, ts, ran, last>>

BucketNext ==
  \/ real' = real + 1 /\ UNCHANGED bucketVars
  \/ \E now \in Readings : RunBucket(now) /\ UNCHANGED real
  \/ Watch

BucketSpec == ClockInit /\ BucketInit /\ [][BucketNext]_<<real, bucketVars>>

-----------------------------------------------------------------------------
(* Properties *)

\* In any stretch of time the bucket admits no more than its capacity and what
\* is refilled meanwhile, up to the skew of the readings: readings out of
\* order and expired hashes give no tokens away.
BucketBound == spent <= Capacity + (real - from) + Skew

\* The bucket refuses a request only if it has admitted one a short while ago:
\* a client that keeps being refused is admitted as soon as one that waits.
BucketRefusal ==
  \A now \in Readings : ~Enough(now) => real - last < Cost + Skew
=============================================================================
