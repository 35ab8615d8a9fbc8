---------------------------- MODULE BalancerProofs ----------------------------
(***************************************************************************)
(* Proofs about the balancers, for every number of endpoints, requests and *)
(* weights, with the health checker beside them.                           *)
(***************************************************************************)
EXTENDS LoadBalancer, FiniteSetTheorems, WellFoundedInduction, TLAPS

-----------------------------------------------------------------------------
(* The inductive invariant of the balancers *)

\* The steps that an algorithm takes.
Stages ==
  IF alg = "round-robin" THEN {"idle", "add", "check", "load", "proxy"}
  ELSE {"idle", "scan", "pick", "proxy"}

Looking(r) == req[r].pc \in {"scan", "pick"}

\* How far each request has come with its endpoints.
Progress(r) ==
  /\ req[r].pc \in Stages
  /\ req[r].pc = "idle" => req[r] = Idle
  /\ req[r].pc = "add" => req[r].at \in 1 .. N - 1
  /\ req[r].pc = "check" => req[r].at \in 1 .. N /\ req[r].ep \in Endpoints
  /\ req[r].pc = "scan" => req[r].at < N
  /\ req[r].pc \in {"load", "pick"} => req[r].at = N
  /\ req[r].pc = "proxy" => req[r].ep \in Endpoints

\* The request that holds the mutex is the one that looks for an endpoint.
Mutex == alg = "least-conn" => \A r \in Requests : Looking(r) <=> mu = r

On(e) == {r \in Requests : req[r].pc = "proxy" /\ req[r].ep = e}

Counted == alg = "least-conn" =>
  \A e \in Endpoints : IsFiniteSet(On(e)) /\ conns[e] = Cardinality(On(e))

\* How many steps ago the counter pointed at e.
Behind(e) == IF e <= counter THEN counter - e ELSE counter + N - e

\* An undisturbed round-robin request has found every endpoint unhealthy that
\* the counter has gone past, up to the one it is about to check.
RoundRobinKnows(r) ==
  alg = "round-robin" /\ r \in alone =>
    /\ req[r].pc \in {"add", "load"} =>
         \A e \in Endpoints : Behind(e) < req[r].at => ~IsHealthy(e)
    /\ req[r].pc = "check" =>
         /\ req[r].ep = counter
         /\ \A e \in Endpoints : e # counter /\ Behind(e) < req[r].at => ~IsHealthy(e)

\* An undisturbed weighted request has seen the healthy ones among those it has
\* looked at.
WeightedKnows(r) ==
  alg \in {"weighted", "split"} /\ Looking(r) =>
    req[r].seen = {e \in Endpoints : e < req[r].at /\ IsHealthy(e)}

\* An undisturbed least-conn request has a healthy endpoint unless it has met
\* none; no count has risen since, and an idle one has been preferred.
LeastConnKnows(r) ==
  alg = "least-conn" /\ Looking(r) =>
    /\ req[r].ep # None => IsHealthy(req[r].ep) /\ req[r].count >= 0 /\ conns[req[r].ep] <= req[r].count
    /\ req[r].ep = None =>
         req[r].count = -1 /\ \A e \in Endpoints : e < req[r].at => ~IsHealthy(e)
    /\ \A e \in req[r].idle :
         IsHealthy(e) /\ conns[e] = 0 /\ (e < req[r].at => req[r].count = 0)

Knows(r) == r \in steady => RoundRobinKnows(r) /\ WeightedKnows(r) /\ LeastConnKnows(r)

LBInv ==
  /\ BalancerTypeOK
  /\ round.answer # "none" => round.at < N
  /\ Mutex
  /\ Counted
  /\ \A r \in Requests : Progress(r) /\ Knows(r)
-----------------------------------------------------------------------------
(* Weights *)

LEMMA LeastNat ==
  ASSUME NEW T \in SUBSET Nat, T # {}
  PROVE  \E n \in T : \A m \in T : n <= m
<1>1. PICK n \in T : \A m \in T : <<m, n>> \notin OpToRel(<, Nat)
  BY NatLessThanWellFounded, WFMin, Zenon
<1>2. \A m \in T : ~(m < n)
  BY Zenon, <1>1 DEF OpToRel
<1> QED BY <1>2

Part(S, i) == IF i \in S THEN Weight(i) ELSE 0

\* sum is the table that Cumulative reads, for the first n endpoints.
IsSum(sum, S, n) ==
  sum = [i \in -1 .. n - 1 |-> IF i = -1 THEN 0 ELSE sum[i - 1] + Part(S, i)]

LEMMA WeightNat ==
  ASSUME NEW e \in Endpoints
  PROVE  Weight(e) \in Nat
BY NAssumption, BalancerAssumption DEF Weight, Endpoints

\* The recursion that defines the table has a solution.
LEMMA SumExists ==
  ASSUME NEW S, NEW n \in Nat
  PROVE  \E sum : IsSum(sum, S, n)
<1> DEFINE T == {m \in Nat : ~\E sum : IsSum(sum, S, m)}
<1> SUFFICES ASSUME T # {} PROVE FALSE
  OBVIOUS
<1>1. PICK m \in T : \A k \in T : m <= k
  BY Zenon, LeastNat
<1>2. CASE m = 0
  <2> DEFINE g == [i \in -1 .. -1 |-> 0]
  <2>1. g = [i \in -1 .. m - 1 |-> IF i = -1 THEN 0 ELSE g[i - 1] + Part(S, i)]
    BY <1>2
  <2> QED BY Zenon, <1>1, <2>1 DEF IsSum
<1>3. CASE m # 0
  <2>1. PICK f : IsSum(f, S, m - 1)
    <3>1. m - 1 \in Nat /\ m - 1 \notin T
      BY <1>1, <1>3
    <3> QED BY <3>1
  <2> DEFINE g == [i \in -1 .. m - 1 |-> IF i = m - 1 THEN f[m - 2] + Part(S, m - 1) ELSE f[i]]
  <2>2. g = [i \in -1 .. m - 1 |-> IF i = -1 THEN 0 ELSE g[i - 1] + Part(S, i)]
    BY <1>3, <2>1 DEF IsSum
  <2> QED BY Zenon, <1>1, <2>2 DEF IsSum
<1> QED BY <1>2, <1>3

LEMMA CumulativeSum ==
  ASSUME NEW S, NEW e \in Endpoints
  PROVE  /\ Cumulative(S, -1) = 0
         /\ Cumulative(S, e) = Cumulative(S, e - 1) + Part(S, e)
<1> DEFINE f == CHOOSE sum : IsSum(sum, S, N)
<1>1. IsSum(f, S, N)
  BY SumExists, NAssumption
<1>2. \A i : Cumulative(S, i) = f[i]
  BY DEF Cumulative, IsSum, Part
<1> HIDE DEF f
<1>3. f = [i \in -1 .. N - 1 |-> IF i = -1 THEN 0 ELSE f[i - 1] + Part(S, i)]
  BY Zenon, <1>1 DEF IsSum
<1>4. -1 \in -1 .. N - 1 /\ e \in -1 .. N - 1 /\ e # -1
  BY NAssumption DEF Endpoints
<1>5. f[-1] = 0 /\ f[e] = f[e - 1] + Part(S, e)
  BY Zenon, <1>3, <1>4
<1> QED BY <1>2, <1>5

\* Weights are not negative, so the sums never fall.
LEMMA CumulativeGrows ==
  ASSUME NEW S
  PROVE  \A j \in -1 .. N - 1 :
           Cumulative(S, j) \in Nat /\ \A i \in -1 .. j : Cumulative(S, i) <= Cumulative(S, j)
<1> DEFINE C(i) == Cumulative(S, i)
           P(m) == C(m - 1) \in Nat /\ \A i \in -1 .. m - 1 : C(i) \in Nat /\ C(i) <= C(m - 1)
           T == {m \in 0 .. N : ~P(m)}
<1>1. C(-1) = 0
  BY CumulativeSum, NAssumption DEF Endpoints
<1>2. \A e \in Endpoints : C(e) = C(e - 1) + Part(S, e) /\ Part(S, e) \in Nat
  BY CumulativeSum, WeightNat DEF Part
<1> HIDE DEF C
<1>3. T = {}
  <2> SUFFICES ASSUME T # {} PROVE FALSE
    OBVIOUS
  <2>0. T \in SUBSET Nat
    OBVIOUS
  <2> HIDE DEF T
  <2>1. PICK m \in T : \A k \in T : m <= k
    BY <2>0, LeastNat
  <2> USE DEF T
  <2>2. CASE m = 0
    BY <1>1, <2>1, <2>2
  <2>3. CASE m # 0
    <3>1. m - 1 \in Endpoints /\ m \in 1 .. N
      BY <2>1, <2>3, NAssumption DEF Endpoints
    <3>2. m - 1 \in 0 .. N /\ m - 1 \notin T
      BY <2>1, <3>1, NAssumption
    <3>3. C(m - 2) \in Nat /\ \A i \in -1 .. m - 2 : C(i) \in Nat /\ C(i) <= C(m - 2)
      BY <3>1, <3>2
    <3>4. C(m - 1) = C(m - 2) + Part(S, m - 1) /\ Part(S, m - 1) \in Nat
      BY <1>2, <3>1
    <3>5. \A i \in -1 .. m - 1 : i = m - 1 \/ i \in -1 .. m - 2
      BY <3>1
    <3>6. ASSUME NEW i \in -1 .. m - 1
          PROVE  C(i) \in Nat /\ C(i) <= C(m - 1)
      <4>1. CASE i = m - 1
        BY <3>3, <3>4, <4>1
      <4>2. CASE i \in -1 .. m - 2
        <5>1. C(i) \in Nat /\ C(i) <= C(m - 2)
          BY <3>3, <4>2
        <5> QED BY <3>3, <3>4, <5>1
      <4> QED BY <3>5, <4>1, <4>2
    <3>7. C(m - 1) \in Nat
      BY <3>3, <3>4
    <3> QED BY <2>1, <3>6, <3>7
  <2> QED BY <2>2, <2>3
<1>4. ASSUME NEW j \in -1 .. N - 1
      PROVE  C(j) \in Nat /\ \A i \in -1 .. j : C(i) <= C(j)
  <2>1. j + 1 \in 0 .. N /\ (j + 1) - 1 = j
    BY NAssumption
  <2>2. P(j + 1)
    BY <1>3, <2>1
  <2> QED BY <2>1, <2>2
<1> QED BY <1>4 DEF C

\* The endpoint that a number leads to: the one whose share it falls in.
LEMMA PickShare ==
  ASSUME NEW S \in SUBSET Endpoints, NEW rnd \in 0 .. Total(S) - 1
  PROVE  /\ Pick(S, rnd) \in S
         /\ Cumulative(S, Pick(S, rnd) - 1) <= rnd
         /\ rnd < Cumulative(S, Pick(S, rnd))
<1> DEFINE C(i) == Cumulative(S, i)
           T == {m \in Endpoints : rnd < C(m)}
           Good(e) == rnd < C(e) /\ \A f \in S : f < e => rnd >= C(f)
<1>1. \A j \in -1 .. N - 1 : C(j) \in Nat /\ \A i \in -1 .. j : C(i) <= C(j)
  BY CumulativeGrows
<1>2. C(-1) = 0 /\ \A e \in Endpoints : C(e) = C(e - 1) + Part(S, e)
  BY CumulativeSum, NAssumption DEF Endpoints
<1>3. rnd \in Nat /\ rnd < C(N - 1) /\ N - 1 \in Endpoints /\ T \in SUBSET Nat
  <2>1. N - 1 \in -1 .. N - 1 /\ N - 1 \in Endpoints
    BY NAssumption DEF Endpoints
  <2>2. C(N - 1) \in Nat
    BY <1>1, <2>1
  <2> QED BY <2>1, <2>2 DEF Total, Endpoints
<1> HIDE DEF C
<1>4. T # {}
  BY <1>3
<1>5. PICK m \in T : \A k \in T : m <= k
  <2> HIDE DEF T
  <2> QED BY <1>3, <1>4, LeastNat
<1>6. m \in Endpoints /\ rnd < C(m)
  BY <1>5
<1>7. \A k \in Endpoints : k < m => C(k) <= rnd
  <2> SUFFICES ASSUME NEW k \in Endpoints, k < m, ~(C(k) <= rnd) PROVE FALSE
    OBVIOUS
  <2>1. k \in -1 .. N - 1
    BY DEF Endpoints
  <2>2. C(k) \in Nat
    BY <1>1, <2>1
  <2>3. k \in T
    BY <1>3, <2>2
  <2> QED BY <1>5, <1>6, <2>3 DEF Endpoints
<1>8. C(m - 1) <= rnd
  <2>1. CASE m = 0
    BY <1>2, <1>3, <2>1
  <2>2. CASE m # 0
    <3>0. m \in 0 .. N - 1
      BY <1>6 DEF Endpoints
    <3>1. m - 1 \in Endpoints /\ m - 1 < m
      BY <2>2, <3>0, NAssumption DEF Endpoints
    <3> QED BY <1>7, <3>1
  <2> QED BY <2>1, <2>2
<1>9. m \in S
  <2>1. m \in -1 .. N - 1 /\ m - 1 \in -1 .. N - 1
    BY <1>6, NAssumption DEF Endpoints
  <2>2. C(m) \in Nat /\ C(m - 1) \in Nat
    BY <1>1, <2>1
  <2>3. C(m) = C(m - 1) + Part(S, m)
    BY <1>2, <1>6
  <2> SUFFICES ASSUME m \notin S PROVE FALSE
    OBVIOUS
  <2>4. Part(S, m) = 0
    BY DEF Part
  <2> QED BY <1>3, <1>6, <1>8, <2>2, <2>3, <2>4
<1>10. Good(m)
  <2>1. \A f \in S : f < m => rnd >= C(f)
    <3> SUFFICES ASSUME NEW f \in S, f < m PROVE rnd >= C(f)
      OBVIOUS
    <3>1. f \in Endpoints /\ f \in -1 .. N - 1
      BY DEF Endpoints
    <3>2. C(f) \in Nat
      BY <1>1, <3>1
    <3>3. C(f) <= rnd
      BY <1>7, <3>1
    <3> QED BY <1>3, <3>2, <3>3
  <2> QED BY <1>6, <2>1
<1>11. \A e \in S : Good(e) => e = m
  <2> SUFFICES ASSUME NEW e \in S, Good(e), e # m PROVE FALSE
    OBVIOUS
  <2>1. e \in Int /\ m \in Int /\ C(e) \in Nat /\ C(m) \in Nat
    BY <1>1, <1>6 DEF Endpoints
  <2>2. CASE e < m
    BY <1>3, <1>10, <2>1, <2>2
  <2>3. CASE m < e
    BY <1>3, <1>6, <1>9, <2>1, <2>3
  <2> QED BY <2>1, <2>2, <2>3
<1>12. Pick(S, rnd) = CHOOSE e \in S : Good(e)
  BY DEF Pick, C
<1>13. Pick(S, rnd) = m
  <2> HIDE DEF Good
  <2> QED BY <1>9, <1>10, <1>11, <1>12
<1> QED BY <1>6, <1>8, <1>9, <1>13 DEF C

\* The numbers that lead to an endpoint are as many as it has weight.
LEMMA Shares ==
  ASSUME NEW S \in SUBSET Endpoints, NEW e \in S
  PROVE  Weight(e) = Cardinality({rnd \in 0 .. Total(S) - 1 : Pick(S, rnd) = e})
<1> DEFINE C(i) == Cumulative(S, i)
           R == {rnd \in 0 .. Total(S) - 1 : Pick(S, rnd) = e}
<1>1. \A j \in -1 .. N - 1 : C(j) \in Nat /\ \A i \in -1 .. j : C(i) <= C(j)
  BY CumulativeGrows
<1>2. C(e) = C(e - 1) + Weight(e) /\ Weight(e) \in Nat
  BY CumulativeSum, WeightNat DEF Part
<1>3. e \in Endpoints /\ e \in 0 .. N - 1 /\ e \in -1 .. N - 1 /\ e - 1 \in -1 .. N - 1
      /\ N - 1 \in -1 .. N - 1 /\ e \in -1 .. N - 1
  BY NAssumption DEF Endpoints
<1>4. C(e) \in Nat /\ C(e - 1) \in Nat /\ Total(S) \in Nat /\ C(e) <= Total(S)
  BY <1>1, <1>3 DEF Total
<1>5. ASSUME NEW rnd \in 0 .. Total(S) - 1
      PROVE  Pick(S, rnd) = e <=> C(e - 1) <= rnd /\ rnd < C(e)
  <2> DEFINE p == Pick(S, rnd)
  <2>1. p \in S /\ C(p - 1) <= rnd /\ rnd < C(p)
    BY PickShare
  <2> HIDE DEF p
  <2>2. p \in 0 .. N - 1 /\ p \in -1 .. N - 1 /\ p - 1 \in -1 .. N - 1 /\ rnd \in Nat
    BY <1>4, <2>1, NAssumption DEF Endpoints
  <2>3. C(p) \in Nat /\ C(p - 1) \in Nat
    BY <1>1, <2>2
  <2>4. ASSUME C(e - 1) <= rnd, rnd < C(e) PROVE p = e
    <3>1. CASE p < e
      <4>1. p \in -1 .. e - 1
        BY <1>3, <2>2, <3>1
      <4>2. C(p) <= C(e - 1)
        BY <1>1, <1>3, <4>1
      <4> QED BY <1>4, <2>1, <2>2, <2>3, <2>4, <4>2
    <3>2. CASE e < p
      <4>1. e \in -1 .. p - 1
        BY <1>3, <2>2, <3>2
      <4>2. C(e) <= C(p - 1)
        BY <1>1, <2>2, <4>1
      <4> QED BY <1>4, <2>1, <2>2, <2>3, <2>4, <4>2
    <3> QED BY <1>3, <2>2, <3>1, <3>2
  <2>5. p = e => C(e - 1) <= rnd /\ rnd < C(e)
    BY <2>1
  <2> QED BY <2>4, <2>5 DEF p
<1> HIDE DEF C
<1>6. R = C(e - 1) .. C(e) - 1
  BY <1>4, <1>5
<1>7. Cardinality(C(e - 1) .. C(e) - 1) = Weight(e)
  <2>1. C(e - 1) \in Int /\ C(e) - 1 \in Int
    BY <1>4
  <2>2. Cardinality(C(e - 1) .. C(e) - 1)
          = IF C(e - 1) > C(e) - 1 THEN 0 ELSE (C(e) - 1) - C(e - 1) + 1
    BY <2>1, FS_Interval
  <2> QED BY <1>2, <1>4, <2>2
<1> QED BY Zenon, <1>6, <1>7

-----------------------------------------------------------------------------
(* One step *)

\* What one request does leaves the others where they are, unless their choice
\* is disturbed.
LEMMA OtherKept ==
  ASSUME LBInv, NEW r \in Requests, NEW q \in Requests, q # r, req'[q] = req[q],
         UNCHANGED <<states, alg>>, q \in steady' => q \in steady,
         q \in alone' => q \in alone,
         alg = "round-robin" /\ q \in alone' => counter' = counter \/ q \in Settled,
         alg = "least-conn" /\ Looking(q) =>
           \A e \in Endpoints : conns'[e] \in Nat /\ conns'[e] <= conns[e]
  PROVE  Progress(q)' /\ Knows(q)'
<1>1. Progress(q)'
  BY DEF LBInv, Progress, Stages
<1>2. ASSUME q \in steady' PROVE RoundRobinKnows(q)'
  BY <1>2 DEF LBInv, Knows, RoundRobinKnows, Behind, IsHealthy, Settled
<1>3. ASSUME q \in steady' PROVE WeightedKnows(q)'
  BY <1>3 DEF LBInv, Knows, WeightedKnows, Looking, IsHealthy
<1>4. ASSUME q \in steady' PROVE LeastConnKnows(q)'
  <2>1. q \in steady /\ LeastConnKnows(q)
    BY <1>4 DEF LBInv, Knows
  <2>2. req[q] \in Request /\ conns \in [Endpoints -> Int]
    BY DEF LBInv, BalancerTypeOK
  <2> SUFFICES ASSUME alg = "least-conn", Looking(q)
               PROVE  LeastConnKnows(q)'
    BY DEF LeastConnKnows, Looking
  <2>3. \A e \in Endpoints : conns'[e] \in Nat /\ conns'[e] <= conns[e]
    OBVIOUS
  <2> QED BY <2>1, <2>2, <2>3 DEF LeastConnKnows, Looking, IsHealthy, Request
<1> QED BY <1>1, <1>2, <1>3, <1>4 DEF Knows

\* Only least-conn counts, and only with it the mutex matters.
LEMMA UncountedStep ==
  ASSUME LBInv, NEW r \in Requests, BalancerTypeOK', alg # "least-conn", UNCHANGED <<round, states, alg>>,
         \A q \in Requests : q # r => req'[q] = req[q],
         steady' \subseteq steady \cup {r}, alone' \subseteq alone \cup {r},
         counter' = counter \/ alone' \subseteq Settled \cup {r},
         Progress(r)', Knows(r)'
  PROVE  LBInv'
<1>1. ASSUME NEW q \in Requests, q # r PROVE Progress(q)' /\ Knows(q)'
  BY <1>1, OtherKept
<1>2. (round.answer # "none" => round.at < N)' /\ Mutex' /\ Counted'
  BY DEF LBInv, Mutex, Counted
<1> QED BY <1>1, <1>2 DEF LBInv

\* A request that is not choosing has nothing to know.
LEMMA SettledKnows ==
  ASSUME NEW r \in Requests, req'[r].pc \in {"idle", "proxy"}
  PROVE  Knows(r)'
BY DEF Knows, RoundRobinKnows, WeightedKnows, LeastConnKnows, Looking

LEMMA SettleFields ==
  ASSUME LBInv, NEW r \in Requests, NEW e \in Endpoints, Choose(r, e)
  PROVE  /\ req' \in [Requests -> Request]
         /\ req'[r].pc = "proxy" /\ req'[r].ep = e
         /\ \A q \in Requests : q # r => req'[q] = req[q]
         /\ steady' = steady \cup {r} /\ alone' = alone \cup {r}
<1> DEFINE to == [Idle EXCEPT !.pc = "proxy", !.ep = e]
<1>1. Idle \in Request
  BY NAssumption DEF Idle, Request
<1>2. req' = [req EXCEPT ![r] = to] /\ steady' = steady \cup {r} /\ alone' = alone \cup {r}
  BY DEF Choose, Settle
<1>3. to \in Request /\ to.pc = "proxy" /\ to.ep = e
  BY Zenon, <1>1 DEF Request
<1> HIDE DEF to
<1> QED BY <1>2, <1>3 DEF LBInv, BalancerTypeOK

LEMMA ChooseKeeps ==
  ASSUME LBInv, NEW r \in Requests, NEW e \in Endpoints, Choose(r, e), alg # "least-conn",
         UNCHANGED <<checkerVars, alg, counter, conns, mu>>
  PROVE  LBInv'
<1>1. /\ req' \in [Requests -> Request]
      /\ req'[r].pc = "proxy" /\ req'[r].ep = e
      /\ \A q \in Requests : q # r => req'[q] = req[q]
      /\ steady' = steady \cup {r} /\ alone' = alone \cup {r}
  BY SettleFields
<1>2. BalancerTypeOK'
  BY <1>1 DEF LBInv, BalancerTypeOK, CheckerTypeOK, checkerVars
<1>3. Progress(r)'
  BY <1>1 DEF Progress, Stages
<1>4. Knows(r)'
  BY <1>1, SettledKnows
<1> QED BY <1>1, <1>2, <1>3, <1>4, UncountedStep DEF checkerVars

LEMMA LeaveKeeps ==
  ASSUME LBInv, NEW r \in Requests, Leave(r), alg # "least-conn",
         UNCHANGED <<checkerVars, alg, counter, conns, mu>>
  PROVE  LBInv'
<1>1. Idle \in Request /\ Idle.pc = "idle"
  BY NAssumption DEF Idle, Request
<1>2. /\ req' \in [Requests -> Request]
      /\ req'[r] = Idle
      /\ \A q \in Requests : q # r => req'[q] = req[q]
      /\ steady' = steady \cup {r} /\ alone' = alone \cup {r}
  BY <1>1 DEF Leave, Settle, LBInv, BalancerTypeOK
<1>3. BalancerTypeOK'
  BY <1>2 DEF LBInv, BalancerTypeOK, CheckerTypeOK, checkerVars
<1>4. Progress(r)'
  BY <1>1, <1>2 DEF Progress, Stages
<1>5. Knows(r)'
  BY <1>1, <1>2, SettledKnows
<1> QED BY <1>2, <1>3, <1>4, <1>5, UncountedStep DEF checkerVars

LEMMA AddFields ==
  ASSUME LBInv, NEW r \in Requests, Add(r)
  PROVE  /\ alg = "round-robin"
         /\ counter' = (IF counter + 1 = N THEN 0 ELSE counter + 1)
         /\ counter' \in Endpoints
         /\ req' \in [Requests -> Request]
         /\ req'[r].pc = "check" /\ req'[r].ep = counter' /\ req'[r].at = req[r].at + 1
         /\ req'[r].at \in 1 .. N
         /\ \A q \in Requests : q # r => req'[q] = req[q]
<1> DEFINE next == (counter + 1) % N
<1>1. counter \in 0 .. N - 1 /\ N \in Nat \ {0}
  BY NAssumption DEF LBInv, BalancerTypeOK, Endpoints
<1>2. next = (IF counter + 1 = N THEN 0 ELSE counter + 1)
  BY <1>1
<1> HIDE DEF next
<1>3. /\ alg = "round-robin" /\ counter' = next
      /\ req[r].pc \in {"idle", "add"}
      /\ req' = [req EXCEPT ![r].pc = "check", ![r].ep = next, ![r].at = @ + 1]
  BY DEF Add, next
<1>4. next \in Endpoints
  BY <1>1, <1>2 DEF Endpoints
<1>5. req[r].at = 0 \/ req[r].at \in 1 .. N - 1
  BY <1>3 DEF LBInv, Progress, Idle
<1>6. req[r].at + 1 \in 1 .. N
  BY <1>1, <1>5
<1>7. req \in [Requests -> Request]
  BY DEF LBInv, BalancerTypeOK
<1>8. req' \in [Requests -> Request]
  BY <1>3, <1>4, <1>6, <1>7 DEF Request
<1>9. /\ req'[r].pc = "check" /\ req'[r].ep = next /\ req'[r].at = req[r].at + 1
      /\ \A q \in Requests : q # r => req'[q] = req[q]
  BY <1>3, <1>7 DEF Request
<1> QED BY <1>2, <1>3, <1>4, <1>6, <1>8, <1>9

\* The counter leaves everything one step further behind but the endpoint it
\* moves to.
LEMMA BehindGrows ==
  ASSUME NEW c \in Endpoints, NEW d \in Endpoints, NEW e \in Endpoints,
         d = (IF c + 1 = N THEN 0 ELSE c + 1), e # d
  PROVE  (IF e <= d THEN d - e ELSE d + N - e) = (IF e <= c THEN c - e ELSE c + N - e) + 1
BY NAssumption DEF Endpoints

LEMMA AddKeeps ==
  ASSUME LBInv, NEW r \in Requests, Add(r)
  PROVE  LBInv'
<1>1. /\ alg = "round-robin"
      /\ counter' = (IF counter + 1 = N THEN 0 ELSE counter + 1)
      /\ counter' \in Endpoints
      /\ req' \in [Requests -> Request]
      /\ req'[r].pc = "check" /\ req'[r].ep = counter' /\ req'[r].at = req[r].at + 1
      /\ req'[r].at \in 1 .. N
      /\ \A q \in Requests : q # r => req'[q] = req[q]
  BY AddFields
<1>2. /\ req[r].pc \in {"idle", "add"}
      /\ alone' = alone \cap (Settled \cup {r})
      /\ UNCHANGED <<up, path, states, round, alg, conns, mu, steady>>
  BY DEF Add, checkerVars
<1>3. BalancerTypeOK'
  BY <1>1, <1>2 DEF LBInv, BalancerTypeOK, CheckerTypeOK
<1>4. Progress(r)'
  BY <1>1, <1>2 DEF Progress, Stages
<1>5. ASSUME r \in steady', r \in alone', NEW e \in Endpoints, e # counter',
             Behind(e)' < req'[r].at
      PROVE  ~IsHealthy(e)'
  <2>1. counter \in Endpoints /\ req[r].at \in Int
    BY DEF LBInv, BalancerTypeOK, Request
  <2>2. Behind(e)' = Behind(e) + 1 /\ Behind(e) \in Nat
    <3>1. Behind(e)' = Behind(e) + 1
      BY <1>1, <1>5, <2>1, BehindGrows DEF Behind
    <3>2. Behind(e) \in Nat
      BY <2>1, NAssumption DEF Behind, Endpoints
    <3> QED BY <3>1, <3>2
  <2>3. Behind(e) < req[r].at
    BY <1>1, <1>5, <2>1, <2>2
  <2>4. req[r].pc = "add"
    BY <1>2, <2>2, <2>3 DEF LBInv, Progress, Idle
  <2>5. ~IsHealthy(e)
    BY <1>1, <1>2, <1>5, <2>3, <2>4 DEF LBInv, Knows, RoundRobinKnows
  <2> QED BY <1>2, <2>5 DEF IsHealthy
<1>6. Knows(r)'
  <2>1. r \in steady' => RoundRobinKnows(r)'
    BY <1>1, <1>5 DEF RoundRobinKnows
  <2> QED BY <1>1, <1>2, <2>1 DEF Knows, WeightedKnows, LeastConnKnows
<1> QED BY <1>1, <1>2, <1>3, <1>4, <1>6, UncountedStep

LEMMA CheckNextKeeps ==
  ASSUME LBInv, NEW r \in Requests, CheckNext(r)
  PROVE  LBInv'
<1>1. req[r].pc = "check" /\ UNCHANGED <<checkerVars, alg, counter, conns, mu>>
  BY DEF CheckNext
<1>2. alg = "round-robin" /\ req[r].ep \in Endpoints /\ req[r].at \in 1 .. N
  BY <1>1 DEF LBInv, Progress, Stages
<1>3. CASE IsHealthy(req[r].ep)
  BY <1>1, <1>2, <1>3, ChooseKeeps DEF CheckNext
<1>4. CASE ~IsHealthy(req[r].ep)
  <2> DEFINE pc == IF req[r].at < N THEN "add" ELSE "load"
  <2>1. pc \in {"add", "load"} /\ (pc = "add" => req[r].at < N) /\ (pc = "load" => ~(req[r].at < N))
    OBVIOUS
  <2>2. /\ req' = [req EXCEPT ![r].pc = pc, ![r].ep = None]
        /\ UNCHANGED <<steady, alone>>
    BY <1>4 DEF CheckNext, Goto
  <2> HIDE DEF pc
  <2>3. req \in [Requests -> Request]
    BY DEF LBInv, BalancerTypeOK
  <2>4. req' \in [Requests -> Request]
    <3>1. req[r] \in Request
      BY <2>3
    <3>2. [req[r] EXCEPT !.pc = pc, !.ep = None] \in Request
      BY Zenon, <2>1, <3>1 DEF Request
    <3>3. req' = [req EXCEPT ![r] = [req[r] EXCEPT !.pc = pc, !.ep = None]]
      BY Zenon, <2>2
    <3> QED BY <2>3, <3>2, <3>3
  <2>5. /\ req'[r].pc = pc /\ req'[r].at = req[r].at
        /\ \A q \in Requests : q # r => req'[q] = req[q]
    BY <2>2, <2>3 DEF Request
  <2>6. UNCHANGED <<up, path, states, round>>
    BY <1>1 DEF checkerVars
  <2>7. BalancerTypeOK'
    BY <1>1, <2>2, <2>4, <2>6 DEF LBInv, BalancerTypeOK, CheckerTypeOK
  <2>8. Progress(r)'
    <3>1. pc = "add" => req[r].at \in 1 .. N - 1
      BY <1>2, <2>1, NAssumption
    <3>2. pc = "load" => req[r].at = N
      BY <1>2, <2>1, NAssumption
    <3> QED BY <1>1, <1>2, <2>1, <2>5, <3>1, <3>2 DEF Progress, Stages
  <2>9. ASSUME r \in steady', r \in alone', NEW e \in Endpoints, Behind(e)' < req'[r].at
        PROVE  ~IsHealthy(e)'
    <3>1. r \in steady /\ r \in alone /\ Behind(e) < req[r].at
      BY <1>1, <2>2, <2>5, <2>9 DEF Behind
    <3>2. RoundRobinKnows(r)
      BY <3>1 DEF LBInv, Knows
    <3>3. ~IsHealthy(e)
      BY <1>1, <1>2, <1>4, <3>1, <3>2 DEF RoundRobinKnows
    <3> QED BY <2>6, <3>3 DEF IsHealthy
  <2>10. Knows(r)'
    <3>1. r \in steady' => RoundRobinKnows(r)'
      BY <2>1, <2>5, <2>9 DEF RoundRobinKnows
    <3> QED BY <1>1, <1>2, <3>1 DEF Knows, WeightedKnows, LeastConnKnows
  <2> QED BY Zenon, <1>1, <1>2, <2>2, <2>5, <2>6, <2>7, <2>8, <2>10, UncountedStep
<1> QED BY <1>3, <1>4

LEMMA LoadKeeps ==
  ASSUME LBInv, NEW r \in Requests, Load(r)
  PROVE  LBInv'
<1>1. alg = "round-robin"
  BY DEF Load, LBInv, Progress, Stages
<1>2. counter \in Endpoints
  BY DEF LBInv, BalancerTypeOK
<1> QED BY <1>1, <1>2, ChooseKeeps DEF Load

LEMMA FilterFields ==
  ASSUME LBInv, NEW r \in Requests, Filter(r)
  PROVE  /\ alg \in {"weighted", "split"} /\ req[r].pc \in {"idle", "scan"}
         /\ req[r].at \in Endpoints
         /\ req' \in [Requests -> Request]
         /\ req'[r].at = req[r].at + 1
         /\ req'[r].seen = (IF IsHealthy(req[r].at) THEN req[r].seen \cup {req[r].at} ELSE req[r].seen)
         /\ req'[r].pc = (IF req[r].at + 1 = N THEN "pick" ELSE "scan")
         /\ \A q \in Requests : q # r => req'[q] = req[q]
<1> DEFINE e == req[r].at
           seen == IF IsHealthy(e) THEN req[r].seen \cup {e} ELSE req[r].seen
           pc == IF e + 1 = N THEN "pick" ELSE "scan"
           to == [req[r] EXCEPT !.at = e + 1, !.seen = seen, !.pc = pc]
<1>1. alg \in {"weighted", "split"} /\ req[r].pc \in {"idle", "scan"} /\ req' = [req EXCEPT ![r] = to]
  BY Zenon DEF Filter
<1>2. req \in [Requests -> Request] /\ req[r] \in Request
  BY DEF LBInv, BalancerTypeOK
<1>3. e \in Endpoints
  <2>1. e = 0 \/ e < N
    BY <1>1 DEF LBInv, Progress, Idle
  <2>2. e \in 0 .. N
    BY <1>2 DEF Request
  <2> QED BY <2>1, <2>2, NAssumption DEF Endpoints
<1>4. e + 1 \in 0 .. N
  BY <1>3, NAssumption DEF Endpoints
<1>5. seen \in SUBSET Endpoints /\ pc \in {"pick", "scan"}
  BY <1>2, <1>3 DEF Request
<1>6. to \in Request /\ to.at = e + 1 /\ to.seen = seen /\ to.pc = pc
  <2> HIDE DEF e, seen, pc
  <2> QED BY Zenon, <1>2, <1>4, <1>5 DEF Request
<1>7. req' \in [Requests -> Request] /\ req'[r] = to /\ \A q \in Requests : q # r => req'[q] = req[q]
  <2> HIDE DEF to
  <2> QED BY <1>1, <1>2, <1>6
<1> HIDE DEF to
<1> QED BY <1>1, <1>3, <1>6, <1>7

LEMMA FilterKeeps ==
  ASSUME LBInv, NEW r \in Requests, Filter(r)
  PROVE  LBInv'
<1>1. /\ alg \in {"weighted", "split"} /\ req[r].pc \in {"idle", "scan"}
      /\ req[r].at \in Endpoints
      /\ req' \in [Requests -> Request]
      /\ req'[r].at = req[r].at + 1
      /\ req'[r].seen = (IF IsHealthy(req[r].at) THEN req[r].seen \cup {req[r].at} ELSE req[r].seen)
      /\ req'[r].pc = (IF req[r].at + 1 = N THEN "pick" ELSE "scan")
      /\ \A q \in Requests : q # r => req'[q] = req[q]
  BY Zenon, FilterFields
<1>2. UNCHANGED <<up, path, states, round, alg, counter, conns, mu, steady, alone>>
  BY DEF Filter, checkerVars
<1>3. BalancerTypeOK'
  BY <1>1, <1>2 DEF LBInv, BalancerTypeOK, CheckerTypeOK
<1>4. Progress(r)'
  <2>1. req'[r].pc \in {"pick", "scan"} /\ Stages' = {"idle", "scan", "pick", "proxy"}
    BY <1>1, <1>2 DEF Stages
  <2>2. req'[r].pc = "pick" => req'[r].at = N
    BY <1>1
  <2>3. req'[r].pc = "scan" => req'[r].at < N
    BY <1>1, NAssumption DEF Endpoints
  <2> QED BY <2>1, <2>2, <2>3 DEF Progress
<1>5. ASSUME r \in steady'
      PROVE  req'[r].seen = {e \in Endpoints : e < req'[r].at /\ IsHealthy(e)'}
  <2>1. req[r].seen = {e \in Endpoints : e < req[r].at /\ IsHealthy(e)}
    <3>1. CASE req[r].pc = "idle"
      <4>1. req[r].seen = {} /\ req[r].at = 0
        BY <3>1 DEF LBInv, Progress, Idle
      <4> QED BY <4>1, NAssumption DEF Endpoints
    <3>2. CASE req[r].pc = "scan"
      BY <1>1, <1>2, <1>5, <3>2 DEF LBInv, Knows, WeightedKnows, Looking
    <3> QED BY <1>1, <3>1, <3>2
  <2>2. \A e \in Endpoints : e < req[r].at + 1 <=> e < req[r].at \/ e = req[r].at
    BY <1>1, NAssumption DEF Endpoints
  <2>3. \A e \in Endpoints : IsHealthy(e)' <=> IsHealthy(e)
    BY <1>2 DEF IsHealthy
  <2> QED BY <1>1, <2>1, <2>2, <2>3
<1>6. Knows(r)'
  <2>1. r \in steady' => WeightedKnows(r)'
    BY <1>5 DEF WeightedKnows
  <2> QED BY <1>1, <1>2, <2>1 DEF Knows, RoundRobinKnows, LeastConnKnows
<1> QED BY <1>1, <1>2, <1>3, <1>4, <1>6, UncountedStep

\* A weighted request gets one of the eligible endpoints.
LEMMA WeightedChoice ==
  ASSUME LBInv, NEW r \in Requests, PickWeighted(r), ~Leave(r)
  PROVE  \E e \in IF req[r].seen = {} THEN Endpoints ELSE req[r].seen : e \in Endpoints /\ Choose(r, e)
<1> DEFINE eligible == IF req[r].seen = {} THEN Endpoints ELSE req[r].seen
<1>1. eligible \in SUBSET Endpoints
  BY DEF LBInv, BalancerTypeOK, Request
<1>2. PICK e \in {Pick(eligible, rnd) : rnd \in 0 .. Total(eligible) - 1} : Choose(r, e)
  BY DEF PickWeighted
<1> HIDE DEF eligible
<1>3. e \in eligible
  BY <1>1, <1>2, PickShare
<1> QED BY <1>1, <1>2, <1>3 DEF eligible

LEMMA PickWeightedKeeps ==
  ASSUME LBInv, NEW r \in Requests, PickWeighted(r)
  PROVE  LBInv'
<1>1. alg # "least-conn" /\ UNCHANGED <<checkerVars, alg, counter, conns, mu>>
  BY DEF PickWeighted
<1>2. CASE Leave(r)
  BY <1>1, <1>2, LeaveKeeps
<1>3. CASE ~Leave(r)
  <2>1. PICK e \in Endpoints : Choose(r, e)
    BY <1>3, WeightedChoice
  <2> QED BY <1>1, <2>1, ChooseKeeps
<1> QED BY <1>2, <1>3

LEMMA LockKeeps ==
  ASSUME LBInv, NEW r \in Requests, Lock(r)
  PROVE  LBInv'
<1> DEFINE idle == {e \in Healthy : conns[e] = 0}
           to == [req[r] EXCEPT !.pc = "scan", !.idle = idle]
<1>1. /\ alg = "least-conn" /\ req[r].pc = "idle" /\ mu = None /\ mu' = r
      /\ req' = [req EXCEPT ![r] = to]
      /\ UNCHANGED <<up, path, states, round, alg, counter, conns, steady, alone>>
  BY Zenon DEF Lock, checkerVars
<1>2. req \in [Requests -> Request] /\ req[r] \in Request
  BY DEF LBInv, BalancerTypeOK
<1>3. req[r].at = 0 /\ req[r].ep = None /\ req[r].count = -1
  BY <1>1 DEF LBInv, Progress, Idle
<1>4. idle \in SUBSET Endpoints /\ \A e \in idle : IsHealthy(e) /\ conns[e] = 0
  BY DEF Healthy
<1> HIDE DEF idle
<1>5. /\ to \in Request /\ to.pc = "scan" /\ to.idle = idle
      /\ to.at = req[r].at /\ to.ep = req[r].ep /\ to.count = req[r].count
  BY Zenon, <1>2, <1>4 DEF Request
<1> HIDE DEF to
<1>6. req' \in [Requests -> Request] /\ req'[r] = to /\ \A q \in Requests : q # r => req'[q] = req[q]
  BY <1>1, <1>2, <1>5
<1>7. BalancerTypeOK'
  BY <1>1, <1>6 DEF LBInv, BalancerTypeOK, CheckerTypeOK
<1>8. (round.answer # "none" => round.at < N)'
  BY <1>1 DEF LBInv
<1>9. Mutex'
  <2>1. \A q \in Requests : ~Looking(q)
    BY <1>1, BalancerAssumption DEF LBInv, Mutex
  <2> QED BY <1>1, <1>5, <1>6, <2>1 DEF Mutex, Looking
<1>10. Counted'
  <2>1. \A e \in Endpoints : On(e)' = On(e)
    BY <1>1, <1>5, <1>6 DEF On
  <2> QED BY <1>1, <2>1 DEF LBInv, Counted
<1>11. Progress(r)'
  BY <1>1, <1>3, <1>5, <1>6, NAssumption DEF Progress, Stages
<1>12. Knows(r)'
  <2>1. req'[r].at = 0 /\ req'[r].ep = None /\ req'[r].count = -1 /\ req'[r].idle = idle
    BY <1>3, <1>5, <1>6
  <2>2. \A e \in Endpoints : ~(e < 0)
    BY DEF Endpoints
  <2>3. \A e \in idle : IsHealthy(e)' /\ conns'[e] = 0 /\ e \in Endpoints
    BY <1>1, <1>4 DEF IsHealthy
  <2>4. LeastConnKnows(r)'
    BY <2>1, <2>2, <2>3 DEF LeastConnKnows
  <2> QED BY <1>1, <2>4 DEF Knows, RoundRobinKnows, WeightedKnows
<1>13. ASSUME NEW q \in Requests, q # r PROVE Progress(q)' /\ Knows(q)'
  <2>1. ~Looking(q)
    BY <1>1, BalancerAssumption DEF LBInv, Mutex
  <2> QED BY <1>1, <1>6, <1>13, <2>1, OtherKept
<1> QED BY <1>6, <1>7, <1>8, <1>9, <1>10, <1>11, <1>12, <1>13 DEF LBInv

LEMMA CompareFields ==
  ASSUME LBInv, NEW r \in Requests, Compare(r)
  PROVE  /\ req[r].at \in Endpoints
         /\ req' \in [Requests -> Request]
         /\ req'[r].at = req[r].at + 1
         /\ req'[r].idle = req[r].idle
         /\ req'[r].pc = (IF req[r].at + 1 = N THEN "pick" ELSE "scan")
         /\ \/ /\ IsHealthy(req[r].at) /\ (req[r].count < 0 \/ conns[req[r].at] < req[r].count)
               /\ req'[r].ep = req[r].at /\ req'[r].count = conns[req[r].at]
            \/ /\ ~(IsHealthy(req[r].at) /\ (req[r].count < 0 \/ conns[req[r].at] < req[r].count))
               /\ req'[r].ep = req[r].ep /\ req'[r].count = req[r].count
         /\ \A q \in Requests : q # r => req'[q] = req[q]
<1> DEFINE e == req[r].at
           better == IsHealthy(e) /\ (req[r].count < 0 \/ conns[e] < req[r].count)
           ep == IF better THEN e ELSE req[r].ep
           count == IF better THEN conns[e] ELSE req[r].count
           pc == IF e + 1 = N THEN "pick" ELSE "scan"
           to == [req[r] EXCEPT !.at = e + 1, !.ep = ep, !.count = count, !.pc = pc]
<1>1. req[r].pc = "scan" /\ req' = [req EXCEPT ![r] = to]
  BY Zenon DEF Compare
<1>2. req \in [Requests -> Request] /\ req[r] \in Request /\ conns \in [Endpoints -> Int]
  BY DEF LBInv, BalancerTypeOK
<1>3. e \in Endpoints
  <2>1. e < N
    BY <1>1 DEF LBInv, Progress
  <2>2. e \in 0 .. N
    BY <1>2 DEF Request
  <2> QED BY <2>1, <2>2, NAssumption DEF Endpoints
<1>4. e + 1 \in 0 .. N
  BY <1>3, NAssumption DEF Endpoints
<1>5. pc \in {"pick", "scan"}
  OBVIOUS
<1>6. \/ better /\ ep = e /\ count = conns[e]
      \/ ~better /\ ep = req[r].ep /\ count = req[r].count
  <2> HIDE DEF better
  <2> QED OBVIOUS
<1>7. ep \in Endpoints \cup {None} /\ count \in Int
  <2>1. req[r].ep \in Endpoints \cup {None} /\ req[r].count \in Int
    BY <1>2 DEF Request
  <2> HIDE DEF better, ep, count
  <2> QED BY <1>2, <1>3, <1>6, <2>1
<1>8. /\ to \in Request /\ to.at = e + 1 /\ to.ep = ep /\ to.count = count
      /\ to.pc = pc /\ to.idle = req[r].idle
  <2> HIDE DEF e, ep, count, pc
  <2> QED BY Zenon, <1>2, <1>4, <1>5, <1>7 DEF Request
<1>9. req' \in [Requests -> Request] /\ req'[r] = to /\ \A q \in Requests : q # r => req'[q] = req[q]
  <2> HIDE DEF to
  <2> QED BY <1>1, <1>2, <1>8
<1> HIDE DEF to, ep, count
<1> QED BY <1>3, <1>6, <1>8, <1>9

\* Among the endpoints looked at so far the best remains the best.
LEMMA CompareKnows ==
  ASSUME LBInv, NEW r \in Requests, Compare(r), r \in steady
  PROVE  LeastConnKnows(r)'
<1>1. /\ req[r].at \in Endpoints
      /\ req'[r].at = req[r].at + 1
      /\ req'[r].idle = req[r].idle
      /\ \/ /\ IsHealthy(req[r].at) /\ (req[r].count < 0 \/ conns[req[r].at] < req[r].count)
            /\ req'[r].ep = req[r].at /\ req'[r].count = conns[req[r].at]
         \/ /\ ~(IsHealthy(req[r].at) /\ (req[r].count < 0 \/ conns[req[r].at] < req[r].count))
            /\ req'[r].ep = req[r].ep /\ req'[r].count = req[r].count
  BY CompareFields
<1>2. alg = "least-conn" /\ req[r].pc = "scan" /\ UNCHANGED <<states, conns, alg>>
  BY DEF Compare, checkerVars
<1>3. LeastConnKnows(r) /\ Looking(r)
  BY <1>2 DEF LBInv, Knows, Looking
<1>4. /\ req[r].ep # None => IsHealthy(req[r].ep) /\ req[r].count >= 0 /\ conns[req[r].ep] <= req[r].count
      /\ req[r].ep = None => req[r].count = -1 /\ \A e \in Endpoints : e < req[r].at => ~IsHealthy(e)
      /\ \A e \in req[r].idle :
           IsHealthy(e) /\ conns[e] = 0 /\ (e < req[r].at => req[r].count = 0)
  BY <1>2, <1>3 DEF LeastConnKnows
<1>5. /\ conns \in [Endpoints -> Int] /\ \A e \in Endpoints : conns[e] \in Nat
      /\ req[r].ep \in Endpoints \cup {None} /\ req[r].count \in Int /\ req[r].idle \subseteq Endpoints
  <2>1. conns \in [Endpoints -> Int] /\ req[r] \in Request
    BY DEF LBInv, BalancerTypeOK
  <2>2. \A e \in Endpoints : conns[e] \in Nat
    BY <1>2, FS_CardinalityType DEF LBInv, Counted
  <2> QED BY <2>1, <2>2 DEF Request
<1>6. \A e \in Endpoints : IsHealthy(e)' <=> IsHealthy(e)
  BY <1>2 DEF IsHealthy
<1>7. \A e \in Endpoints : e < req[r].at + 1 <=> e < req[r].at \/ e = req[r].at
  BY <1>1 DEF Endpoints
<1>8. req[r].at # None
  BY <1>1, BalancerAssumption
<1>9. /\ req'[r].ep # None => IsHealthy(req'[r].ep) /\ req'[r].count >= 0 /\ conns[req'[r].ep] <= req'[r].count
      /\ req'[r].ep # None => req'[r].ep \in Endpoints
      /\ req'[r].ep = None => req'[r].count = -1
  <2>1. CASE IsHealthy(req[r].at) /\ req'[r].ep = req[r].at /\ req'[r].count = conns[req[r].at]
    <3>1. conns[req[r].at] \in Nat
      BY Zenon, <1>1, <1>5
    <3>2. conns[req[r].at] >= 0 /\ conns[req[r].at] <= conns[req[r].at]
      BY <3>1
    <3> QED BY Zenon, <1>1, <1>8, <2>1, <3>2
  <2>2. CASE req'[r].ep = req[r].ep /\ req'[r].count = req[r].count
    BY Zenon, <1>4, <1>5, <2>2
  <2> QED BY Zenon, <1>1, <2>1, <2>2
<1>10. ASSUME req'[r].ep = None, NEW e \in Endpoints, e < req'[r].at PROVE ~IsHealthy(e)
  <2>1. req[r].ep = None /\ ~(IsHealthy(req[r].at) /\ (req[r].count < 0 \/ conns[req[r].at] < req[r].count))
    BY Zenon, <1>1, <1>8, <1>10
  <2>2. req[r].count = -1 /\ (e < req[r].at => ~IsHealthy(e))
    BY Zenon, <1>4, <2>1
  <2>3. ~IsHealthy(req[r].at)
    BY <2>1, <2>2
  <2> QED BY Zenon, <1>1, <1>7, <1>10, <2>2, <2>3
<1>11. ASSUME NEW e \in req'[r].idle, e < req'[r].at PROVE req'[r].count = 0
  <2>1. e \in req[r].idle /\ e \in Endpoints /\ IsHealthy(e) /\ conns[e] = 0 /\ conns[req[r].at] \in Nat
    BY <1>1, <1>4, <1>5, <1>11
  <2>2. req[r].count >= 0 \/ req[r].ep = None
    BY <1>4
  <2>3. CASE e < req[r].at
    <3>1. req[r].count = 0
      BY Zenon, <1>4, <2>1, <2>3
    <3>2. ~(req[r].count < 0 \/ conns[req[r].at] < req[r].count)
      BY <2>1, <3>1
    <3> QED BY Zenon, <1>1, <3>1, <3>2
  <2>4. CASE e = req[r].at
    <3>1. req[r].count < 0 \/ 0 < req[r].count \/ req[r].count = 0
      BY <1>5
    <3> QED BY <1>1, <2>1, <2>4, <3>1
  <2> QED BY <1>1, <1>7, <1>11, <2>1, <2>3, <2>4
<1>12. \A e \in req'[r].idle : IsHealthy(e) /\ conns[e] = 0 /\ e \in Endpoints
  BY <1>1, <1>4, <1>5
<1> QED BY <1>2, <1>6, <1>9, <1>10, <1>11, <1>12 DEF LeastConnKnows

LEMMA CompareKeeps ==
  ASSUME LBInv, NEW r \in Requests, Compare(r)
  PROVE  LBInv'
<1>1. /\ req[r].at \in Endpoints
      /\ req' \in [Requests -> Request]
      /\ req'[r].at = req[r].at + 1
      /\ req'[r].pc = (IF req[r].at + 1 = N THEN "pick" ELSE "scan")
      /\ \A q \in Requests : q # r => req'[q] = req[q]
  BY CompareFields
<1>2. /\ alg = "least-conn" /\ req[r].pc = "scan"
      /\ UNCHANGED <<up, path, states, round, alg, counter, conns, mu, steady, alone>>
  BY DEF Compare, checkerVars
<1>3. BalancerTypeOK'
  BY <1>1, <1>2 DEF LBInv, BalancerTypeOK, CheckerTypeOK
<1>4. (round.answer # "none" => round.at < N)'
  BY <1>2 DEF LBInv
<1>5. req'[r].pc \in {"pick", "scan"}
  BY <1>1
<1>6. Mutex'
  <2>1. \A q \in Requests : Looking(q)' <=> Looking(q)
    BY <1>1, <1>2, <1>5 DEF Looking
  <2> QED BY <1>2, <2>1 DEF LBInv, Mutex
<1>7. Counted'
  <2>1. \A e \in Endpoints : On(e)' = On(e)
    BY <1>1, <1>2, <1>5 DEF On
  <2> QED BY <1>2, <2>1 DEF LBInv, Counted
<1>8. Progress(r)'
  <2>1. req'[r].pc = "pick" => req'[r].at = N
    BY <1>1
  <2>2. req'[r].pc = "scan" => req'[r].at < N
    BY <1>1, NAssumption DEF Endpoints
  <2>3. Stages' = {"idle", "scan", "pick", "proxy"}
    BY <1>2 DEF Stages
  <2> QED BY <1>5, <2>1, <2>2, <2>3 DEF Progress
<1>9. Knows(r)'
  BY <1>2, CompareKnows DEF Knows, RoundRobinKnows, WeightedKnows
<1>10. ASSUME NEW q \in Requests, q # r PROVE Progress(q)' /\ Knows(q)'
  <2>1. ~Looking(q)
    BY <1>2, <1>10 DEF LBInv, Mutex, Looking
  <2> QED BY <1>1, <1>2, <1>10, <2>1, OtherKept
<1> QED BY <1>3, <1>4, <1>6, <1>7, <1>8, <1>9, <1>10 DEF LBInv

\* A request in the set of those on e is one more, or one less.
LEMMA OneMore ==
  ASSUME NEW S, IsFiniteSet(S), NEW x, x \notin S
  PROVE  IsFiniteSet(S \cup {x}) /\ Cardinality(S \cup {x}) = Cardinality(S) + 1
BY FS_AddElement

LEMMA OneLess ==
  ASSUME NEW S, IsFiniteSet(S), NEW x \in S
  PROVE  IsFiniteSet(S \ {x}) /\ Cardinality(S \ {x}) = Cardinality(S) - 1
BY FS_RemoveElement

LEMMA TakeKeeps ==
  ASSUME LBInv, NEW r \in Requests, Take(r)
  PROVE  LBInv'
<1> DEFINE best == IF req[r].ep = None THEN 0 ELSE req[r].ep
<1>1. /\ alg = "least-conn" /\ req[r].pc = "pick"
      /\ conns' = [conns EXCEPT ![best] = @ + 1] /\ mu' = None /\ Choose(r, best)
      /\ UNCHANGED <<up, path, states, round, alg, counter>>
  BY DEF Take, checkerVars
<1>2. best \in Endpoints
  <2>1. req[r].ep \in Endpoints \cup {None}
    BY DEF LBInv, BalancerTypeOK, Request
  <2>2. 0 \in Endpoints
    BY NAssumption DEF Endpoints
  <2> QED BY <2>1, <2>2
<1> HIDE DEF best
<1>3. /\ req' \in [Requests -> Request]
      /\ req'[r].pc = "proxy" /\ req'[r].ep = best
      /\ \A q \in Requests : q # r => req'[q] = req[q]
      /\ steady' = steady \cup {r} /\ alone' = alone \cup {r}
  BY <1>1, <1>2, SettleFields
<1>4. conns \in [Endpoints -> Int]
  BY DEF LBInv, BalancerTypeOK
<1>5. /\ conns' \in [Endpoints -> Int] /\ conns'[best] = conns[best] + 1
      /\ \A e \in Endpoints : e # best => conns'[e] = conns[e]
  BY <1>1, <1>2, <1>4
<1>6. BalancerTypeOK'
  BY <1>1, <1>3, <1>5 DEF LBInv, BalancerTypeOK, CheckerTypeOK
<1>7. (round.answer # "none" => round.at < N)'
  BY <1>1 DEF LBInv
<1>8. \A q \in Requests : q # r => ~Looking(q)
  BY <1>1 DEF LBInv, Mutex, Looking
<1>9. Mutex'
  <2>1. \A q \in Requests : ~Looking(q)'
    BY <1>3, <1>8 DEF Looking
  <2> QED BY <1>1, <2>1, BalancerAssumption DEF Mutex
<1>10. Counted'
  <2> SUFFICES ASSUME NEW e \in Endpoints
               PROVE  IsFiniteSet(On(e)') /\ conns'[e] = Cardinality(On(e)')
    BY DEF Counted
  <2>1. IsFiniteSet(On(e)) /\ conns[e] = Cardinality(On(e)) /\ r \notin On(e)
    BY <1>1 DEF LBInv, Counted, On
  <2>2. CASE e = best
    <3>1. On(e)' = On(e) \cup {r}
      BY <1>1, <1>3, <2>2 DEF On
    <3> QED BY <1>5, <2>1, <2>2, <3>1, OneMore
  <2>3. CASE e # best
    <3>1. On(e)' = On(e)
      BY <1>1, <1>3, <2>3 DEF On
    <3> QED BY <1>5, <2>1, <2>3, <3>1
  <2> QED BY <2>2, <2>3
<1>11. Progress(r)'
  BY <1>1, <1>2, <1>3 DEF Progress, Stages
<1>12. Knows(r)'
  BY <1>3, SettledKnows
<1>13. ASSUME NEW q \in Requests, q # r PROVE Progress(q)' /\ Knows(q)'
  BY <1>1, <1>3, <1>8, <1>13, OtherKept
<1> QED BY <1>6, <1>7, <1>9, <1>10, <1>11, <1>12, <1>13 DEF LBInv

LEMMA DoneKeeps ==
  ASSUME LBInv, NEW r \in Requests, Done(r)
  PROVE  LBInv'
<1> DEFINE ep == req[r].ep
<1>1. /\ req[r].pc = "proxy" /\ req' = [req EXCEPT ![r] = Idle]
      /\ conns' = IF alg = "least-conn" THEN [conns EXCEPT ![ep] = @ - 1] ELSE conns
      /\ UNCHANGED <<up, path, states, round, alg, counter, mu, steady, alone>>
  BY DEF Done, checkerVars
<1>2. ep \in Endpoints
  BY <1>1 DEF LBInv, Progress
<1> HIDE DEF ep
<1>3. Idle \in Request /\ Idle.pc = "idle"
  <2>1. 0 \in 0 .. N /\ -1 \in Int
    BY NAssumption
  <2> QED BY Zenon, <2>1 DEF Idle, Request
<1>4. req \in [Requests -> Request] /\ conns \in [Endpoints -> Int]
  BY DEF LBInv, BalancerTypeOK
<1>5. req' \in [Requests -> Request] /\ req'[r] = Idle /\ \A q \in Requests : q # r => req'[q] = req[q]
  BY <1>1, <1>3, <1>4
<1>6. conns' \in [Endpoints -> Int]
  BY <1>1, <1>2, <1>4
<1>7. BalancerTypeOK'
  BY <1>1, <1>5, <1>6 DEF LBInv, BalancerTypeOK, CheckerTypeOK
<1>8. Progress(r)'
  BY <1>3, <1>5 DEF Progress, Stages
<1>9. Knows(r)'
  BY <1>3, <1>5, SettledKnows
<1>10. CASE alg # "least-conn"
  BY <1>1, <1>5, <1>7, <1>8, <1>9, <1>10, UncountedStep
<1>11. CASE alg = "least-conn"
  <2>1. /\ conns'[ep] = conns[ep] - 1
        /\ \A e \in Endpoints : e # ep => conns'[e] = conns[e]
    BY <1>1, <1>2, <1>4, <1>11
  <2>2. ASSUME NEW e \in Endpoints
        PROVE  /\ IsFiniteSet(On(e)') /\ conns'[e] = Cardinality(On(e)')
               /\ conns'[e] \in Nat /\ conns'[e] <= conns[e]
    <3>1. IsFiniteSet(On(e)) /\ conns[e] = Cardinality(On(e))
      BY <1>11 DEF LBInv, Counted
    <3>2. CASE e = ep
      <4>1. On(e)' = On(e) \ {r} /\ r \in On(e)
        BY <1>1, <1>3, <1>5, <3>2 DEF On, ep
      <4>2. IsFiniteSet(On(e)') /\ Cardinality(On(e)') = Cardinality(On(e)) - 1
        BY <3>1, <4>1, OneLess
      <4> QED BY <2>1, <3>1, <3>2, <4>2, FS_CardinalityType
    <3>3. CASE e # ep
      <4>1. On(e)' = On(e)
        BY <1>1, <1>3, <1>5, <3>3 DEF On, ep
      <4> QED BY <2>1, <3>1, <3>3, <4>1, FS_CardinalityType
    <3> QED BY <3>2, <3>3
  <2>3. Counted'
    BY <2>2 DEF Counted
  <2>4. (round.answer # "none" => round.at < N)'
    BY <1>1 DEF LBInv
  <2>5. Mutex'
    <3>1. \A q \in Requests : Looking(q)' <=> Looking(q)
      BY <1>1, <1>3, <1>5 DEF Looking
    <3> QED BY <1>1, <3>1 DEF LBInv, Mutex
  <2>6. ASSUME NEW q \in Requests, q # r PROVE Progress(q)' /\ Knows(q)'
    BY <1>1, <1>5, <1>11, <2>2, <2>6, OtherKept
  <2> QED BY <1>7, <1>8, <1>9, <2>3, <2>4, <2>5, <2>6 DEF LBInv
<1> QED BY <1>10, <1>11

-----------------------------------------------------------------------------
(* The health checker beside the balancers *)

\* A verdict that is the same for every endpoint disturbs nobody.
LEMMA DisturbKeeps ==
  ASSUME LBInv, Disturb, CheckerTypeOK', (round.answer # "none" => round.at < N)'
  PROVE  LBInv'
<1>1. UNCHANGED <<alg, counter, conns, mu, req, alone>>
  BY DEF Disturb, balancerVars
<1>2. BalancerTypeOK'
  BY <1>1 DEF LBInv, BalancerTypeOK, Disturb
<1>3. Mutex' /\ Counted'
  BY <1>1 DEF LBInv, Mutex, Counted, On, Looking
<1>4. ASSUME NEW q \in Requests PROVE Progress(q)'
  BY Zenon, <1>1 DEF LBInv, Progress, Stages
<1>5. ASSUME NEW q \in Requests PROVE Knows(q)'
  <2>1. CASE q \in Settled
    BY <1>1, <2>1, SettledKnows DEF Settled
  <2>2. CASE q \notin Settled
    <3> SUFFICES ASSUME q \in steady' PROVE RoundRobinKnows(q)' /\ WeightedKnows(q)' /\ LeastConnKnows(q)'
      BY DEF Knows
    <3>1. Healthy' = Healthy /\ q \in steady
      BY <2>2 DEF Disturb
    <3>2. \A e \in Endpoints : IsHealthy(e)' <=> IsHealthy(e)
      BY <3>1 DEF Healthy
    <3>3. RoundRobinKnows(q) /\ WeightedKnows(q) /\ LeastConnKnows(q)
      BY <3>1 DEF LBInv, Knows
    <3>4. RoundRobinKnows(q)'
      BY <1>1, <3>2, <3>3 DEF RoundRobinKnows, Behind
    <3>5. WeightedKnows(q)'
      BY <1>1, <3>2, <3>3 DEF WeightedKnows, Looking
    <3>6. LeastConnKnows(q)'
      <4>1. req[q].idle \subseteq Endpoints /\ req[q].ep \in Endpoints \cup {None}
        BY DEF LBInv, BalancerTypeOK, Request
      <4> QED BY <1>1, <3>2, <3>3, <4>1 DEF LeastConnKnows, Looking
    <3> QED BY <3>4, <3>5, <3>6
  <2> QED BY <2>1, <2>2
<1> QED BY <1>2, <1>3, <1>4, <1>5 DEF LBInv

LEMMA CheckerTypes ==
  ASSUME CheckerTypeOK, round.answer # "none" => round.at < N,
         \/ \E e \in Endpoints : Fail(e) \/ Recover(e)
         \/ SetPath \/ ProbeAll \/ Probe \/ Mark
  PROVE  CheckerTypeOK' /\ (round.answer # "none" => round.at < N)'
<1>1. CASE \E e \in Endpoints : Fail(e) \/ Recover(e)
  BY <1>1 DEF Fail, Recover, CheckerTypeOK
<1>2. CASE SetPath
  BY <1>2 DEF SetPath, CheckerTypeOK
<1>3. CASE ProbeAll
  BY <1>3, NAssumption DEF ProbeAll, CheckerTypeOK
<1>4. CASE Probe
  BY <1>4 DEF Probe, CheckerTypeOK
<1>5. CASE Mark
  <2>1. round.at \in Endpoints /\ round.at + 1 \in 0 .. N
    BY <1>5, NAssumption DEF Mark, CheckerTypeOK, Endpoints
  <2>2. states' \subseteq Endpoints /\ UNCHANGED <<up, path>>
    BY <1>5, <2>1 DEF Mark, CheckerTypeOK
  <2>3. round' = [round EXCEPT !.at = @ + 1, !.answer = "none"]
    BY <1>5 DEF Mark
  <2> QED BY Zenon, <2>1, <2>2, <2>3 DEF CheckerTypeOK
<1> QED BY <1>1, <1>2, <1>3, <1>4, <1>5

-----------------------------------------------------------------------------
(* What the balancers promise *)

LEMMA LBInit ==
  ASSUME BalancerInit
  PROVE  LBInv
<1>1. Idle \in Request /\ Idle.pc = "idle"
  BY NAssumption DEF Idle, Request
<1>2. req = [r \in Requests |-> Idle] /\ mu = None /\ conns = [e \in Endpoints |-> 0]
  BY DEF BalancerInit
<1>3. CheckerTypeOK /\ round.answer = "none"
  BY NAssumption DEF BalancerInit, CheckerInit, CheckerTypeOK
<1>4. BalancerTypeOK
  <2>1. counter \in Endpoints
    BY NAssumption DEF BalancerInit, Endpoints
  <2> QED BY <1>1, <1>3, <2>1 DEF BalancerInit, BalancerTypeOK
<1>5. Mutex
  BY <1>1, <1>2, BalancerAssumption DEF Mutex, Looking
<1>6. Counted
  <2>1. \A e \in Endpoints : On(e) = {}
    BY <1>1, <1>2 DEF On
  <2> QED BY <1>2, <2>1, FS_EmptySet DEF Counted
<1>7. \A r \in Requests : Progress(r) /\ Knows(r)
  BY <1>1, <1>2 DEF Progress, Stages, Knows, RoundRobinKnows, WeightedKnows, LeastConnKnows, Looking
<1> QED BY <1>3, <1>4, <1>5, <1>6, <1>7 DEF LBInv

LEMMA LBStep ==
  ASSUME LBInv, [BalancerNext]_lbVars
  PROVE  LBInv'
<1>1. ASSUME NEW r \in Requests, Balance(r) PROVE LBInv'
  BY <1>1, AddKeeps, CheckNextKeeps, LoadKeeps, FilterKeeps, PickWeightedKeeps,
     LockKeeps, CompareKeeps, TakeKeeps, DoneKeeps DEF Balance
<1>2. ASSUME Disturb,
             \/ \E e \in Endpoints : Fail(e) \/ Recover(e)
             \/ SetPath \/ ProbeAll \/ Probe \/ Mark
      PROVE  LBInv'
  <2>1. CheckerTypeOK' /\ (round.answer # "none" => round.at < N)'
    BY <1>2, CheckerTypes DEF LBInv, BalancerTypeOK
  <2> QED BY <1>2, <2>1, DisturbKeeps
<1>3. ASSUME UNCHANGED lbVars PROVE LBInv'
  <2>1. UNCHANGED <<up, path, states, round, alg, counter, conns, mu, req, steady, alone>>
    BY <1>3 DEF lbVars, checkerVars, balancerVars
  <2>2. Disturb
    BY <2>1 DEF Disturb, balancerVars, Healthy, IsHealthy
  <2>3. CheckerTypeOK' /\ (round.answer # "none" => round.at < N)'
    BY <2>1 DEF LBInv, BalancerTypeOK, CheckerTypeOK
  <2> QED BY <2>2, <2>3, DisturbKeeps
<1> QED BY <1>1, <1>2, <1>3 DEF BalancerNext

LEMMA LBInvariance == BalancerSpec => []LBInv
BY LBInit, LBStep, PTL DEF BalancerSpec

\* The balancers and the health checker beside them keep their types, whatever the
\* number of endpoints and of concurrent requests.
THEOREM BalancerTypes == BalancerSpec => []BalancerTypeOK
<1>1. LBInv => BalancerTypeOK
  BY DEF LBInv
<1> QED BY <1>1, LBInvariance, PTL

\* The counters of least-conn count the requests that are being proxied: Next and
\* Done of any number of requests keep them exact.
THEOREM CountsAreExact == BalancerSpec => []ConnsExact
<1>1. LBInv => ConnsExact
  BY DEF LBInv, Counted, On, ConnsExact
<1> QED BY <1>1, LBInvariance, PTL

\* The scan of the cumulative weights gives every endpoint as many of the numbers
\* as it has weight, for any eligible ones of any number of endpoints.
THEOREM SharesAreProportional == BalancerSpec => []ProportionalShare
<1>1. LBInv => ProportionalShare
  <2> SUFFICES ASSUME LBInv, alg \in {"weighted", "split"}, NEW r \in Requests,
                      NEW S, S = (IF req[r].seen = {} THEN Endpoints ELSE req[r].seen), NEW e \in S
               PROVE  Weight(e) = Cardinality({rnd \in 0 .. Total(S) - 1 : Pick(S, rnd) = e})
    BY DEF ProportionalShare
  <2>1. S \in SUBSET Endpoints
    BY DEF LBInv, BalancerTypeOK, Request
  <2> QED BY <2>1, Shares
<1> QED BY <1>1, LBInvariance, PTL

\* The steps in which a request may get an endpoint.
LEMMA Chooses ==
  ASSUME LBInv, [BalancerNext]_lbVars, NEW r \in Requests, Chosen(r)
  PROVE  CheckNext(r) \/ Load(r) \/ PickWeighted(r) \/ Take(r)
<1>1. req[r].pc # "proxy" /\ req'[r].pc = "proxy"
  BY DEF Chosen
<1>2. ASSUME UNCHANGED req PROVE FALSE
  BY <1>1, <1>2
<1>3. PICK q \in Requests : Balance(q)
  BY <1>2 DEF BalancerNext, Disturb, lbVars, balancerVars
<1>4. req \in [Requests -> Request]
  BY DEF LBInv, BalancerTypeOK
<1>5. q = r
  <2> SUFFICES ASSUME q # r PROVE req'[r] = req[r]
    BY <1>1
  <2>1. CASE Add(q)
    BY <2>1, AddFields
  <2>2. CASE CheckNext(q)
    BY <1>4, <2>2 DEF CheckNext, Choose, Settle, Goto
  <2>3. CASE Load(q)
    BY <1>4, <2>3 DEF Load, Choose, Settle
  <2>4. CASE Filter(q)
    BY Zenon, <2>4, FilterFields
  <2>5. CASE PickWeighted(q)
    BY Zenon, <1>4, <2>5 DEF PickWeighted, Choose, Leave, Settle
  <2>6. CASE Lock(q)
    BY <1>4, <2>6 DEF Lock
  <2>7. CASE Compare(q)
    BY <2>7, CompareFields
  <2>8. CASE Take(q)
    BY <1>4, <2>8 DEF Take, Choose, Settle
  <2>9. CASE Done(q)
    BY <1>4, <2>9 DEF Done
  <2> QED BY Zenon, <1>3, <2>1, <2>2, <2>3, <2>4, <2>5, <2>6, <2>7, <2>8, <2>9 DEF Balance
<1>6. ~Add(r) /\ ~Filter(r) /\ ~Compare(r)
  BY Zenon, <1>1, AddFields, FilterFields, CompareFields
<1>7. ~Lock(r)
  <2> SUFFICES ASSUME Lock(r) PROVE req'[r].pc = "scan"
    BY <1>1
  <2> QED BY <1>4 DEF Lock, Request
<1>8. ~Done(r)
  BY <1>1 DEF Done
<1> QED BY <1>3, <1>5, <1>6, <1>7, <1>8 DEF Balance

\* What the scan of a least-conn request that nothing disturbed has found.
LEMMA TakeFinds ==
  ASSUME LBInv, NEW r \in Requests, Take(r), r \in steady
  PROVE  /\ Healthy # {} => req[r].ep # None
         /\ req[r].ep # None => req'[r].ep = req[r].ep /\ req[r].ep \in Endpoints /\ IsHealthy(req[r].ep)
         /\ req[r].idle # {} => req[r].ep # None /\ conns[req[r].ep] <= 0
<1>1. alg = "least-conn" /\ req[r].pc = "pick"
  BY DEF Take
<1>2. req[r].at = N /\ LeastConnKnows(r) /\ Looking(r)
  BY <1>1 DEF LBInv, Progress, Knows, Looking
<1>3. req[r].ep \in Endpoints \cup {None} /\ req[r].idle \subseteq Endpoints
  BY DEF LBInv, BalancerTypeOK, Request
<1>4. \A e \in Endpoints : e < N
  BY NAssumption DEF Endpoints
<1>5. Healthy # {} => req[r].ep # None
  BY <1>1, <1>2, <1>4 DEF LeastConnKnows, Healthy
<1>6. req[r].idle # {} => req[r].ep # None /\ conns[req[r].ep] <= 0
  BY Zenon, <1>1, <1>2, <1>3, <1>4 DEF LeastConnKnows
<1>7. ASSUME req[r].ep # None PROVE req'[r].ep = req[r].ep /\ IsHealthy(req[r].ep)
  <2>1. Choose(r, req[r].ep)
    BY <1>7 DEF Take
  <2> QED BY Zenon, <1>1, <1>2, <1>3, <1>7, <2>1, SettleFields DEF LeastConnKnows
<1> QED BY <1>3, <1>5, <1>6, <1>7

\* A request that nothing disturbs goes to a healthy endpoint, under each of the
\* four algorithms.
THEOREM UndisturbedChoicesAreHealthy == BalancerSpec => HealthyIfUndisturbed
<1>1. ASSUME LBInv, [BalancerNext]_lbVars, NEW r \in Requests, Chosen(r), r \in steady,
             alg = "round-robin" => r \in alone, Healthy # {}
      PROVE  IsHealthy(req'[r].ep)
  <2>1. CASE CheckNext(r)
    <3>1. IsHealthy(req[r].ep)
      <4> SUFFICES ASSUME ~IsHealthy(req[r].ep) PROVE req'[r].pc # "proxy"
        BY <1>1 DEF Chosen
      <4>1. req[r] \in Request /\ req \in [Requests -> Request]
        BY <1>1 DEF LBInv, BalancerTypeOK
      <4>2. req'[r].pc = IF req[r].at < N THEN "add" ELSE "load"
        BY <2>1, <4>1 DEF CheckNext, Goto, Request
      <4> QED BY <4>2
    <3>2. req[r].ep \in Endpoints /\ Choose(r, req[r].ep)
      BY Zenon, <1>1, <2>1, <3>1 DEF CheckNext, LBInv, Progress
    <3> QED BY <1>1, <3>1, <3>2, SettleFields
  <2>2. CASE Load(r)
    <3>1. req[r].pc = "load" /\ counter \in Endpoints
      BY <1>1, <2>2 DEF Load, LBInv, BalancerTypeOK
    <3>2. alg = "round-robin" /\ req[r].at = N
      BY <1>1, <3>1 DEF LBInv, Progress, Stages
    <3>3. \A e \in Endpoints : Behind(e) < N
      BY <3>1, NAssumption DEF Behind, Endpoints
    <3>4. \A e \in Endpoints : ~IsHealthy(e)
      BY <1>1, <3>1, <3>2, <3>3 DEF LBInv, Knows, RoundRobinKnows
    <3> QED BY <1>1, <3>4 DEF Healthy
  <2>3. CASE PickWeighted(r)
    <3>1. alg \in {"weighted", "split"} /\ req[r].pc = "pick"
      BY <2>3 DEF PickWeighted
    <3>2. req[r].at = N /\ req[r].seen = {e \in Endpoints : e < req[r].at /\ IsHealthy(e)}
      BY <1>1, <3>1 DEF LBInv, Progress, Knows, WeightedKnows, Looking
    <3>3. \A e \in Endpoints : e < N
      BY NAssumption DEF Endpoints
    <3>4. req[r].seen # {} /\ \A e \in req[r].seen : IsHealthy(e)
      BY <1>1, <3>2, <3>3 DEF Healthy
    <3>5. ~Leave(r)
      <4> SUFFICES ASSUME Leave(r) PROVE req'[r].pc # "proxy"
        BY <1>1 DEF Chosen
      <4>1. req \in [Requests -> Request]
        BY <1>1 DEF LBInv, BalancerTypeOK
      <4> QED BY <4>1 DEF Leave, Settle, Idle
    <3>6. PICK e \in req[r].seen : e \in Endpoints /\ Choose(r, e)
      BY Zenon, <1>1, <2>3, <3>4, <3>5, WeightedChoice
    <3> QED BY <1>1, <3>4, <3>6, SettleFields
  <2>4. CASE Take(r)
    BY <1>1, <2>4, TakeFinds
  <2> QED BY <1>1, <2>1, <2>2, <2>3, <2>4, Chooses
<1>2. LBInv /\ [BalancerNext]_lbVars =>
        [\A r \in Requests :
           Chosen(r) /\ r \in steady /\ (alg = "round-robin" => r \in alone) /\ Healthy # {}
             => IsHealthy(req'[r].ep)]_lbVars
  BY <1>1
<1> QED BY <1>2, LBInvariance, PTL DEF BalancerSpec, HealthyIfUndisturbed

\* least-conn puts no second request on an endpoint as long as a healthy one was
\* idle when the scan began.
THEOREM IdleEndpointsFirst == BalancerSpec => IdleFirst
<1>1. ASSUME LBInv, [BalancerNext]_lbVars, NEW r \in Requests, alg = "least-conn", Chosen(r), r \in steady,
             req[r].idle # {}, NEW q \in Requests, req[q].pc = "proxy"
      PROVE  req[q].ep # req'[r].ep
  <2>1. Take(r)
    <3>1. ~PickWeighted(r)
      BY <1>1 DEF PickWeighted
    <3>2. req[r].pc \notin {"check", "load"}
      BY <1>1 DEF LBInv, Progress, Stages
    <3> QED BY <1>1, <3>1, <3>2, Chooses DEF CheckNext, Load
  <2>2. req'[r].ep = req[r].ep /\ req[r].ep \in Endpoints /\ conns[req[r].ep] <= 0
    BY <1>1, <2>1, TakeFinds
  <2>3. IsFiniteSet(On(req[r].ep)) /\ conns[req[r].ep] = Cardinality(On(req[r].ep))
    BY <1>1, <2>2 DEF LBInv, Counted
  <2>4. On(req[r].ep) = {}
    <3>1. Cardinality(On(req[r].ep)) \in Nat
      BY Zenon, <2>3, FS_CardinalityType
    <3>2. Cardinality(On(req[r].ep)) = 0
      BY <2>2, <2>3, <3>1
    <3> QED BY Zenon, <2>3, <3>2, FS_EmptySet
  <2> QED BY <1>1, <2>2, <2>4 DEF On
<1>2. LBInv /\ [BalancerNext]_lbVars =>
        [\A r \in Requests :
           alg = "least-conn" /\ Chosen(r) /\ r \in steady /\ req[r].idle # {}
             => \A q \in Requests : req[q].pc = "proxy" => req[q].ep # req'[r].ep]_lbVars
  BY <1>1
<1> QED BY <1>2, LBInvariance, PTL DEF BalancerSpec, IdleFirst
==============================================================================
