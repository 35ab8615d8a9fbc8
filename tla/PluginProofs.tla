---------------------------- MODULE PluginProofs ----------------------------
(***************************************************************************)
(* The inductive invariant of a route's rate limit, the types of the       *)
(* plugins' state, and the proofs that each step keeps them, for any       *)
(* number of requests, plugins and versions and any rate and burst.        *)
(* GatewayProofs carries them over to the gateway's process.               *)
(***************************************************************************)
EXTENDS RouteLimit, Plugins, Integers, TLAPS

-----------------------------------------------------------------------------
(* The rate limit of a route *)

LEMMA GainNat == \A d \in Nat : Gain(d) \in Nat
BY LimitAssumption DEF Gain

LEMMA GainZero == Gain(0) = 0
BY LimitAssumption DEF Gain

LEMMA GainOne == \A d \in Nat : Gain(d + 1) = Gain(d) + Rate
BY LimitAssumption DEF Gain

LEMMA GainSum == \A d, e \in Nat : Gain(d + e) = Gain(d) + Gain(e)
BY LimitAssumption DEF Gain

LEMMA GainGrows == \A d, e \in Nat : d <= e => Gain(d) <= Gain(e)
<1> SUFFICES ASSUME NEW d \in Nat, NEW e \in Nat, d <= e
             PROVE  Gain(d) <= Gain(e)
  OBVIOUS
<1>1. PICK f \in Nat : e = d + f
  <2>1. e - d \in Nat /\ e = d + (e - d)
    OBVIOUS
  <2> QED BY <2>1
<1>2. Gain(e) = Gain(d) + Gain(f)
  BY <1>1, GainSum
<1> QED BY <1>2, GainNat

LEMMA ForgottenIsFull == \A d \in Nat : d > SweepAge => Burst <= Gain(d)
<1>1. Burst <= Gain(SweepAge)
  BY LimitAssumption DEF Gain
<1> QED BY <1>1, GainGrows, GainNat, LimitAssumption

\* What a client of plugin p could have pass at once.
Spare(p) == IF plugins[p].lim = None THEN Burst ELSE Refilled(plugins[p].lim)

\* The passes that were not held up after getLimiter.
Prompt(p) == passed[p] - late[p]

(***************************************************************************)
(* The inductive invariant of a plugin's history: a prompt pass is one of  *)
(* the limiter that the map holds, at the time of lastSeen, so that when   *)
(* the sweeper forgets the limiter the passes so far leave room for a full *)
(* one.                                                                    *)
(***************************************************************************)
Accounted(p) ==
  /\ plugins[p].lim # None => ask[plugins[p].lim].lim # None
  /\ plugins[p].seen <= now
  /\ late[p] <= passed[p]
  /\ Prompt(p) # 0 => since <= plugins[p].seen
  /\ Prompt(p) # 0 => Prompt(p) <= Burst + Gain(plugins[p].seen - since)
  /\ Prompt(p) + Spare(p) <= Burst + Gain(now - since)

Asked(q) ==
  /\ ask[q].at <= now
  /\ ask[q].at = now => plugins[ask[q].plugin] = [lim |-> ask[q].lim, seen |-> now]

LimitTypes ==
  /\ now \in Nat /\ since \in Nat /\ since <= now
  /\ built \in PluginIds
  /\ plugins \in [PluginIds -> [lim : Requests \cup {None}, seen : Nat]]
  /\ limiters \in [Requests -> [tokens : Nat, last : Nat]]
  /\ ask \in [Requests -> [plugin : PluginIds, lim : Requests \cup {None}, at : Nat]]
  /\ passed \in [PluginIds -> Nat]
  /\ late \in [PluginIds -> Nat]
  /\ \A l \in Requests : limiters[l].last <= now

LimitInv ==
  /\ LimitTypes
  /\ \A p \in PluginIds : Accounted(p)
  /\ \A q \in Requests : ask[q].lim # None => Asked(q)

LEMMA RefilledNat ==
  ASSUME LimitTypes, NEW l \in Requests
  PROVE  Refilled(l) \in Nat /\ Refilled(l) <= Burst
<1>1. now - limiters[l].last \in Nat /\ limiters[l].tokens \in Nat
  BY DEF LimitTypes
<1>2. Gain(now - limiters[l].last) \in Nat
  BY <1>1, GainNat
<1> QED BY <1>1, <1>2, LimitAssumption DEF Refilled

SpareTypes == \A p \in PluginIds : Spare(p) \in Nat /\ Spare(p) <= Burst

LEMMA SpareNat == LimitTypes => SpareTypes
BY RefilledNat, LimitAssumption DEF LimitTypes, Spare, SpareTypes

LEMMA SpareNatNext == LimitTypes' => SpareTypes'
BY SpareNat, PTL

LEMMA LimitInit == InitLimit => LimitInv
<1> SUFFICES ASSUME InitLimit PROVE LimitInv
  OBVIOUS
<1>1. LimitTypes
  BY LimitAssumption DEF InitLimit, LimitTypes, PluginIds
<1>2. \A p \in PluginIds : Accounted(p)
  BY GainZero, LimitAssumption DEF InitLimit, Accounted, Prompt, Spare
<1> QED BY <1>1, <1>2 DEF InitLimit, LimitInv

LEMMA TickKeeps == LimitInv /\ Tick => LimitInv'
<1> SUFFICES ASSUME LimitInv, Tick PROVE LimitInv'
  OBVIOUS
<1>0. LimitTypes
  BY DEF LimitInv
<1>1. LimitTypes'
  BY <1>0 DEF LimitTypes, Tick
<1>2. ASSUME NEW p \in PluginIds PROVE Accounted(p)'
  <2>1. Gain(now' - since) = Gain(now - since) + Rate
    <3>1. now - since \in Nat /\ now' - since = (now - since) + 1
      BY <1>0 DEF LimitTypes, Tick
    <3> QED BY <3>1, GainOne
  <2>2. Spare(p)' <= Spare(p) + Rate
    <3>1. CASE plugins[p].lim = None
      BY <3>1, LimitAssumption DEF Tick, Spare
    <3>2. CASE plugins[p].lim # None
      <4>1. PICK l \in Requests : plugins[p].lim = l
        BY <3>2, <1>0 DEF LimitTypes
      <4>2. now - limiters[l].last \in Nat /\ now' - limiters[l].last = (now - limiters[l].last) + 1
        BY <1>0 DEF LimitTypes, Tick
      <4>3. Gain(now' - limiters[l].last) = Gain(now - limiters[l].last) + Rate
        BY <4>2, GainOne
      <4>4. limiters[l].tokens \in Nat /\ Gain(now - limiters[l].last) \in Nat
        BY <1>0, <4>2, GainNat DEF LimitTypes
      <4>5. Refilled(l)' <= Refilled(l) + Rate
        BY <4>3, <4>4, LimitAssumption DEF Tick, Refilled
      <4> QED BY <3>2, <4>1, <4>5 DEF Tick, Spare
    <3> QED BY <3>1, <3>2
  <2>3. Gain(now - since) \in Nat /\ Spare(p) \in Nat /\ Spare(p)' \in Nat
    <3>1. now - since \in Nat
      BY <1>0 DEF LimitTypes
    <3> QED BY <1>0, <1>1, <3>1, GainNat, SpareNat, SpareNatNext DEF SpareTypes
  <2>4. Accounted(p) /\ plugins[p].seen \in Nat /\ passed[p] \in Nat /\ late[p] \in Nat
    BY <1>0 DEF LimitInv, LimitTypes
  <2> QED BY <1>0, <2>1, <2>2, <2>3, <2>4, LimitAssumption DEF Tick, Accounted, Prompt, LimitTypes
<1>3. ASSUME NEW q \in Requests, ask'[q].lim # None PROVE Asked(q)'
  <2>1. ask'[q] = ask[q] /\ ask[q].at \in Nat /\ ask[q].at <= now /\ now' = now + 1 /\ now \in Nat
    BY Zenon, <1>0, <1>3 DEF LimitInv, LimitTypes, Asked, Tick
  <2> QED BY <2>1 DEF Asked
<1> QED BY <1>1, <1>2, <1>3 DEF LimitInv

LEMMA EnterKeeps ==
  ASSUME LimitInv, NEW q \in Requests, NEW p \in PluginIds, ask[q].lim = None, Enter(q, p)
  PROVE  LimitInv'
<1>1. LimitTypes'
  BY DEF LimitInv, LimitTypes, Enter
<1>2. \A r \in Requests : ask'[r].lim = ask[r].lim /\ (ask[r].lim # None => ask'[r] = ask[r])
  BY DEF LimitInv, LimitTypes, Enter
<1>3. \A p1 \in PluginIds : Spare(p1)' = Spare(p1) /\ Prompt(p1)' = Prompt(p1)
  BY DEF Enter, Spare, Refilled, Prompt
<1>4. \A p1 \in PluginIds : Accounted(p1)'
  BY <1>2, <1>3 DEF LimitInv, LimitTypes, Accounted, Enter
<1>5. \A r \in Requests : ask'[r].lim # None => Asked(r)'
  BY <1>2 DEF LimitInv, LimitTypes, Asked, Enter
<1> QED BY <1>1, <1>4, <1>5 DEF LimitInv

LEMMA GetLimiterKeeps ==
  ASSUME LimitInv, NEW q \in Requests, GetLimiter(q)
  PROVE  LimitInv'
<1> DEFINE p == ask[q].plugin
           known == plugins[p].lim # None
           l == IF known THEN plugins[p].lim ELSE q
<1>0. LimitTypes /\ p \in PluginIds /\ l \in Requests
  BY DEF LimitInv, LimitTypes
<1>1. LimitTypes'
  <2>1. plugins' \in [PluginIds -> [lim : Requests \cup {None}, seen : Nat]]
    BY <1>0 DEF LimitTypes, GetLimiter
  <2>2. limiters' \in [Requests -> [tokens : Nat, last : Nat]]
    BY <1>0, LimitAssumption DEF LimitTypes, GetLimiter
  <2>4. ASSUME NEW r \in Requests PROVE limiters'[r].last <= now
    <3>1. limiters'[r] = limiters[r] \/ limiters'[r] = [tokens |-> Burst, last |-> now]
      BY <1>0 DEF LimitTypes, GetLimiter
    <3> QED BY <1>0, <3>1 DEF LimitTypes
  <2>3. ask' \in [Requests -> [plugin : PluginIds, lim : Requests \cup {None}, at : Nat]]
    <3>1. ask' = [r \in Requests |-> ask'[r]]
      BY Zenon, <1>0 DEF LimitTypes, GetLimiter
    <3>2. ASSUME NEW r \in Requests
          PROVE  ask'[r] \in [plugin : PluginIds, lim : Requests \cup {None}, at : Nat]
      <4>1. ask'[r] = ask[r] \/ ask'[r] = [plugin |-> p, lim |-> l, at |-> now]
        BY Zenon, <1>0 DEF LimitTypes, GetLimiter
      <4> QED BY <1>0, <4>1 DEF LimitTypes
    <3> QED BY <3>1, <3>2
  <2> QED BY Zenon, <1>0, <2>1, <2>2, <2>3, <2>4 DEF LimitTypes, GetLimiter
<1>2. /\ plugins'[p] = [lim |-> l, seen |-> now]
      /\ \A p1 \in PluginIds : p1 # p => plugins'[p1] = plugins[p1]
      /\ known => limiters' = limiters
      /\ ~known => limiters'[q] = [tokens |-> Burst, last |-> now]
      /\ \A r \in Requests : r # q => limiters'[r] = limiters[r] /\ ask'[r] = ask[r]
      /\ ask'[q] = [plugin |-> p, lim |-> l, at |-> now]
      /\ ask[q].lim = None
      /\ now' = now /\ since' = since /\ passed' = passed /\ late' = late
  BY Zenon, <1>0 DEF LimitTypes, GetLimiter
<1> HIDE DEF l
<1>3. \A p1 \in PluginIds : Spare(p1)' = Spare(p1)
  <2> SUFFICES ASSUME NEW p1 \in PluginIds PROVE Spare(p1)' = Spare(p1)
    OBVIOUS
  <2>1. CASE p1 = p /\ ~known
    <3>1. l = q
      BY <2>1 DEF l
    <3>2. Refilled(q)' = Burst
      BY <1>0, <1>2, <2>1, GainZero, LimitAssumption DEF Refilled, LimitTypes
    <3> QED BY <1>2, <2>1, <3>1, <3>2, HandlersAssumption DEF Spare
  <2>2. CASE p1 = p /\ known
    <3>1. plugins'[p].lim = plugins[p].lim
      BY <1>2, <2>2 DEF l
    <3>2. limiters' = limiters /\ now' = now
      BY <1>2, <2>2
    <3> QED BY <2>2, <3>1, <3>2 DEF Spare, Refilled
  <2>3. CASE p1 # p
    <3>1. plugins[p1].lim # q /\ plugins[p1].lim \in Requests \cup {None}
      BY <1>0, <1>2, HandlersAssumption DEF LimitInv, LimitTypes, Accounted
    <3> QED BY <1>2, <2>3, <3>1 DEF Spare, Refilled
  <2> QED BY <2>1, <2>2, <2>3
<1>4. \A p1 \in PluginIds : Accounted(p1)'
  <2> SUFFICES ASSUME NEW p1 \in PluginIds PROVE Accounted(p1)'
    OBVIOUS
  <2>1. Accounted(p1) /\ Spare(p1) \in Nat
    BY <1>0, SpareNat DEF LimitInv, SpareTypes
  <2>2. plugins'[p1].lim # None => ask'[plugins'[p1].lim].lim # None
    <3>1. l # None
      BY <1>0, HandlersAssumption
    <3>2. CASE p1 = p
      <4>1. plugins'[p1].lim = l /\ (l = q \/ l = plugins[p].lim)
        BY <1>2, <3>2 DEF l
      <4>2. ask'[q].lim = l
        BY <1>2
      <4>3. l # q => ask[l].lim # None
        BY Zenon, <2>1, <3>1, <3>2, <4>1 DEF Accounted
      <4>4. l # q => ask'[l] = ask[l]
        BY Zenon, <1>0, <1>2
      <4> QED BY Zenon, <3>1, <4>1, <4>2, <4>3, <4>4
    <3>3. CASE p1 # p
      <4>1. plugins[p1].lim \in Requests \cup {None}
        BY <1>0 DEF LimitTypes
      <4> QED BY <1>2, <2>1, <3>1, <3>3, <4>1 DEF Accounted
    <3> QED BY <3>2, <3>3
  <2>3. plugins'[p1].seen = now \/ plugins'[p1].seen = plugins[p1].seen
    BY <1>2
  <2>4. /\ now \in Nat /\ since \in Nat /\ since <= now /\ plugins[p1].seen \in Nat
        /\ passed[p1] \in Nat /\ late[p1] \in Nat
    BY <1>0 DEF LimitTypes
  <2>5. Gain(now - since) \in Nat
    <3>1. now - since \in Nat
      BY <2>4
    <3> QED BY <3>1, GainNat
  <2> QED BY <1>2, <1>3, <2>1, <2>2, <2>3, <2>4, <2>5, LimitAssumption
    DEF Accounted, Prompt
<1>5. ASSUME NEW r \in Requests, ask'[r].lim # None PROVE Asked(r)'
  <2>1. CASE r = q
    BY <1>0, <1>2, <2>1 DEF Asked, LimitTypes
  <2>2. CASE r # q
    <3>1. Asked(r) /\ ask'[r] = ask[r]
      BY <1>2, <1>5, <2>2 DEF LimitInv
    <3>2. CASE ask[r].plugin = p /\ ask[r].at = now
      BY <1>2, <1>5, <3>1, <3>2 DEF Asked, l
    <3>3. CASE ask[r].plugin # p
      <4>1. ask[r].plugin \in PluginIds
        BY <1>0 DEF LimitTypes
      <4> QED BY <1>2, <3>1, <3>3, <4>1 DEF Asked
    <3>4. CASE ask[r].at # now
      BY <1>2, <3>1, <3>4 DEF Asked
    <3> QED BY <3>2, <3>3, <3>4
  <2> QED BY <2>1, <2>2
<1> QED BY <1>1, <1>4, <1>5 DEF LimitInv

LEMMA AllowKeeps ==
  ASSUME LimitInv, NEW q \in Requests, NEW pass \in BOOLEAN, Allow(q, pass)
  PROVE  LimitInv'
<1>0. LimitTypes
  BY DEF LimitInv
<1>1. CASE ~pass
  <2>1. UNCHANGED limitVars
    BY <1>1 DEF Allow, limitVars
  <2> QED BY <2>1 DEF limitVars, LimitInv, LimitTypes, Accounted, Asked, Prompt, Spare, Refilled
<1>2. CASE pass
  <2>1. PICK l \in Requests, p \in PluginIds : ask[q].lim = l /\ ask[q].plugin = p
    BY <1>0 DEF LimitTypes, Allow
  <2>0. Asked(q)
    BY DEF LimitInv, Allow
  <2>2. Refilled(l) \in Nat /\ Refilled(l) <= Burst /\ Refilled(l) - 1 \in Nat
    <3>1. Refilled(l) >= 1
      BY Zenon, <1>2, <2>1 DEF Allow
    <3> QED BY <1>0, <2>1, <3>1, RefilledNat
  <2>3. /\ limiters' = [limiters EXCEPT ![l] = [tokens |-> Refilled(l) - 1, last |-> now]]
        /\ passed' = [passed EXCEPT ![p] = @ + 1]
        /\ late' = IF ask[q].at < now THEN [late EXCEPT ![p] = @ + 1] ELSE late
        /\ UNCHANGED <<now, built, plugins, ask, since>>
    BY <1>2, <2>1 DEF Allow
  <2>4. LimitTypes'
    <3>1. limiters' \in [Requests -> [tokens : Nat, last : Nat]]
      BY <1>0, <2>1, <2>2, <2>3 DEF LimitTypes
    <3>2. passed' \in [PluginIds -> Nat] /\ late' \in [PluginIds -> Nat]
      BY <1>0, <2>1, <2>3 DEF LimitTypes
    <3>3. ASSUME NEW r \in Requests PROVE limiters'[r].last <= now
      <4>1. limiters'[r] = limiters[r] \/ limiters'[r] = [tokens |-> Refilled(l) - 1, last |-> now]
        BY <1>0, <2>1, <2>3 DEF LimitTypes
      <4> QED BY <1>0, <4>1 DEF LimitTypes
    <3> QED BY <1>0, <2>3, <3>1, <3>2, <3>3 DEF LimitTypes
  <2>5. Refilled(l)' = Refilled(l) - 1
    <3>1. limiters'[l] = [tokens |-> Refilled(l) - 1, last |-> now] /\ now' - now = 0
      BY <1>0, <2>1, <2>3 DEF LimitTypes
    <3> QED BY <2>2, <2>3, <3>1, GainZero, LimitAssumption DEF Refilled
  <2>6. ASSUME NEW p1 \in PluginIds
        PROVE  Spare(p1)' = IF plugins[p1].lim = l THEN Spare(p1) - 1 ELSE Spare(p1)
    <3>1. CASE plugins[p1].lim = l
      BY <2>1, <2>3, <2>5, <3>1, HandlersAssumption DEF Spare
    <3>2. CASE plugins[p1].lim # l
      <4>1. plugins[p1].lim # None => limiters'[plugins[p1].lim] = limiters[plugins[p1].lim]
        BY <1>0, <2>1, <2>3, <3>2 DEF LimitTypes
      <4> QED BY <2>3, <3>2, <4>1 DEF Spare, Refilled
    <3> QED BY <3>1, <3>2
  <2>7. ASSUME NEW p1 \in PluginIds PROVE Accounted(p1)'
    <3>1. /\ now \in Nat /\ since \in Nat /\ since <= now /\ plugins[p1].seen \in Nat
          /\ passed[p1] \in Nat /\ late[p1] \in Nat /\ ask[q].at \in Nat
          /\ Spare(p1) \in Nat /\ Accounted(p1)
      BY <1>0, SpareNat DEF LimitTypes, LimitInv, SpareTypes
    <3>2. Gain(now - since) \in Nat
      <4>1. now - since \in Nat
        BY <3>1
      <4> QED BY <4>1, GainNat
    <3>3. Spare(p1)' \in Nat
      BY <2>4, SpareNatNext DEF SpareTypes
    <3>4. CASE p1 = p /\ ask[q].at = now
      <4>1. plugins[p1].lim = l /\ plugins[p1].seen = now
        BY <2>0, <2>1, <3>4 DEF Asked
      <4>2. passed'[p1] = passed[p1] + 1 /\ late'[p1] = late[p1] /\ Spare(p1)' = Spare(p1) - 1
        BY <1>0, <2>1, <2>3, <2>6, <3>4, <4>1 DEF LimitTypes
      <4> QED BY <2>3, <3>1, <3>2, <3>3, <4>1, <4>2, LimitAssumption DEF Accounted, Prompt
    <3>5. CASE ~(p1 = p /\ ask[q].at = now)
      <4>1. Spare(p1)' <= Spare(p1)
        BY <2>6, <3>1
      <4>2. \/ passed'[p1] = passed[p1] /\ late'[p1] = late[p1]
            \/ passed'[p1] = passed[p1] + 1 /\ late'[p1] = late[p1] + 1
        <5>1. CASE p1 # p
          BY <1>0, <2>3, <5>1 DEF LimitTypes
        <5>2. CASE p1 = p
          <6>1. ask[q].at < now
            BY <2>0, <3>1, <3>5, <5>2 DEF Asked
          <6> QED BY <1>0, <2>3, <5>2, <6>1 DEF LimitTypes
        <5> QED BY <5>1, <5>2
      <4>3. Prompt(p1)' = Prompt(p1)
        BY <3>1, <4>2 DEF Prompt
      <4> QED BY <2>3, <3>1, <3>2, <3>3, <4>1, <4>2, <4>3, LimitAssumption
        DEF Accounted, Prompt
    <3> QED BY <3>4, <3>5
  <2>8. \A r \in Requests : ask'[r].lim # None => Asked(r)'
    BY <2>3 DEF LimitInv, Asked
  <2> QED BY <2>4, <2>7, <2>8 DEF LimitInv
<1> QED BY <1>1, <1>2

LEMMA SweepKeeps ==
  ASSUME LimitInv, NEW p \in PluginIds, Sweep(p)
  PROVE  LimitInv'
<1>0. LimitTypes
  BY DEF LimitInv
<1>1. LimitTypes'
  BY <1>0 DEF LimitTypes, Sweep
<1>2. /\ plugins'[p] = [lim |-> None, seen |-> plugins[p].seen]
      /\ \A p1 \in PluginIds : p1 # p => plugins'[p1] = plugins[p1]
      /\ UNCHANGED <<now, limiters, ask, since, passed, late>>
  BY <1>0 DEF LimitTypes, Sweep
<1>3. ASSUME NEW p1 \in PluginIds PROVE Accounted(p1)'
  <2>1. CASE p1 # p
    BY <1>2, <1>3, <2>1 DEF LimitInv, Accounted, Prompt, Spare, Refilled
  <2>2. CASE p1 = p
    <3>1. /\ now \in Nat /\ since \in Nat /\ since <= now /\ plugins[p].seen \in Nat
          /\ passed[p] \in Nat /\ late[p] \in Nat /\ Accounted(p)
      BY <1>0 DEF LimitInv, LimitTypes
    <3>2. Gain(now - since) \in Nat
      <4>1. now - since \in Nat
        BY <3>1
      <4> QED BY <4>1, GainNat
    <3>3. Prompt(p) <= Gain(now - since)
      <4>1. CASE Prompt(p) = 0
        BY <3>2, <4>1
      <4>2. CASE Prompt(p) # 0
        <5>1. PICK d \in Nat, e \in Nat : d = now - plugins[p].seen /\ e = plugins[p].seen - since
          <6>1. now - plugins[p].seen \in Nat /\ plugins[p].seen - since \in Nat
            BY <3>1, <4>2 DEF Accounted
          <6> QED BY <6>1
        <5>2. Burst <= Gain(d) /\ Gain(d) \in Nat /\ Gain(e) \in Nat
          BY <5>1, ForgottenIsFull, GainNat DEF Sweep
        <5>3. Gain(now - since) = Gain(d) + Gain(e)
          <6>1. now - since = d + e
            BY <3>1, <5>1
          <6> QED BY <6>1, GainSum
        <5>4. Prompt(p) <= Burst + Gain(e) /\ Prompt(p) \in Int
          BY <3>1, <4>2, <5>1 DEF Accounted, Prompt
        <5> QED BY <5>2, <5>3, <5>4, LimitAssumption
      <4> QED BY <4>1, <4>2
    <3>4. Spare(p)' = Burst /\ Prompt(p)' = Prompt(p) /\ Prompt(p) \in Int
      BY <1>2, <3>1 DEF Spare, Prompt
    <3>5. Prompt(p)' + Spare(p)' <= Burst + Gain(now - since)
      BY <3>2, <3>3, <3>4, LimitAssumption
    <3> QED BY <1>2, <2>2, <3>1, <3>4, <3>5 DEF Accounted
  <2> QED BY <2>1, <2>2
<1>4. ASSUME NEW r \in Requests, ask'[r].lim # None PROVE Asked(r)'
  <2>1. Asked(r) /\ ask[r].plugin \in PluginIds
    BY <1>0, <1>2, <1>4 DEF LimitInv, LimitTypes
  <2>2. ~(ask[r].plugin = p /\ ask[r].at = now)
    <3>1. plugins[p].seen # now
      BY <1>0, LimitAssumption DEF Sweep, LimitTypes
    <3> QED BY <2>1, <3>1 DEF Asked
  <2> QED BY <1>2, <2>1, <2>2 DEF Asked
<1> QED BY <1>1, <1>3, <1>4 DEF LimitInv

LEMMA ObserveKeeps == LimitInv /\ Observe => LimitInv'
<1> SUFFICES ASSUME LimitInv, Observe PROVE LimitInv'
  OBVIOUS
<1>0. LimitTypes
  BY DEF LimitInv
<1>1. LimitTypes'
  BY <1>0 DEF LimitTypes, Observe
<1>2. ASSUME NEW p \in PluginIds PROVE Accounted(p)'
  <2>1. Spare(p)' = Spare(p) /\ Spare(p) \in Nat /\ Spare(p) <= Burst
    BY <1>0, SpareNat DEF Observe, Spare, Refilled, SpareTypes
  <2>2. Gain(now' - since') = 0
    <3>1. now' - since' = 0
      BY <1>0 DEF LimitTypes, Observe
    <3> QED BY <3>1, GainZero
  <2>3. passed'[p] = 0 /\ late'[p] = 0 /\ Accounted(p)
    BY DEF Observe, LimitInv
  <2> QED BY <2>1, <2>2, <2>3, LimitAssumption DEF Observe, Accounted, Prompt
<1>3. \A r \in Requests : ask'[r].lim # None => Asked(r)'
  BY DEF LimitInv, Asked, Observe
<1> QED BY <1>1, <1>2, <1>3 DEF LimitInv

LEMMA LimitUnchanged ==
  ASSUME LimitInv, built' \in PluginIds,
         UNCHANGED <<now, plugins, limiters, ask, since, passed, late>>
  PROVE  LimitInv'
BY DEF LimitInv, LimitTypes, Accounted, Asked, Prompt, Spare, Refilled

LEMMA LimitStays == LimitInv /\ UNCHANGED limitVars => LimitInv'
BY LimitUnchanged DEF limitVars, LimitInv, LimitTypes

\* What the limiter has let through is paid for by the burst and the refills.
LEMMA LimitBounds == LimitInv => RouteBound
<1> SUFFICES ASSUME LimitInv, NEW p \in PluginIds
             PROVE  passed[p] <= Burst + Gain(now - since) + late[p]
  BY DEF RouteBound
<1>1. /\ Accounted(p) /\ Spare(p) \in Nat /\ passed[p] \in Nat /\ late[p] \in Nat
      /\ now - since \in Nat
  BY SpareNat DEF LimitInv, LimitTypes, SpareTypes
<1>2. Gain(now - since) \in Nat
  BY <1>1, GainNat
<1>3. Prompt(p) + Spare(p) <= Burst + Gain(now - since)
  BY Zenon, <1>1 DEF Accounted
<1>4. Burst \in Nat
  BY Zenon, LimitAssumption
<1> QED BY <1>1, <1>2, <1>3, <1>4 DEF Prompt

-----------------------------------------------------------------------------
(* The types *)

LEMMA GetLimiterTypes ==
  ASSUME LimitType, NEW q \in Requests, GetLimiter(q)
  PROVE  LimitType'
<1> DEFINE p == ask[q].plugin
           l == IF plugins[p].lim # None THEN plugins[p].lim ELSE q
<1>1. p \in PluginIds /\ l \in Requests \cup {None}
  BY DEF LimitType
<1>2. now \in 0 .. now /\ Burst \in 0 .. Burst
  BY LimitAssumption DEF LimitType
<1>3. /\ plugins' = [plugins EXCEPT ![p] = [lim |-> l, seen |-> now]]
      /\ limiters' \in {limiters, [limiters EXCEPT ![q] = [tokens |-> Burst, last |-> now]]}
      /\ ask' = [ask EXCEPT ![q].lim = l, ![q].at = now]
      /\ UNCHANGED <<now, built, since, passed, late>>
  BY DEF GetLimiter
<1> HIDE DEF l
<1>4. plugins' \in [PluginIds -> [lim : Requests \cup {None}, seen : 0 .. now]]
  BY <1>1, <1>2, <1>3 DEF LimitType
<1>5. limiters' \in [Requests -> [tokens : 0 .. Burst, last : 0 .. now]]
  <2>1. [tokens |-> Burst, last |-> now] \in [tokens : 0 .. Burst, last : 0 .. now]
    BY <1>2
  <2> QED BY Zenon, <1>3, <2>1 DEF LimitType
<1>6. ask' \in [Requests -> [plugin : PluginIds, lim : Requests \cup {None}, at : 0 .. now]]
  <2>1. ask' = [r \in Requests |-> ask'[r]]
    BY Zenon, <1>3 DEF LimitType
  <2>2. ASSUME NEW r \in Requests
        PROVE  ask'[r] \in [plugin : PluginIds, lim : Requests \cup {None}, at : 0 .. now]
    <3>1. ask'[r] = ask[r] \/ ask'[r] = [plugin |-> p, lim |-> l, at |-> now]
      <4>1. r # q => ask'[r] = ask[r]
        BY Zenon, <1>3 DEF LimitType
      <4>2. ask'[q] = [plugin |-> p, lim |-> l, at |-> now]
        <5>1. ask[q] \in [plugin : PluginIds, lim : Requests \cup {None}, at : 0 .. now] /\ ask[q].plugin = p
          BY <1>1 DEF LimitType
        <5>2. ask'[q] = [[ask[q] EXCEPT !.lim = l] EXCEPT !.at = now]
          BY <1>3 DEF LimitType
        <5> QED BY Zenon, <5>1, <5>2
      <4> QED BY <4>1, <4>2
    <3>2. [plugin |-> p, lim |-> l, at |-> now]
            \in [plugin : PluginIds, lim : Requests \cup {None}, at : 0 .. now]
      BY <1>1, <1>2
    <3> QED BY Zenon, <3>1, <3>2 DEF LimitType
  <2> QED BY Zenon, <2>1, <2>2
<1> QED BY <1>3, <1>4, <1>5, <1>6 DEF LimitType

LEMMA AllowTypes ==
  ASSUME LimitType, NEW q \in Requests, NEW pass \in BOOLEAN, Allow(q, pass)
  PROVE  LimitType'
<1>1. PICK l \in Requests, p \in PluginIds : ask[q].lim = l /\ ask[q].plugin = p
  BY DEF LimitType, Allow
<1>2. pass => Refilled(l) - 1 \in 0 .. Burst /\ now \in 0 .. now
  <2>1. now - limiters[l].last \in Nat /\ limiters[l].tokens \in Nat /\ now \in Nat
    BY LimitAssumption DEF LimitType
  <2>2. Gain(now - limiters[l].last) \in Nat
    BY <2>1, GainNat
  <2>3. Refilled(l) \in 0 .. Burst
    BY <2>1, <2>2, LimitAssumption DEF Refilled
  <2>4. pass => Refilled(l) >= 1
    BY Zenon, <1>1 DEF Allow
  <2> QED BY <2>1, <2>3, <2>4, LimitAssumption
<1>3. /\ UNCHANGED <<now, built, plugins, ask, since>>
      /\ pass => limiters' = [limiters EXCEPT ![l] = [tokens |-> Refilled(l) - 1, last |-> now]]
      /\ ~pass => limiters' = limiters
      /\ passed' \in {passed, [passed EXCEPT ![p] = @ + 1]}
      /\ late' \in {late, [late EXCEPT ![p] = @ + 1]}
  BY <1>1 DEF Allow
<1>4. limiters' \in [Requests -> [tokens : 0 .. Burst, last : 0 .. now]]
  BY <1>2, <1>3 DEF LimitType
<1>5. passed' \in [PluginIds -> Nat] /\ late' \in [PluginIds -> Nat]
  BY <1>3 DEF LimitType
<1> QED BY <1>3, <1>4, <1>5 DEF LimitType

LEMMA TimeTypes ==
  ASSUME LimitType, Tick \/ Observe \/ \E p \in PluginIds : Sweep(p)
  PROVE  LimitType'
<1>1. CASE Tick
  <2>1. 0 .. now \subseteq 0 .. now' /\ now' \in 0 .. MaxTime
    BY <1>1, LimitAssumption DEF LimitType, Tick
  <2>2. plugins \in [PluginIds -> [lim : Requests \cup {None}, seen : 0 .. now']]
    BY Zenon, <2>1 DEF LimitType
  <2>3. limiters \in [Requests -> [tokens : 0 .. Burst, last : 0 .. now']]
    BY Zenon, <2>1 DEF LimitType
  <2>4. ask \in [Requests -> [plugin : PluginIds, lim : Requests \cup {None}, at : 0 .. now']]
    BY Zenon, <2>1 DEF LimitType
  <2> QED BY <1>1, <2>1, <2>2, <2>3, <2>4 DEF LimitType, Tick
<1>2. CASE Observe
  BY <1>2 DEF LimitType, Observe
<1>3. ASSUME NEW p \in PluginIds, Sweep(p) PROVE LimitType'
  <2>1. plugins' \in [PluginIds -> [lim : Requests \cup {None}, seen : 0 .. now]]
    BY <1>3 DEF LimitType, Sweep
  <2> QED BY <1>3, <2>1 DEF LimitType, Sweep
<1> QED BY <1>1, <1>2, <1>3

LEMMA PluginTypes ==
  ASSUME PluginType, Watching \/ Copy \/ Copied
  PROVE  PluginType'
<1>1. CASE Copy
  <2>1. file.version + 1 \in Versions
    BY <1>1, VersionAssumption DEF PluginType, Copy, Versions
  <2>2. file' \in [version : Versions, whole : BOOLEAN]
    BY <1>1, <2>1 DEF Copy
  <2>3. events' \in Seq({"create", "write"})
    BY <1>1 DEF PluginType, Copy
  <2> QED BY <1>1, <2>2, <2>3 DEF PluginType, Copy
<1>2. CASE Copied
  <2>1. file' = [version |-> file.version, whole |-> TRUE] /\ file.version \in Versions
    BY Zenon, <1>2 DEF PluginType, Copied
  <2>2. file' \in [version : Versions, whole : BOOLEAN]
    BY <2>1
  <2>3. events' \in Seq({"create", "write"})
    BY <1>2 DEF PluginType, Copied
  <2> QED BY <1>2, <2>2, <2>3 DEF PluginType, Copied
<1>3. CASE Receive
  BY <1>3 DEF PluginType, Receive
<1>4. CASE Open
  BY <1>4 DEF PluginType, Open
<1>5. CASE LookupSymbols \/ BeginWrite \/ EndWrite
  BY <1>5 DEF PluginType, LookupSymbols, BeginWrite, EndWrite
<1> QED BY <1>1, <1>2, <1>3, <1>4, <1>5 DEF Watching
=============================================================================
