------------------------------- MODULE MCStore -------------------------------
(* The store's two halves.  The configuration: two routes, two upstreams and *)
(* one policy; request bodies name existing, deleted and never created       *)
(* upstreams alike.  The API keys: three keys with two names, two toggle     *)
(* handlers and one request, enough for a failed deletion, a deletion and a  *)
(* restart between the two steps of a handler or of a validation.            *)
(*                                                                           *)
(* Each half has the other's operations as one action that only saves        *)
(* (KeyOperation, OtherOperation), so a behaviour is about one of them.      *)
EXTENDS KeyStore, Store, TLC

CONSTANTS n1, n2, rule1, spec1

VARIABLE part  \* the half this behaviour is about

MCNames == {n1, n2}

MCRouteBodies ==
  [name : MCNames, active : {TRUE}, upstreamID : UpstreamIds \cup {None},
   weighted : {{}}, rule : {rule1}]

MCUpstreamBodies == [name : MCNames, spec : {spec1}]

MCPolicyBodies == [name : {n1}, active : {TRUE}]

Symmetry ==
  UNION {Permutations(S) : S \in {RouteIds, UpstreamIds, Togglers, Ids, KeyNames}}

HalvesInit == part \in {"config", "keys"} /\ Init /\ KeyInit

HalvesNext ==
  /\ \/ part = "config" /\ Next /\ UNCHANGED keyStoreVars
     \/ part = "keys" /\ KeyNext /\ UNCHANGED storeVars
  /\ UNCHANGED part

HalvesSpec == HalvesInit /\ [][HalvesNext]_<<part, storeVars, keyStoreVars>>
=============================================================================
