---------------------------- MODULE MCLoadBalancer ----------------------------
(* Two endpoints and two requests: enough for one request to see the same    *)
(* endpoint twice in round-robin, and for a least-conn scan to overlap with  *)
(* another request.                                                          *)
EXTENDS LoadBalancer

MCSplitWeight == [e \in Endpoints |-> IF e = 0 THEN 3 ELSE 0]
=============================================================================
