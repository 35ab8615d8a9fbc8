------------------------------ MODULE MCOperator ------------------------------
(* One upstream with a route that refers to it, or one policy.  The route    *)
(* and the policy have two specifications to choose from; the upstream, whose *)
(* edits are handled as the policy's are, has one.  Four identifiers are      *)
(* enough for one that nothing refers to always to exist.                     *)
EXTENDS Operator

CONSTANTS u1, r1, p1, s1, s2

MCRefOf == [r \in {r1} |-> u1]
MCPopulations == {{u1, r1}, {p1}}
MCSpecsOf == [o \in {u1, r1, p1} |-> IF o = u1 THEN {s1} ELSE {s1, s2}]
=============================================================================
