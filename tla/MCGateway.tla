------------------------------ MODULE MCGateway ------------------------------
(***************************************************************************)
(* An instance of Gateway.  The goroutines of a mix are those that share   *)
(* state with one another.                                                 *)
(***************************************************************************)
EXTENDS Gateway

CONSTANTS q1, q2, q3, k1, k2, k3, s1

MCRequests == {q1, q2, q3}

MCKeyOps == {k1, k2, k3}

\* The watcher and the user who installs plugins, alone.
MCWatching == {{"watcher"}}

MCMixes ==
  { {q1, q2, "upstream", s1},
    {q1, q2, q3, "clock"},
    {q1, q2, "clock", "reload"},
    MCKeyOps,
    {"watcher", "reload", Lister, q1},
    {"watcher", "reload", "main"},
    {q1, k1, s1, "upstream", "main"},
    {q1, q3, "upstream", "main"} }
=============================================================================
