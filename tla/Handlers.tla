------------------------------- MODULE Handlers -------------------------------
(***************************************************************************)
(* The goroutines in which net/http runs the gateway's handlers, one per   *)
(* request.                                                                *)
(***************************************************************************)

CONSTANTS
  Requests,   \* requests to the proxied route
  KeyOps,     \* admin requests to createKey, deleteKey and toggleKey
  Readers,    \* admin requests to handleMetrics and streamMetrics
  None

ASSUME HandlersAssumption == None \notin Requests
=============================================================================
