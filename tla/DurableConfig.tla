---------------------------- MODULE DurableConfig ----------------------------
(***************************************************************************)
(* What the configuration store promises: the configuration it serves and  *)
(* the one that survives a restart change together, in one step, whenever  *)
(* an operation is acknowledged.  A toggle whose save fails is the one     *)
(* exception: it is served, though its caller gets an error, until the     *)
(* next acknowledged operation saves it or a restart drops it.             *)
(***************************************************************************)
CONSTANTS
  Initial,       \* the configuration of an empty store
  Change(_, _),  \* an operation may lead from one configuration to the other
  Toggle(_, _)   \* a toggle may lead from one configuration to the other

VARIABLES
  served,        \* what readers of the store see
  saved          \* what a restart brings back

Init == served = Initial /\ saved = Initial

\* An operation is acknowledged.
Commit ==
  /\ Change(served, served')
  /\ saved' = served'

\* A toggle fails: its caller is told so, its effect stays.
FailedToggle ==
  /\ Toggle(served, served')
  /\ UNCHANGED saved

\* A crash and a restart.
Recover ==
  /\ served' = saved
  /\ UNCHANGED saved

Next == Commit \/ FailedToggle \/ Recover

Spec == Init /\ [][Next]_<<served, saved>>
=============================================================================
