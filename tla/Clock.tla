-------------------------------- MODULE Clock --------------------------------
(***************************************************************************)
(* Time, for the rate limiters.  real is the time at Redis.  A gateway pod *)
(* reads its own clock and sends the reading to Redis along with the       *)
(* script it wants run; Skew bounds how far behind real the reading may be *)
(* when the script runs, by the difference of the clocks and by the delay  *)
(* of the call.                                                            *)
(***************************************************************************)
EXTENDS Integers

CONSTANT Skew

ASSUME SkewAssumption == Skew \in Nat

VARIABLE real

ClockInit == real = 0

Readings == real - Skew .. real
=============================================================================
