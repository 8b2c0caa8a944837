------------------------------- MODULE Clock --------------------------------
(***************************************************************************)
(* Date.now() as the nodes read it, in units of their choice.  It does not *)
(* go back here: the code reads the wall clock, and what a clock set back  *)
(* does to it is listed with the hazards.                                  *)
(***************************************************************************)
EXTENDS Integers

CONSTANT MaxTime   \* bound: the clock stops here

ASSUME MaxTimeAssumption == MaxTime \in Nat

VARIABLE now

ClockInit == now = 0

Tick == now < MaxTime /\ now' = now + 1
=============================================================================
