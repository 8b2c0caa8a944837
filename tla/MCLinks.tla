------------------------------ MODULE MCLinks -------------------------------
(***************************************************************************)
(* Values for the constants of Links.                                      *)
(***************************************************************************)
EXTENDS Links

\* Discovery: one gateway answers twice, under two names.
MCResponses ==
  {[endpoint |-> "first", name |-> "old"], [endpoint |-> "first", name |-> "new"],
   [endpoint |-> "second", name |-> "old"]}
=============================================================================
