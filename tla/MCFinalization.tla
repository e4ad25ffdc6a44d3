---------------------------- MODULE MCFinalization ----------------------------
(***************************************************************************)
(* Finalization for TLC: employee 1 from the first day, employee 2 hired   *)
(* on the second.                                                          *)
(***************************************************************************)
EXTENDS Finalization

HiredLater == <<0, 1>>
AllFromTheStart == <<0>>
Punches == {<<1, 0>>}
=============================================================================
