--------------------------- MODULE MCPunchIngestion ---------------------------
(***************************************************************************)
(* PunchIngestion for TLC: the default schedule, a late arrival, a lunch   *)
(* punch whose meaning depends on it, the end of the day.                  *)
(***************************************************************************)
EXTENDS PunchIngestion

At(h, m) == (h * 60 + m) * 60

DefaultSched == [am_in |-> At(8, 0), am_out |-> At(12, 0), midpoint |-> At(12, 30),
                 pm_in |-> At(13, 0), pm_out |-> At(17, 0), grace_period_minutes |-> 5]

DayClock == {At(8, 20), At(12, 40), At(17, 1)}
Evening == At(18, 0)
=============================================================================
