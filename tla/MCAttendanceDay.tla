--------------------------- MODULE MCAttendanceDay ---------------------------
(***************************************************************************)
(* Instances of AttendanceDay for TLC: the institution's default schedule  *)
(* and clocks with few moments, each placed around one rule.               *)
(***************************************************************************)
EXTENDS AttendanceDay

At(h, m) == (h * 60 + m) * 60

DefaultSched == [am_in |-> At(8, 0), am_out |-> At(12, 0), midpoint |-> At(12, 30),
                 pm_in |-> At(13, 0), pm_out |-> At(17, 0), grace_period_minutes |-> 5]

NextMorning == DaySeconds + At(0, 5)

\* A late arrival, lunch, the end of the day, and overtime from five, or from six.
FullClock == {At(8, 20), At(12, 40), At(17, 0), At(18, 30), NextMorning}
OvertimeStarts == {At(17, 0), At(18, 0)}

\* Arrival with a double tap, lunch taps 30 seconds apart, leaving early.
MorningClock == {At(7, 55), At(7, 58), At(11, 0), At(12, 0), At(12, 35), At(12, 35) + 30,
                 At(16, 30), NextMorning}

\* An afternoon with overtime.
OvertimeClock == {At(12, 55), At(17, 0), At(18, 30), NextMorning}

NoHoliday == [on |-> FALSE, required |-> {}]
PlainHoliday == [on |-> TRUE, required |-> {}]
MorningEvent == [on |-> TRUE, required |-> {"AM"}]

OrdinaryDay == {NoHoliday}
AnyHoliday == {NoHoliday, PlainHoliday, MorningEvent}
=============================================================================
