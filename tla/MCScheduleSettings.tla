-------------------------- MODULE MCScheduleSettings --------------------------
(***************************************************************************)
(* ScheduleSettings for TLC: the default schedule, a later one and one out *)
(* of order; overrides that are in order only with one of them.            *)
(***************************************************************************)
EXTENDS ScheduleSettings

Of(am_in, am_out, midpoint, pm_in, pm_out) ==
    [am_in |-> am_in, am_out |-> am_out, midpoint |-> midpoint, pm_in |-> pm_in, pm_out |-> pm_out]

Default == Of(8, 12, 12, 13, 17)
Weekdays == 0..4
Forms == {[times |-> t, workdays |-> Weekdays] :
             t \in {Of(9, 13, 14, 14, 18), Of(7, 11, 11, 12, 16), Of(8, 12, 11, 13, 17)}}
Weekly == {[hours |-> 10, days |-> 2], [hours |-> 200, days |-> 2]}

AmOutAt(t) == Of(Blank, t, Blank, Blank, Blank)
Overrides == {[times |-> AmOutAt(Blank), workdays |-> {}],
              [times |-> AmOutAt(14), workdays |-> {}],
              [times |-> AmOutAt(11), workdays |-> Weekdays \cup {5}]}

\* Nothing overridden, or the end of the morning only; no day ticked.
AllDaysOff == {[times |-> AmOutAt(t), workdays |-> {}] : t \in {Blank, 11}}
=============================================================================
