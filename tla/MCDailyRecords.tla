---------------------------- MODULE MCDailyRecords ----------------------------
(***************************************************************************)
(* DailyRecords for TLC: a Saturday to the Tuesday after it, a full-timer  *)
(* and a part-timer.                                                       *)
(***************************************************************************)
EXTENDS DailyRecords

MCSched == [am_in |-> 8 * 3600, am_out |-> 12 * 3600, midpoint |-> 12 * 3600 + 1800,
            pm_in |-> 13 * 3600, pm_out |-> 17 * 3600, grace_period_minutes |-> 5]

At(h, m) == h * 3600 + m * 60
Moments == {Moment(0, At(11, 0)), Moment(1, At(11, 0)), Moment(2, At(12, 45)),
            Moment(2, At(18, 0)), Moment(3, At(11, 0))}
FromTheStart == [e \in {1, 2} |-> 0]

Punches ==
    {<<1, 2, t>> : t \in {At(8, 10), At(11, 0), At(12, 40), At(12, 45), At(17, 10)}}
    \cup {<<1, 0, At(9, 0)>>}
    \cup {<<2, 1, t>> : t \in {At(9, 0), At(11, 0)}} \cup {<<2, 0, t>> : t \in {At(9, 0), At(10, 0)}}
Settings == {<<2, [on |-> TRUE, required |-> {}]>>, <<2, [on |-> TRUE, required |-> {"AM"}]>>}
=============================================================================
