----------------------------- MODULE PunchRules -----------------------------
(***************************************************************************)
(* The pure rules of apps/attendance/services.py: which punch of a day is  *)
(* which log type, what a session's minutes are, and what process_day      *)
(* derives from a day's stored logs.                                       *)
(*                                                                         *)
(* A moment is a number of seconds since the local midnight that starts    *)
(* the day the rules are applied to; NoTime stands for Python's None.  A   *)
(* moment of the following day is at least DaySeconds.  A classification   *)
(* ({log_type: datetime} in the code) is a set of [type, at] records.      *)
(***************************************************************************)
EXTENDS Integers

DaySeconds == 24 * 60 * 60
NoTime == -1

DUPLICATE_PUNCH_WINDOW == 5 * 60
LUNCH_DUPLICATE_WINDOW == 60

FULLTIME_TYPES == {"AM_IN", "AM_OUT", "PM_IN", "PM_OUT", "OT_IN", "OT_OUT"}
PARTTIME_TYPES == {"IN", "OUT"}
LogTypes == FULLTIME_TYPES \cup PARTTIME_TYPES
OutTypes == {"AM_OUT", "PM_OUT", "OT_OUT", "OUT"}

Sessions == {"AM", "PM"}
InType(s) == IF s = "AM" THEN "AM_IN" ELSE "PM_IN"
OutType(s) == IF s = "AM" THEN "AM_OUT" ELSE "PM_OUT"

Schedules == [am_in: Nat, am_out: Nat, midpoint: Nat, pm_in: Nat, pm_out: Nat,
              grace_period_minutes: Nat]

SessionIn(sched, s) == IF s = "AM" THEN sched.am_in ELSE sched.pm_in
SessionOut(sched, s) == IF s = "AM" THEN sched.am_out ELSE sched.pm_out

\* The order the schedule forms enforce on a schedule's effective times.
OrderedSchedule(sched) ==
    /\ sched.am_in < sched.am_out
    /\ sched.am_out <= sched.midpoint
    /\ sched.midpoint <= sched.pm_in
    /\ sched.pm_in < sched.pm_out
    /\ sched.pm_out < DaySeconds

Earliest(S) == CHOOSE t \in S : \A u \in S : t <= u
Latest(S) == CHOOSE t \in S : \A u \in S : u <= t

\* Seeded fault: minutes are not floored at zero.
AtLeastZeroUnfloored(n) == n

AtLeastZero(n) == IF n < 0 THEN 0 ELSE n

----------------------------------------------------------------------------
(* Classifying a day's punches.                                            *)

Label(type, at) == [type |-> type, at |-> at]
Labelled(labels, type) == \E l \in labels : l.type = type

GroupInOut(S, inType, outType, schedOut) ==
    IF S = {} THEN {}
    ELSE IF schedOut # NoTime /\ Earliest(S) >= schedOut
    THEN {Label(outType, Latest(S))}
    ELSE {Label(inType, Earliest(S))}
         \cup (IF Latest(S) - Earliest(S) >= DUPLICATE_PUNCH_WINDOW
               THEN {Label(outType, Latest(S))} ELSE {})

AssignFulltimePunches(S, sched, otStart) ==
    LET am == {t \in S : t <= sched.midpoint}
        ot == {t \in S \ am : otStart # NoTime /\ t >= otStart}
        pm == S \ (am \cup ot)
        lunch == {t \in pm : t < sched.pm_in}
        morning == GroupInOut(am, "AM_IN", "AM_OUT", sched.am_out)
        forgotAmOut == /\ Labelled(morning, "AM_IN")
                       /\ ~Labelled(morning, "AM_OUT")
                       /\ lunch # {}
        afternoon == {t \in pm : t - Earliest(lunch) >= LUNCH_DUPLICATE_WINDOW}
        day == IF forgotAmOut
               THEN morning \cup {Label("AM_OUT", Earliest(lunch))}
                    \cup GroupInOut(afternoon, "PM_IN", "PM_OUT", sched.pm_out)
               ELSE morning \cup GroupInOut(pm, "PM_IN", "PM_OUT", sched.pm_out)
    IN  day \cup GroupInOut(ot, "OT_IN", "OT_OUT", NoTime)

AssignParttimePunches(S) == GroupInOut(S, "IN", "OUT", NoTime)

\* Seeded fault: the lunch punch that closes the morning is dropped.
ClassifyDayDropsLunch(S, isFulltime, sched, otStart) ==
    {l \in AssignFulltimePunches(S, sched, otStart) :
        ~(l.type = "AM_OUT" /\ l.at > sched.midpoint)}

ClassifyDay(S, isFulltime, sched, otStart) ==
    IF isFulltime THEN AssignFulltimePunches(S, sched, otStart)
    ELSE AssignParttimePunches(S)

----------------------------------------------------------------------------
(* What the stored logs of a day amount to.                                *)

\* A day's log of each type: the earliest of an IN type, the latest of an OUT.
DayLogs(logs) ==
    [type \in LogTypes |->
        LET times == {l.at : l \in {k \in logs : k.type = type}}
        IN  IF times = {} THEN NoTime
            ELSE IF type \in OutTypes THEN Latest(times) ELSE Earliest(times)]

HasIn(day, s) == day[InType(s)] # NoTime
HasOut(day, s) == day[OutType(s)] # NoTime
SessionComplete(day, s) == HasIn(day, s) /\ HasOut(day, s)

\* Still to be decided: "now" is before the session's time out (a moment of a
\* later day is past it, a moment of an earlier day is negative).
SessionIsOpen(schedOut, now) == now < schedOut

MinuteOf(t) == t \div 60
MinutesLate(actualIn, expectedIn, grace) ==
    AtLeastZero(MinuteOf(actualIn) - (MinuteOf(expectedIn) + grace))
MinutesUndertime(actualOut, expectedOut) ==
    AtLeastZero(MinuteOf(expectedOut) - MinuteOf(actualOut))

Reasons == {"NO_PUNCH", "MISSING_IN", "MISSING_OUT"}
NotAbsent == "NOT_ABSENT"

\* The derived tables of one employee-day: minutes of a Lates or Undertime row
\* (0 when there is none), the reason of an Absence row, minutes of Overtime.
Tables == [late: [Sessions -> Nat], under: [Sessions -> Nat],
           absent: [Sessions -> Reasons \cup {NotAbsent}],
           overtime: Nat \cup {NoTime}]

NoRows == [late |-> [s \in Sessions |-> 0], under |-> [s \in Sessions |-> 0],
           absent |-> [s \in Sessions |-> NotAbsent], overtime |-> NoTime]

EventRequirementMet(day, required) ==
    required # {} /\ \A s \in required : SessionComplete(day, s)

\* Seeded fault: an OT_IN before the authorised start counts from where it is.
ComputeOvertimeFromPunch(day, otStart) ==
    IF otStart = NoTime \/ day["OT_IN"] = NoTime \/ day["OT_OUT"] = NoTime
    THEN NoTime
    ELSE AtLeastZero((day["OT_OUT"] - day["OT_IN"]) \div 60)

ComputeOvertime(day, otStart) ==
    IF otStart = NoTime \/ day["OT_IN"] = NoTime \/ day["OT_OUT"] = NoTime
    THEN NoTime
    ELSE LET start == IF day["OT_IN"] < otStart THEN otStart ELSE day["OT_IN"]
         IN  AtLeastZero((day["OT_OUT"] - start) \div 60)

\* Seeded fault: a session still open is judged.
AbsenceOfTooEarly(day, s, schedOut, now) ==
    IF SessionComplete(day, s) THEN NotAbsent
    ELSE IF HasIn(day, s) THEN "MISSING_OUT"
    ELSE IF HasOut(day, s) THEN "MISSING_IN" ELSE "NO_PUNCH"

AbsenceOf(day, s, schedOut, now) ==
    IF SessionComplete(day, s) \/ SessionIsOpen(schedOut, now) THEN NotAbsent
    ELSE IF HasIn(day, s) THEN "MISSING_OUT"
    ELSE IF HasOut(day, s) THEN "MISSING_IN" ELSE "NO_PUNCH"

ProcessFulltime(day, sched, otStart, now) ==
    [late |-> [s \in Sessions |->
        IF SessionComplete(day, s)
        THEN MinutesLate(day[InType(s)], SessionIn(sched, s), sched.grace_period_minutes)
        ELSE 0],
     under |-> [s \in Sessions |->
        IF SessionComplete(day, s)
        THEN MinutesUndertime(day[OutType(s)], SessionOut(sched, s)) ELSE 0],
     absent |-> [s \in Sessions |-> AbsenceOf(day, s, SessionOut(sched, s), now)],
     overtime |-> ComputeOvertime(day, otStart)]
=============================================================================
