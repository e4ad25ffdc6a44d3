---------------------------- MODULE DailyRecords ----------------------------
(***************************************************************************)
(* Reading attendance back.  The Attendance page, the mobile app and the   *)
(* reports infer each day from the stored punches (selectors.py), while    *)
(* the tardiness and absence pages, their reports and the dashboard add up *)
(* the rows process_day left (views.py, generators.py): two readings of    *)
(* one ledger, over several days and employees, as punches arrive late,    *)
(* holidays are edited and the daily pass runs.  Each day's ledger is      *)
(* AttendanceDay's; the daily pass, here one step, is Finalization's.      *)
(* Overtime is left out: its column is its row, and no time is authorised. *)
(***************************************************************************)
EXTENDS PunchRules, FiniteSets, Functions

CONSTANTS
    LastDay,          \* bound: the last day modelled; days are numbered from 0
    FirstWeekday,     \* weekday of day 0 (0 is Monday)
    Workdays,         \* the schedule's workdays, as weekdays
    Clock,            \* the moments something may happen at, from midnight of day 0
    Sched,            \* the effective schedule
    WeeklyMinutes,    \* a part-timer's weekly requirement
    WeeklyMinDays,    \* ... over at least this many days
    Fulltime,         \* full-time employees
    Parttime,         \* part-time employees
    Floor,            \* employee_floor
    MayPunch,         \* bound: the <<employee, day, second>> that may be punched
    HolidaySettings,  \* the <<day, [on, required]>> an administrator may save
    HOLIDAY_REEVAL_DAYS,
    Edits             \* bound: holidays saved

Employees == Fulltime \cup Parttime
Days == 0..LastDay
Moment(d, t) == d * DaySeconds + t

ASSUME CalendarAssumption ==
    /\ LastDay \in Nat /\ FirstWeekday \in 0..6 /\ Workdays \subseteq 0..6
    /\ Clock \subseteq 0..(Moment(LastDay + 1, 0) - 1)
    /\ Sched \in Schedules /\ OrderedSchedule(Sched)
    /\ {WeeklyMinutes, HOLIDAY_REEVAL_DAYS, Edits} \subseteq Nat /\ WeeklyMinDays \in 1..7
    /\ IsFiniteSet(Employees) /\ Fulltime \cap Parttime = {} /\ Floor \in [Employees -> Nat]
    /\ MayPunch \subseteq Employees \X Days \X (0..(DaySeconds - 1))
    /\ HolidaySettings \subseteq Days \X [on: BOOLEAN, required: SUBSET Sessions]
    /\ \A s \in HolidaySettings : ~s[2].on => s[2].required = {}

VARIABLES
    now,      \* the trusted clock, in seconds from midnight of day 0
    logs,     \* each employee-day's AttendanceLog rows
    holiday,  \* each day's Holiday
    tables,   \* each employee-day's Lates, Undertime, Absence and Overtime rows
    cursor,   \* ProcessingCursor.last_finalized_date
    settled,  \* history: the daily pass was the last thing that happened
    edits     \* administrators' requests so far

vars == <<now, logs, holiday, tables, cursor, settled, edits>>

NoDay == -1
NoHoliday == [on |-> FALSE, required |-> {}]
Today == now \div DaySeconds
Weekday(d) == (FirstWeekday + d) % 7
WorksOn(d) == Weekday(d) \in Workdays
WorkdaysOf(S) == {d \in S : WorksOn(d)}

\* One employee-day of the ledger, with AttendanceDay's rules for it.
Day(e, d, bridging) == INSTANCE AttendanceDay WITH
    IsFulltime <- e \in Fulltime, IsWorkday <- WorksOn(d), BridgingRequired <- bridging,
    OTStarts <- {}, Holidays <- {}, ManualTypes <- {}, LossyListener <- TRUE,
    now <- now - Moment(d, 0), logs <- logs[e][d], holiday <- holiday[d],
    tables <- tables[e][d], pressed <- {}, stream <- {}, auth <- NoTime,
    absencePush <- {}, finalized <- FALSE

LogRows == [at: 0..(DaySeconds - 1), type: LogTypes, source: {"DEVICE"}]

TypeOK ==
    /\ now \in Clock
    /\ logs \in [Employees -> [Days -> SUBSET LogRows]]
    /\ \A e \in Employees, d \in Days : \A r \in logs[e][d] : <<e, d, r.at>> \in MayPunch
    /\ holiday \in [Days -> [on: BOOLEAN, required: SUBSET Sessions]]
    /\ tables \in [Employees -> [Days -> Tables]]
    /\ cursor \in Days \cup {NoDay} /\ settled \in BOOLEAN
    /\ edits \in 0..Edits

Init ==
    /\ now \in Clock /\ \A t \in Clock : now <= t
    /\ logs = [e \in Employees |-> [d \in Days |-> {}]]
    /\ holiday = [d \in Days |-> NoHoliday]
    /\ tables = [e \in Employees |-> [d \in Days |-> NoRows]]
    /\ cursor = NoDay /\ settled = FALSE /\ edits = 0

----------------------------------------------------------------------------
(* Writing the ledger.                                                     *)

\* holiday_requires_attendance, as Finalization has it.
HolidayRequires(e, d) ==
    LET before == WorkdaysOf(0..(d - 1))
        after == WorkdaysOf((d + 1)..LastDay)
    IN  \/ before # {} /\ logs[e][Latest(before)] = {}
        \/ after # {} /\ Earliest(after) <= Today /\ logs[e][Earliest(after)] = {}

\* process_day of one employee-day with these logs under these holidays.
Processed(e, d, rows, hols) ==
    LET at == now - Moment(d, 0)
    IN  IF HolidayRequires(e, d)
        THEN Day(e, d, TRUE)!ProcessDay(rows, NoTime, hols[d], at)
        ELSE Day(e, d, FALSE)!ProcessDay(rows, NoTime, hols[d], at)

\* process_day for each of these employee-days.
ProcessAll(pairs, hols) ==
    tables' = [e \in Employees |-> [d \in Days |->
                 IF <<e, d>> \in pairs THEN Processed(e, d, logs[e][d], hols)
                 ELSE tables[e][d]]]

Tick ==
    /\ \E t \in Clock : t > now
    /\ now' = Earliest({t \in Clock : t > now})
    /\ settled' = FALSE
    /\ UNCHANGED <<logs, holiday, tables, cursor, edits>>

\* ingest_punches with one more punch of that day, as it happens or read from
\* the unit within a day.
Ingest(e, d, t) ==
    LET rows == logs[e][d]
        labels == ClassifyDay({t} \cup {r.at : r \in rows}, e \in Fulltime, Sched, NoTime)
        stored == Day(e, d, FALSE)!StoreAll(rows, labels)
    IN  /\ Moment(d, t) <= now /\ now <= Moment(d + 1, t)
        /\ stored # rows
        /\ logs' = [logs EXCEPT ![e][d] = stored]
        /\ tables' = [tables EXCEPT ![e][d] = Processed(e, d, stored, holiday)]
        /\ settled' = FALSE
        /\ UNCHANGED <<now, holiday, cursor, edits>>

\* Seeded fault: tracking starts at the last recorded day.
SystemStartLatest ==
    LET recorded == {d \in Days : \E e \in Employees : logs[e][d] # {}}
    IN  IF recorded = {} THEN Today ELSE Latest(recorded)

\* system_start without a configured day, and tracking_start.
SystemStart ==
    LET recorded == {d \in Days : \E e \in Employees : logs[e][d] # {}}
    IN  IF recorded = {} THEN Today ELSE Earliest(recorded)

TrackingStart(e) == IF Floor[e] > SystemStart THEN Floor[e] ELSE SystemStart

\* sync_attendance_task once its punches are in: the days not finalized yet,
\* today, and the holidays of the last days, for everybody.
DailyPass ==
    LET first == IF cursor # NoDay THEN cursor + 1 ELSE SystemStart
        catchUp == {p \in Employees \X (first..(Today - 1)) : p[2] >= Floor[p[1]]}
        recent == {d \in Days : holiday[d].on /\ d < Today /\ d >= Today - HOLIDAY_REEVAL_DAYS}
    IN  /\ ProcessAll(catchUp \cup (Employees \X ({Today} \cup recent)), holiday)
        /\ cursor' = IF first < Today THEN Today - 1 ELSE cursor
        /\ settled' = TRUE
        /\ UNCHANGED <<now, logs, holiday, edits>>

\* holiday_form and holiday_delete: save, then process that date unless it is
\* still to come.
SaveHoliday(d, hol) ==
    /\ edits < Edits /\ edits' = edits + 1
    /\ holiday' = [holiday EXCEPT ![d] = hol]
    /\ ProcessAll(IF d <= Today THEN Employees \X {d} ELSE {}, holiday')
    /\ settled' = FALSE
    /\ UNCHANGED <<now, logs, cursor>>

Next ==
    \/ Tick
    \/ \E p \in MayPunch : Ingest(p[1], p[2], p[3])
    \/ DailyPass
    \/ \E s \in HolidaySettings : SaveHoliday(s[1], s[2])

Spec == Init /\ [][Next]_vars

----------------------------------------------------------------------------
(* One day read from its punches (selectors.py).                           *)

SessionMinutes(s) == AtLeastZero(MinuteOf(SessionOut(Sched, s)) - MinuteOf(SessionIn(Sched, s)))
Both(n) == n["AM"] + n["PM"]

\* holiday_off: nobody scanned on the holiday and nothing is held against it.
HolidayOff(e, d) ==
    /\ holiday[d].on /\ holiday[d].required = {}
    /\ logs[e][d] = {} /\ tables[e][d].absent = NoRows.absent
    /\ ~HolidayRequires(e, d)

\* Seeded fault: a holiday off is left out instead of credited.
IncludedExceptHolidays(e, d) ==
    \/ logs[e][d] # {}
    \/ e \in Fulltime /\ WorksOn(d) /\ TrackingStart(e) <= d /\ d <= Today /\ ~holiday[d].on

\* The days build_daily_attendance lists: those with punches or rows, and the
\* workdays a full-timer was tracked on; a part-timer's only with punches.
Included(e, d) ==
    \/ logs[e][d] # {}
    \/ /\ e \in Fulltime
       /\ \/ tables[e][d].absent # NoRows.absent \/ tables[e][d].late # NoRows.late
          \/ WorksOn(d) /\ TrackingStart(e) <= d /\ d <= Today

\* A day with nothing lost, as an event day or a holiday off is credited.
Credited(d) ==
    [day |-> d, status |-> "PRESENT", event |-> TRUE, late |-> 0, undertime |-> 0, absent |-> 0,
     lost |-> 0, worked |-> 0]

\* Seeded fault: a session not over yet is shown absent.
SessionStatusTooEarly(e, d, s) ==
    IF ~SessionComplete(DayLogs(logs[e][d]), s) THEN "ABSENT"
    ELSE IF tables[e][d].late[s] > 0 THEN "LATE" ELSE "PRESENT"

SessionStatus(e, d, s) ==
    IF ~SessionComplete(DayLogs(logs[e][d]), s)
    THEN IF SessionIsOpen(SessionOut(Sched, s), now - Moment(d, 0)) THEN "PENDING" ELSE "ABSENT"
    ELSE IF tables[e][d].late[s] > 0 THEN "LATE" ELSE "PRESENT"

\* A day's status, and its minutes lost, from its sessions' statuses and rows.
DayStatus(status) ==
    LET attended == {s \in Sessions : status[s] \in {"PRESENT", "LATE"}}
    IN  IF "PENDING" \in Range(status) THEN "PENDING"
        ELSE IF attended = {} THEN "ABSENT"
        ELSE IF attended # Sessions THEN "HALF_DAY"
        ELSE IF "LATE" \in Range(status) THEN "LATE" ELSE "PRESENT"

DayRecord(d, status, late, under, absent) ==
    [day |-> d, status |-> DayStatus(status), event |-> FALSE, late |-> late,
     undertime |-> under, absent |-> absent, lost |-> late + under + absent, worked |-> 0]

JudgedRecord(e, d, status) ==
    DayRecord(d, status, Both(tables[e][d].late), Both(tables[e][d].under),
              Both([s \in Sessions |-> IF status[s] = "ABSENT" THEN SessionMinutes(s) ELSE 0]))

FulltimeRecord(e, d) ==
    IF EventRequirementMet(DayLogs(logs[e][d]), holiday[d].required) \/ HolidayOff(e, d)
    THEN Credited(d)
    ELSE JudgedRecord(e, d, [s \in Sessions |-> SessionStatus(e, d, s)])

ParttimeRecordOf(d, day, complete) ==
    [Credited(d) EXCEPT
        !.event = FALSE,
        !.status = IF complete THEN "PRESENT"
                   ELSE IF SessionIsOpen(Sched.pm_out, now - Moment(d, 0)) THEN "PENDING"
                   ELSE "INCOMPLETE",
        !.worked = IF complete THEN AtLeastZero((day["OUT"] - day["IN"]) \div 60) ELSE 0]

ParttimeRecord(e, d) ==
    LET day == DayLogs(logs[e][d])
    IN  ParttimeRecordOf(d, day, day["IN"] # NoTime /\ day["OUT"] # NoTime)

\* build_daily_attendance: the records of the employee's days in a range.
BuildDailyAttendance(e, a, b) ==
    {IF e \in Fulltime THEN FulltimeRecord(e, d) ELSE ParttimeRecord(e, d) :
        d \in {x \in Days : a <= x /\ x <= b /\ Included(e, x)}}

Total(records, field) == SumFunction([r \in records |-> r[field]])
Count(records, status) == Cardinality({r \in records : r.status = status})

----------------------------------------------------------------------------
(* Weeks and months.                                                       *)

WeekOf(d) == d - Weekday(d)

\* The week that starts on day w, of which these days have records.
WeekRow(w, worked, came) ==
    [week |-> w, worked |-> worked, days |-> came,
     status |-> IF worked >= WeeklyMinutes /\ came >= WeeklyMinDays THEN "MET"
                ELSE IF w + 6 >= Today THEN "IN_PROGRESS" ELSE "SHORT"]

Week(w, days) == WeekRow(w, Total(days, "worked"), Cardinality({r \in days : r.worked # 0}))

Weeks(e, a, b, records) ==
    {Week(w, {r \in records : WeekOf(r.day) = w}) :
        w \in {x \in {WeekOf(d) : d \in a..b} : x <= Today /\ x + 6 >= TrackingStart(e)}}

\* Seeded fault: only the days inside the range are counted.
WeeklyHoursInRangeOnly(e, a, b) == Weeks(e, a, b, BuildDailyAttendance(e, a, b))

\* weekly_hours: the weeks that overlap the range, each counted whole.
WeeklyHours(e, a, b) == Weeks(e, a, b, BuildDailyAttendance(e, WeekOf(a), WeekOf(b) + 6))

\* monthly_summary, of the records of a month's days.
Summary(records) ==
    [present |-> Count(records, "PRESENT"), late |-> Count(records, "LATE"),
     half_day |-> Count(records, "HALF_DAY"), absent |-> Count(records, "ABSENT"),
     incomplete |-> Count(records, "INCOMPLETE"), worked |-> Total(records, "worked"),
     late_minutes |-> Total(records, "late"),
     undertime_minutes |-> Total(records, "undertime"),
     absent_minutes |-> Total(records, "absent"),
     lost_minutes |-> Total(records, "late") + Total(records, "undertime")
                        + Total(records, "absent")]

\* _employee_performance: the counts behind the profile's rates, of thirty days.
Rates(s, finished) ==
    [attended |-> s.present + s.late + s.half_day,
     counted |-> s.present + s.late + s.half_day + s.absent,
     present |-> s.present, late |-> s.late, lost |-> s.lost_minutes,
     weeks_met |-> Cardinality({w \in finished : w.status = "MET"}),
     weeks_done |-> Cardinality(finished)]

Performance(e) ==
    Rates(Summary(BuildDailyAttendance(e, Today - 29, Today)),
          {w \in WeeklyHours(e, Today - 29, Today) : w.status # "IN_PROGRESS"})

----------------------------------------------------------------------------
(* Adding up the rows process_day left (views.py).                         *)

\* minutes_absent of a day's Absence rows.
AbsentMinutes(rows) ==
    Both([s \in Sessions |-> IF rows.absent[s] = NotAbsent THEN 0 ELSE SessionMinutes(s)])

RowDays(S, a, b) == S \X (Days \cap (a..b))

Sums(late, under, absent) ==
    [late |-> late, undertime |-> under, absent |-> absent, lost |-> late + under + absent]

SumOfRows(pairs) ==
    Sums(SumFunction([p \in pairs |-> Both(tables[p[1]][p[2]].late)]),
         SumFunction([p \in pairs |-> Both(tables[p[1]][p[2]].under)]),
         SumFunction([p \in pairs |-> AbsentMinutes(tables[p[1]][p[2]])]))

\* Seeded fault: the rows are grouped by date too, which leaves one day of each.
LostTimeByDate(S, a, b) == SumOfRows(RowDays(S, b, b))

\* The rows of an employee, or of a department's employees, dated in a range.
LostTime(S, a, b) == SumOfRows(RowDays(S, a, b))

\* The dashboard's cards of today.
Dashboard ==
    [present |-> Cardinality({e \in Employees :
                     \E r \in logs[e][Today] : r.type \in {"AM_IN", "PM_IN", "IN"}}),
     late |-> SumFunction([e \in Employees |->
                  Cardinality({s \in Sessions : tables[e][Today].late[s] > 0})]),
     absent |-> SumFunction([e \in Employees |->
                  Cardinality({s \in Sessions : tables[e][Today].absent[s] # NotAbsent})])]

----------------------------------------------------------------------------
(* The reports (generators.py).                                            *)

MAX_RANGE_DAYS == 366
Failed == [error |-> TRUE]

\* _attendance: the pages' records of one employee, with totals.
ReportOf(e, records, weeks) ==
    [error |-> FALSE, days |-> Cardinality(records), totals |-> Summary(records),
     holidays_off |-> Cardinality({r \in records : e \in Fulltime /\ HolidayOff(e, r.day)}),
     pending |-> Count(records, "PENDING"),
     weeks_met |-> Cardinality({w \in weeks : w.status = "MET"}),
     weeks_short |-> Cardinality({w \in weeks : w.status = "SHORT"})]

AttendanceReport(e, a, b) ==
    IF e \notin Employees \/ a > b \/ b - a + 1 > MAX_RANGE_DAYS THEN Failed
    ELSE ReportOf(e, BuildDailyAttendance(e, a, b),
                  IF e \in Fulltime THEN {} ELSE WeeklyHours(e, a, b))

\* _tardiness: one line for each Lates row.
TardinessReport(S, a, b) ==
    LET lines == {p \in RowDays(S, a, b) \X Sessions : tables[p[1][1]][p[1][2]].late[p[2]] > 0}
    IN  [lines |-> Cardinality(lines),
         minutes |-> SumFunction([p \in lines |-> tables[p[1][1]][p[1][2]].late[p[2]]])]

\* _absence: one line for each Absence row.
AbsenceReport(S, a, b) ==
    LET lines == {p \in RowDays(S, a, b) \X Sessions :
                    tables[p[1][1]][p[1][2]].absent[p[2]] # NotAbsent}
    IN  [lines |-> Cardinality(lines),
         minutes |-> SumFunction([p \in lines |-> SessionMinutes(p[2])])]

----------------------------------------------------------------------------
(* Properties.                                                             *)

\* Over a range of days, the lost time inferred from the punches is that of
\* process_day's rows, on the tardiness and absence pages and in their reports.
Agree(totals, rows, tardiness, absence) ==
    /\ totals.late_minutes = rows.late /\ rows.late = tardiness.minutes
    /\ totals.undertime_minutes = rows.undertime
    /\ totals.absent_minutes = rows.absent /\ rows.absent = absence.minutes
    /\ totals.lost_minutes = rows.lost

PagesAgreeOver(e, a, b) ==
    Agree(AttendanceReport(e, a, b).totals, LostTime({e}, a, b),
          TardinessReport({e}, a, b), AbsenceReport({e}, a, b))

\* Once the daily pass is through, the two readings of the ledger agree over
\* every tracked range in which nobody punched on a day off.
PagesAgree ==
    settled =>
        \A e \in Fulltime, a, b \in Days :
            /\ TrackingStart(e) <= a /\ a <= b /\ b <= Today /\ b - a < MAX_RANGE_DAYS
            /\ \A d \in a..b : WorksOn(d) \/ logs[e][d] = {}
            => PagesAgreeOver(e, a, b)
                /\ (b = Today /\ (\A d \in 0..(a - 1) : ~Included(e, d))
                      => Performance(e).lost = LostTime({e}, Today - 29, Today).lost)

\* After the pass the dashboard's cards count the sessions the Attendance page
\* shows late and absent today.
CardsAgree ==
    settled /\ WorksOn(Today) /\ ~holiday[Today].on =>
        LET Shown(status) == Cardinality({p \in Fulltime \X Sessions :
                                           SessionStatus(p[1], Today, p[2]) = status})
        IN  Dashboard.late = Shown("LATE") /\ Dashboard.absent = Shown("ABSENT")

\* "The day counts (present + late + half + absent = workdays)": every finished
\* workday a full-timer was tracked on is counted once, holidays included.
DaysCounted(totals) == totals.present + totals.late + totals.half_day + totals.absent

EveryWorkdayCounts ==
    \A e \in Fulltime, a, b \in Days :
        TrackingStart(e) <= a /\ a <= b /\ b < Today /\ b - a < MAX_RANGE_DAYS =>
          DaysCounted(AttendanceReport(e, a, b).totals)
            = Cardinality({d \in a..b : WorksOn(d) \/ logs[e][d] # {}})

\* A part-timer's week reads the same whatever range it is looked at in.
WeekSameInAnyRange ==
    \A e \in Parttime, a, b \in Days :
        a <= b => WeeklyHours(e, a, b) \subseteq WeeklyHours(e, 0, LastDay)

\* A week once met stays met: neither further punches, whoever makes them, nor
\* the passing of time take hours or days away or drop the week.
WeekMetStays ==
    [][\A e \in Parttime :
            LET MetWeeks == {w.week : w \in {x \in WeeklyHours(e, 0, LastDay) : x.status = "MET"}}
            IN  MetWeeks \subseteq MetWeeks']_vars

\* What a day's rows say was attended, and how the rules read the same punches.
Attended(rows) == {s \in Sessions : SessionComplete(DayLogs(rows), s)}
ByRules(e, rows) == ClassifyDay({r.at : r \in rows}, e \in Fulltime, Sched, NoTime)

\* A punch read late may change what the others mean, even which session they
\* attend, but where no stale row counts it never leaves the employee with fewer
\* sessions attended, nor a part-timer's complete day incomplete.
NoFewerSessions ==
    [][\A e \in Employees, d \in Days :
         logs'[e][d] # logs[e][d] =>
           /\ Attended(logs[e][d]) \subseteq Attended(ByRules(e, logs[e][d]))
                => Cardinality(Attended(logs[e][d])) <= Cardinality(Attended(logs'[e][d]))
           /\ e \in Parttime /\ DayLogs(logs[e][d])["OUT"] # NoTime
                => DayLogs(logs'[e][d])["OUT"] # NoTime]_vars
=============================================================================
