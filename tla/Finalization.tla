----------------------------- MODULE Finalization -----------------------------
(***************************************************************************)
(* Judging the days: which employee-days have Absence rows, over several   *)
(* days, as sync_attendance_task catches up with the days the stack was    *)
(* down for, runs today's pass and settles recent holidays again, while    *)
(* punches arrive, holidays are edited or imported and employees are       *)
(* (de)activated.  A task is split where it commits: one step per          *)
(* employee-day and one per save of the cursor; several tasks may run at   *)
(* once, and any may die between two steps.  An employee-day is either     *)
(* worked (punched as a whole) or not: PunchRules has what lies between.   *)
(***************************************************************************)
EXTENDS Integers, FiniteSets

CONSTANTS
    LastDay,             \* bound: the last day modelled; days are numbered from 0
    Workdays,            \* the schedule's workdays
    HolidayDays,         \* days an administrator may declare a holiday
    Employees,           \* employee numbers
    Floor,               \* employee_floor: the day an employee was added or hired
    ConfiguredStart,     \* ATTENDANCE_START_DATE, or NoDay
    HOLIDAY_REEVAL_DAYS,
    Workers,             \* Celery workers beat's sync tasks run on
    Portals,             \* web processes "Sync now" runs one in
    MayCome,             \* bound: the employee-days somebody may punch on
    Edits,               \* bound: requests made by administrators
    Faults               \* bound: tasks that die, catch-ups that fail and corrections
                         \* that set the trusted clock back

Days == 0..LastDay
NoDay == -1

ASSUME CalendarAssumption ==
    /\ LastDay \in Nat /\ Workdays \subseteq Days /\ HolidayDays \subseteq Days
    /\ Employees \subseteq Nat /\ Floor \in [Employees -> Nat]
    /\ ConfiguredStart \in Days \cup {NoDay}
    /\ {HOLIDAY_REEVAL_DAYS, Edits, Faults} \subseteq Nat
    /\ MayCome \subseteq Employees \X Days

VARIABLES
    now,      \* the trusted clock: twice the day, plus one once its sessions are over
    came,     \* the employee-days with punches in the log
    holidays, \* days with a Holiday row
    staff,    \* each employee's is_active, and whether it was ever off
    cursor,   \* ProcessingCursor.last_finalized_date
    absent,   \* the employee-days with Absence rows
    task,     \* each worker's sync task
    edits,    \* administrators' requests so far
    faults,   \* faults so far
    \* History, read by no action:
    reopened  \* days whose sessions a correction opened again after the cursor, or
              \* a task catching up, had passed them

vars == <<now, came, holidays, staff, cursor, absent, task, edits, faults, reopened>>

Runners == Workers \cup Portals
Today == now \div 2
EmployeeDays == Employees \X Days
Active == {e \in Employees : staff[e] # "inactive"}
Steady == {e \in Employees : staff[e] = "active"}

\* Catch-up of one day (todo: who is left), today's pass, and the holidays.
Idle == [phase |-> "idle", day |-> NoDay, until |-> NoDay, people |-> {}, todo |-> {}]
Tasks == [phase: {"idle", "catchup", "daily", "resettle"}, day: Days \cup {NoDay},
          until: Days \cup {NoDay}, people: SUBSET Employees, todo: SUBSET EmployeeDays]

TypeOK ==
    /\ now \in 0..(2 * LastDay + 1)
    /\ came \subseteq EmployeeDays
    /\ holidays \subseteq HolidayDays
    /\ staff \in [Employees -> {"active", "inactive", "returned"}]
    /\ cursor \in Days \cup {NoDay}
    /\ absent \subseteq EmployeeDays
    /\ task \in [Runners -> Tasks]
    /\ edits \in 0..Edits
    /\ faults \in 0..Faults
    /\ reopened \subseteq Days

Init ==
    /\ now = 0 /\ came = {} /\ holidays \in SUBSET HolidayDays
    /\ staff = [e \in Employees |-> "active"]
    /\ cursor = NoDay /\ absent = {}
    /\ task = [w \in Runners |-> Idle]
    /\ edits = 0 /\ faults = 0 /\ reopened = {}

----------------------------------------------------------------------------
(* process_day, as far as absences go.                                     *)

First(S) == CHOOSE d \in S : \A x \in S : d <= x
Last(S) == CHOOSE d \in S : \A x \in S : x <= d

\* The sessions of the day can no longer be completed.
IsOver(d) == 2 * d < now

\* holiday_requires_attendance: absent on the nearest workday before or after.
\* The next workday counts from the day it is reached.  (Days before the first
\* modelled one count as worked, days after the last have not happened.)
HolidayRequires(e, d, worked) ==
    LET before == {x \in Workdays : x < d}
        after == {x \in Workdays : x > d}
    IN  \/ before # {} /\ <<e, Last(before)>> \notin worked
        \/ after # {} /\ First(after) <= Today /\ <<e, First(after)>> \notin worked

\* process_day leaves Absence rows.
MustBeAbsent(e, d, worked, hols) ==
    /\ d \in Workdays
    /\ <<e, d>> \notin worked
    /\ IsOver(d)
    /\ d \in hols => HolidayRequires(e, d, worked)

\* Seeded fault: the day is not cleared first.
ProcessWithoutClearing(pairs, worked, hols) ==
    absent' = absent \cup {p \in pairs : MustBeAbsent(p[1], p[2], worked, hols)}

\* process_day for each of these employee-days.
Process(pairs, worked, hols) ==
    absent' = (absent \ pairs) \cup {p \in pairs : MustBeAbsent(p[1], p[2], worked, hols)}

\* An administrator's request.
Edit == edits < Edits /\ edits' = edits + 1

----------------------------------------------------------------------------
(* The world.                                                              *)

Tick ==
    /\ now < 2 * LastDay + 1
    /\ now' = now + 1
    /\ UNCHANGED <<came, holidays, staff, cursor, absent, task, edits, faults, reopened>>

\* The cursor is past the day, or a task catches up over it.
Passed(d) ==
    \/ d <= cursor
    \/ \E w \in Runners : task[w].phase = "catchup" /\ d <= task[w].until

\* refresh_offset found the server's clock ahead: the trusted time goes back, as
\* far as it was wrong.
StepBack ==
    /\ faults < Faults
    /\ \E t \in 0..(now - 1) :
          /\ now' = t
          /\ reopened' = reopened \cup {d \in Days : t <= 2 * d /\ IsOver(d) /\ Passed(d)}
    /\ faults' = faults + 1
    /\ UNCHANGED <<came, holidays, staff, cursor, absent, task, edits>>

\* Punches are ingested: today's, or yesterday's read late from the unit.
Ingest(e, d) ==
    /\ e \in Active /\ <<e, d>> \in MayCome \ came
    /\ d = Today \/ d = Today - 1
    /\ came' = came \cup {<<e, d>>}
    /\ Process({<<e, d>>}, came', holidays)
    /\ UNCHANGED <<now, holidays, staff, cursor, task, edits, faults, reopened>>

\* holiday_form and holiday_delete: save, then process the date, unless it is
\* still to come, for every active employee.
SaveHoliday(hols) ==
    LET changed == {d \in HolidayDays : (d \in hols) # (d \in holidays) /\ d <= Today}
    IN  /\ Edit
        /\ holidays' = hols
        /\ Process(Active \X changed, came, hols)
        /\ UNCHANGED <<now, came, staff, cursor, task, faults, reopened>>

ToggleHoliday(d) ==
    SaveHoliday(IF d \in holidays THEN holidays \ {d} ELSE holidays \cup {d})

\* holiday_import: dates not yet there are created and nothing is processed.
ImportHolidays ==
    /\ Edit
    /\ holidays # HolidayDays
    /\ holidays' = HolidayDays
    /\ UNCHANGED <<now, came, staff, cursor, absent, task, faults, reopened>>

SetActive(e) ==
    /\ Edit
    /\ staff' = [staff EXCEPT ![e] = IF @ = "inactive" THEN "returned" ELSE "inactive"]
    /\ UNCHANGED <<now, came, holidays, cursor, absent, task, faults, reopened>>

\* system_start: the configured day, else the first punch's, else today.
SystemStart ==
    IF ConfiguredStart # NoDay THEN ConfiguredStart
    ELSE IF came # {} THEN First({p[2] : p \in came}) ELSE Today

\* backfill_attendance without options.
Backfill ==
    /\ Edit
    /\ Process({p \in Active \X Days : p[2] >= SystemStart /\ p[2] >= Floor[p[1]] /\ p[2] < Today},
               came, holidays)
    /\ UNCHANGED <<now, came, holidays, staff, cursor, task, faults, reopened>>

----------------------------------------------------------------------------
(* sync_attendance_task.                                                   *)

\* The worker goes on with t; a task with no holiday left to settle is done.
Move(w, t) ==
    task' = [task EXCEPT ![w] = IF t.phase = "resettle" /\ t.todo = {} THEN Idle ELSE t]

\* process_daily_attendance_task begins: it lists the active employees.
Daily ==
    [phase |-> "daily", day |-> Today, until |-> NoDay, people |-> Active,
     todo |-> Active \X {Today}]

\* catch_up_finalized_days begins this day, for the employees added by then.
CatchUp(day, until) ==
    [phase |-> "catchup", day |-> day, until |-> until, people |-> Active,
     todo |-> {p \in Active \X {day} : day >= Floor[p[1]]}]

\* catch_up_finalized_days reads the clock, the cursor and the employees once.
BeginSync(w) ==
    LET yesterday == Today - 1
        day == IF cursor # NoDay THEN cursor + 1 ELSE SystemStart
    IN  /\ task[w] = Idle
        /\ Move(w, IF day > yesterday THEN Daily ELSE CatchUp(day, yesterday))
        /\ UNCHANGED <<now, came, holidays, staff, cursor, absent, faults, reopened>>

BeatSync(w) == BeginSync(w) /\ UNCHANGED edits

\* device_sync: the task runs in the request of an administrator.
SyncNow(w) == BeginSync(w) /\ Edit

\* The next employee-day: by date, then by employee number.
NextOf(pairs) ==
    CHOOSE p \in pairs : \A q \in pairs : p[2] < q[2] \/ (p[2] = q[2] /\ p[1] <= q[1])

\* process_day for the next employee-day of the task; yesterday, today and the
\* holidays settled again are left alone when they are a day off.
JudgeNext(w) ==
    LET t == task[w]
        p == NextOf(t.todo)
        checksDayOff == t.phase # "catchup" \/ t.day = t.until
    IN  /\ t.todo # {}
        /\ Process(IF checksDayOff /\ p[2] \notin Workdays THEN {} ELSE {p}, came, holidays)
        /\ Move(w, [t EXCEPT !.todo = @ \ {p}])
        /\ UNCHANGED <<now, came, holidays, staff, cursor, edits, faults, reopened>>

\* Seeded fault: the cursor is advanced when a day begins, not when it is done.
SaveCursorAhead(w) ==
    LET t == task[w]
        next == t.day + 1
    IN  /\ t.phase = "catchup" /\ t.todo = {}
        /\ cursor' = IF next <= t.until THEN next ELSE t.day
        /\ Move(w, IF next > t.until THEN Daily
                   ELSE [t EXCEPT !.day = next,
                                  !.todo = {p \in t.people \X {next} : next >= Floor[p[1]]}])
        /\ UNCHANGED <<now, came, holidays, staff, absent, edits, faults, reopened>>

\* Seeded fault: catching up does not stop at yesterday.
SaveCursorNeverStops(w) ==
    LET t == task[w]
        next == t.day + 1
    IN  /\ t.phase = "catchup" /\ t.todo = {}
        /\ cursor' = t.day
        /\ Move(w, [t EXCEPT !.day = next,
                             !.todo = {p \in t.people \X {next} : next >= Floor[p[1]]}])
        /\ UNCHANGED <<now, came, holidays, staff, absent, edits, faults, reopened>>

\* The day is done: the cursor is saved and the next day begins, or today's pass.
SaveCursor(w) ==
    LET t == task[w]
        next == t.day + 1
    IN  /\ t.phase = "catchup" /\ t.todo = {}
        /\ cursor' = t.day
        /\ Move(w, IF next > t.until THEN Daily
                   ELSE [t EXCEPT !.day = next,
                                  !.todo = {p \in t.people \X {next} : next >= Floor[p[1]]}])
        /\ UNCHANGED <<now, came, holidays, staff, absent, edits, faults, reopened>>

\* An exception of the catch-up is logged; today's pass still runs.
CatchUpFails(w) ==
    /\ task[w].phase = "catchup" /\ faults < Faults
    /\ faults' = faults + 1
    /\ Move(w, Daily)
    /\ UNCHANGED <<now, came, holidays, staff, cursor, absent, edits, reopened>>

\* The day's pass is through: the holidays of the days before it are listed.
BeginResettle(w) ==
    LET t == task[w]
        recent == {d \in holidays : d < t.day /\ d >= t.day - HOLIDAY_REEVAL_DAYS}
    IN  /\ t.phase = "daily" /\ t.todo = {}
        /\ Move(w, [t EXCEPT !.phase = "resettle", !.todo = t.people \X recent])
        /\ UNCHANGED <<now, came, holidays, staff, cursor, absent, edits, faults, reopened>>

Crash(w) ==
    /\ task[w] # Idle /\ faults < Faults
    /\ faults' = faults + 1
    /\ Move(w, Idle)
    /\ UNCHANGED <<now, came, holidays, staff, cursor, absent, edits, reopened>>

Step(w) == JudgeNext(w) \/ SaveCursor(w) \/ BeginResettle(w)

Next ==
    \/ Tick
    \/ StepBack
    \/ \E p \in EmployeeDays : Ingest(p[1], p[2])
    \/ \E d \in HolidayDays : ToggleHoliday(d)
    \/ ImportHolidays
    \/ \E e \in Employees : SetActive(e)
    \/ Backfill
    \/ \E w \in Workers : BeatSync(w)
    \/ \E w \in Portals : SyncNow(w)
    \/ \E w \in Runners : Step(w) \/ CatchUpFails(w) \/ Crash(w)

Spec == Init /\ [][Next]_vars

\* Time passes, beat keeps starting the sync task and workers go on with it.
Fairness ==
    /\ WF_vars(Tick)
    /\ \A w \in Workers : WF_vars(BeatSync(w))
    /\ \A w \in Runners : WF_vars(Step(w))

FairSpec == Spec /\ Fairness

----------------------------------------------------------------------------
(* Properties.                                                             *)

\* Whatever dies, fails, overlaps or is overtaken by the clock, the cursor
\* passes no day whose absences were not recorded: every ordinary workday up to
\* it that an employee did not come to has its Absence rows.  Days a correction
\* of the clock opened again are another matter (FinalizedMeansRecorded); and
\* with no start configured this needs a clock that is not set back: tracking
\* then starts at the first punch, which may turn out to be on a day already
\* passed.
NoDaySkipped ==
    \A e \in Steady, d \in (Workdays \ holidays) \ reopened :
        d <= cursor /\ d >= SystemStart /\ d >= Floor[e] /\ <<e, d>> \notin came
            => <<e, d>> \in absent

\* In the end the Absence rows are those the rules give to what is stored now:
\* on ordinary days however long the stack was down, on holidays within the
\* days the daily pass settles again, and on a day a correction opened again
\* if it is such a holiday, or today.
EventuallyRight ==
    <>[](\A e \in Steady, d \in Workdays :
            d >= SystemStart /\ d >= Floor[e]
            /\ (d \in holidays => d < Today /\ d >= Today - HOLIDAY_REEVAL_DAYS)
            /\ (d \in reopened => d \in holidays \/ d = Today)
              => (<<e, d>> \in absent) = MustBeAbsent(e, d, came, holidays))

\* ProcessingCursor's own words: the cursor is a day whose absences "were
\* computed" - so, with no task under way, every past day up to it has its rows.
\* The code breaks them when the clock is corrected back: catch-up then judges a
\* day whose sessions are open again and saves the cursor past it, and the daily
\* pass takes a day already judged for today and clears its rows; catch-up
\* returns to neither.
FinalizedMeansRecorded ==
    (\A w \in Runners : task[w] = Idle) =>
        \A e \in Steady, d \in Workdays \ holidays :
            d < Today /\ d <= cursor /\ d >= SystemStart /\ d >= Floor[e] /\ <<e, d>> \notin came
                => <<e, d>> \in absent
=============================================================================
