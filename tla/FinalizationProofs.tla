-------------------------- MODULE FinalizationProofs --------------------------
(***************************************************************************)
(* Proofs about Finalization, for every calendar and any number of         *)
(* employees, tasks and faults: type correctness, and that the cursor      *)
(* never passes a day whose absences were not recorded.                    *)
(***************************************************************************)
EXTENDS Finalization, WellFoundedInduction, TLAPS

\* A non-empty set of naturals has a least element.
LEMMA LeastNatural ==
    ASSUME NEW S, S \subseteq Nat, S # {}
    PROVE  \E m \in S : \A n \in S : m <= n
<1>1. PICK m \in S : \A n \in S : <<n, m>> \notin OpToRel(<, Nat)
  BY NatLessThanWellFounded, WFMin
<1>2. \A n \in S : ~(n < m)
  BY <1>1 DEF OpToRel
<1> QED BY <1>2

LEMMA FirstIsLeast ==
    ASSUME NEW S, S \subseteq Nat, S # {}
    PROVE  First(S) \in S /\ \A d \in S : First(S) <= d
BY LeastNatural DEF First

\* The next employee-day is one of those to be judged: the earliest day has a
\* first employee.
LEMMA NextOfIsOne ==
    ASSUME NEW pairs, pairs \subseteq Nat \X Nat, pairs # {}
    PROVE  NextOf(pairs) \in pairs
<1>1. PICK d \in {p[2] : p \in pairs} : \A x \in {p[2] : p \in pairs} : d <= x
  <2> DEFINE S == {p[2] : p \in pairs}
  <2>1. S \subseteq Nat /\ S # {}
    OBVIOUS
  <2> HIDE DEF S
  <2>2. \E d \in S : \A x \in S : d <= x
    BY <2>1, LeastNatural
  <2> QED BY <2>2 DEF S
<1>2. PICK e \in {p[1] : p \in {q \in pairs : q[2] = d}} :
         \A x \in {p[1] : p \in {q \in pairs : q[2] = d}} : e <= x
  <2> DEFINE S == {p[1] : p \in {q \in pairs : q[2] = d}}
  <2>1. S \subseteq Nat /\ S # {}
    OBVIOUS
  <2> HIDE DEF S
  <2>2. \E e \in S : \A x \in S : e <= x
    BY <2>1, LeastNatural
  <2> QED BY <2>2 DEF S
<1>3. PICK p \in pairs : p[2] = d /\ p[1] = e
  BY <1>2
<1>4. \A q \in pairs : d <= q[2] /\ (q[2] = d => e <= q[1])
  BY <1>1, <1>2
<1>5. \A q \in pairs : q[1] \in Nat /\ q[2] \in Nat
  OBVIOUS
<1>6. \A q \in pairs : p[2] < q[2] \/ (p[2] = q[2] /\ p[1] <= q[1])
  BY <1>3, <1>4, <1>5
<1> QED BY <1>6 DEF NextOf

----------------------------------------------------------------------------
(* Type correctness.                                                       *)

LEMMA Calendar ==
    /\ Days \subseteq Nat /\ Workdays \subseteq Days /\ HolidayDays \subseteq Days
    /\ EmployeeDays \subseteq Nat \X Nat /\ NoDay \notin Nat /\ LastDay \in Nat
<1>1. Days \subseteq Nat /\ LastDay \in Nat /\ Employees \subseteq Nat
  BY CalendarAssumption DEF Days
<1>2. NoDay \notin Nat
  BY DEF NoDay
<1> QED BY <1>1, <1>2, CalendarAssumption DEF EmployeeDays

LEMMA TodayType ==
    ASSUME TypeOK
    PROVE  Today \in Days /\ 2 * Today <= now /\ now <= 2 * Today + 1 /\ now \in Nat
BY CalendarAssumption DEF TypeOK, Today, Days

LEMMA TaskFields ==
    ASSUME NEW t \in Tasks
    PROVE  /\ t.day \in Days \cup {NoDay} /\ t.until \in Days \cup {NoDay}
           /\ t.people \subseteq Employees /\ t.todo \subseteq EmployeeDays
           /\ t = [phase |-> t.phase, day |-> t.day, until |-> t.until,
                   people |-> t.people, todo |-> t.todo]
BY DEF Tasks

LEMMA IdleType == Idle \in Tasks
BY DEF Idle, Tasks

LEMMA MoveType ==
    ASSUME TypeOK, NEW w \in Runners, NEW t \in Tasks, Move(w, t)
    PROVE  task' \in [Runners -> Tasks]
BY IdleType DEF TypeOK, Move

LEMMA ProcessType ==
    ASSUME TypeOK, NEW pairs, pairs \subseteq EmployeeDays, NEW worked, NEW hols,
           Process(pairs, worked, hols)
    PROVE  absent' \subseteq EmployeeDays
BY DEF TypeOK, Process

LEMMA ActiveType == Active \subseteq Employees /\ Steady \subseteq Active
BY DEF Active, Steady

LEMMA DailyType == TypeOK => Daily \in Tasks
<1> SUFFICES ASSUME TypeOK PROVE Daily \in Tasks
  OBVIOUS
<1>1. Today \in Days
  BY TodayType
<1>2. Active \X {Today} \subseteq EmployeeDays
  BY <1>1, ActiveType DEF EmployeeDays
<1> QED BY <1>1, <1>2, ActiveType DEF Daily, Tasks

LEMMA SystemStartType == TypeOK => SystemStart \in Days
<1> SUFFICES ASSUME TypeOK PROVE SystemStart \in Days
  OBVIOUS
<1>1. CASE ConfiguredStart = NoDay /\ came # {}
  <2> DEFINE S == {p[2] : p \in came}
  <2>1. S \subseteq Days /\ S # {}
    BY <1>1 DEF TypeOK, EmployeeDays
  <2> HIDE DEF S
  <2>2. First(S) \in Days
    BY <2>1, FirstIsLeast, Calendar
  <2> QED BY <1>1, <2>2 DEF SystemStart, S
<1>2. CASE ConfiguredStart # NoDay
  BY <1>2, CalendarAssumption DEF SystemStart
<1>3. CASE ConfiguredStart = NoDay /\ came = {}
  BY <1>3, TodayType DEF SystemStart
<1> QED BY <1>1, <1>2, <1>3

\* The two ways a sync task begins.
LEMMA BeginCases ==
    ASSUME TypeOK, NEW w \in Runners, BeginSync(w)
    PROVE  \/ Move(w, Daily)
           \/ \E day \in Days :
                 /\ day <= Today - 1 /\ Today - 1 \in Days
                 /\ day = IF cursor # NoDay THEN cursor + 1 ELSE SystemStart
                 /\ CatchUp(day, Today - 1) \in Tasks
                 /\ Move(w, CatchUp(day, Today - 1))
<1> DEFINE day == IF cursor # NoDay THEN cursor + 1 ELSE SystemStart
           t == CatchUp(day, Today - 1)
<1>1. day \in Nat
  <2>1. SystemStart \in Nat
    BY SystemStartType, Calendar
  <2>2. cursor # NoDay => cursor \in Nat
    BY Calendar DEF TypeOK
  <2> QED BY <2>1, <2>2
<1>2. CASE day > Today - 1
  BY <1>2 DEF BeginSync
<1>3. CASE ~(day > Today - 1)
  <2>1. day \in Days /\ Today - 1 \in Days /\ day <= Today - 1
    <3> HIDE DEF day
    <3>1. Today \in Int /\ 0 <= Today /\ Today <= LastDay /\ LastDay \in Int
      BY TodayType, CalendarAssumption DEF Days
    <3>2. day <= Today - 1
      BY <1>1, <1>3, <3>1
    <3> QED BY <1>1, <3>1, <3>2 DEF Days
  <2>2. Active \X {day} \subseteq EmployeeDays
    BY <2>1, ActiveType DEF EmployeeDays
  <2>3. t \in Tasks
    BY <2>1, <2>2, ActiveType DEF CatchUp, Tasks
  <2>4. Move(w, t)
    BY <1>3 DEF BeginSync
  <2> QED BY <2>1, <2>3, <2>4
<1> QED BY <1>2, <1>3

LEMMA JudgeNextType ==
    ASSUME TypeOK, NEW w \in Runners, JudgeNext(w)
    PROVE  TypeOK'
<1> DEFINE t == task[w]
           p == NextOf(t.todo)
           next == [t EXCEPT !.todo = @ \ {p}]
<1>1. t \in Tasks /\ t.todo \subseteq EmployeeDays /\ t.todo # {}
  BY TaskFields DEF TypeOK, JudgeNext
<1>2. p \in EmployeeDays
  BY <1>1, NextOfIsOne, Calendar
<1>3. next \in Tasks
  BY <1>1 DEF Tasks
<1>4. absent' \subseteq EmployeeDays
  BY <1>2, ProcessType DEF JudgeNext
<1>5. task' \in [Runners -> Tasks]
  BY <1>3, MoveType DEF JudgeNext
<1> QED BY <1>4, <1>5 DEF JudgeNext, TypeOK

\* What SaveCursor makes of a task that has more days to do.
NextDay(t) ==
    [t EXCEPT !.day = t.day + 1,
              !.todo = {p \in t.people \X {t.day + 1} : t.day + 1 >= Floor[p[1]]}]

LEMMA SaveCursorCases ==
    ASSUME TypeOK, NEW w \in Runners, SaveCursor(w)
    PROVE  \/ Move(w, Daily)
           \/ /\ task[w].day + 1 <= task[w].until
              /\ NextDay(task[w]) \in Tasks /\ Move(w, NextDay(task[w]))
<1> DEFINE t == task[w]
<1>1. t \in Tasks
  BY DEF TypeOK
<1>2. CASE t.day + 1 > t.until
  BY <1>2 DEF SaveCursor
<1>3. CASE ~(t.day + 1 > t.until)
  <2>1. t.day + 1 \in Days /\ t.day + 1 <= t.until
    BY <1>1, <1>3, TaskFields, CalendarAssumption DEF Days, NoDay
  <2>2. t.people \X {t.day + 1} \subseteq EmployeeDays
    BY <1>1, <2>1, TaskFields DEF EmployeeDays
  <2>3. NextDay(t) \in Tasks
    BY <1>1, <2>1, <2>2 DEF NextDay, Tasks
  <2>4. Move(w, NextDay(t))
    BY <1>3 DEF SaveCursor, NextDay
  <2> QED BY <2>1, <2>3, <2>4
<1> QED BY <1>2, <1>3
LEMMA InitType == Init => TypeOK
<1> SUFFICES ASSUME Init PROVE TypeOK
  OBVIOUS
<1>1. task \in [Runners -> Tasks]
  BY IdleType DEF Init
<1>2. 0 \in 0..(2 * LastDay + 1) /\ 0 \in 0..Edits /\ 0 \in 0..Faults
  BY CalendarAssumption
<1> QED BY <1>1, <1>2 DEF Init, TypeOK

LEMMA EditType == ASSUME TypeOK, Edit PROVE edits' \in 0..Edits
BY CalendarAssumption DEF TypeOK, Edit

LEMMA NextType == TypeOK /\ [Next]_vars => TypeOK'
<1> SUFFICES ASSUME TypeOK, [Next]_vars PROVE TypeOK'
  OBVIOUS
<1>1. CASE UNCHANGED vars
  BY <1>1 DEF vars, TypeOK
<1>2. CASE Tick
  <2>1. now' \in 0..(2 * LastDay + 1)
    BY <1>2, CalendarAssumption DEF Tick, TypeOK
  <2> QED BY <1>2, <2>1 DEF Tick, TypeOK
<1>3. CASE StepBack
  BY <1>3, CalendarAssumption DEF StepBack, TypeOK
<1>4. ASSUME NEW e \in Employees, NEW d \in Days, Ingest(e, d) PROVE TypeOK'
  <2>1. {<<e, d>>} \subseteq EmployeeDays
    BY DEF EmployeeDays
  <2>2. came' \subseteq EmployeeDays
    BY <1>4, <2>1 DEF Ingest, TypeOK
  <2>3. absent' \subseteq EmployeeDays
    BY <1>4, <2>1, ProcessType DEF Ingest
  <2> QED BY <1>4, <2>2, <2>3 DEF Ingest, TypeOK
<1>5. ASSUME NEW hols \in SUBSET HolidayDays, SaveHoliday(hols) PROVE TypeOK'
  <2> DEFINE changed == {d \in HolidayDays : (d \in hols) # (d \in holidays) /\ d <= Today}
  <2>1. Active \X changed \subseteq EmployeeDays
    BY ActiveType, Calendar DEF EmployeeDays
  <2> HIDE DEF changed
  <2>2. Process(Active \X changed, came, hols)
    BY <1>5 DEF SaveHoliday, changed
  <2>3. absent' \subseteq EmployeeDays
    BY <2>1, <2>2, ProcessType
  <2> QED BY <1>5, <2>3, EditType DEF SaveHoliday, TypeOK
<1>6. ASSUME NEW d \in HolidayDays, ToggleHoliday(d) PROVE TypeOK'
  BY <1>5, <1>6 DEF ToggleHoliday, TypeOK
<1>7. CASE ImportHolidays
  BY <1>7, EditType DEF ImportHolidays, TypeOK
<1>8. ASSUME NEW e \in Employees, SetActive(e) PROVE TypeOK'
  BY <1>8, EditType DEF SetActive, TypeOK
<1>9. CASE Backfill
  <2> DEFINE past == {p \in Active \X Days :
                       p[2] >= SystemStart /\ p[2] >= Floor[p[1]] /\ p[2] < Today}
  <2>1. past \subseteq EmployeeDays
    BY ActiveType DEF EmployeeDays
  <2> HIDE DEF past
  <2>2. Process(past, came, holidays)
    BY <1>9 DEF Backfill, past
  <2>3. absent' \subseteq EmployeeDays
    BY <2>1, <2>2, ProcessType
  <2> QED BY <1>9, <2>3, EditType DEF Backfill, TypeOK
<1>10. ASSUME NEW w \in Runners, BeginSync(w), edits' \in 0..Edits PROVE TypeOK'
  <2>1. task' \in [Runners -> Tasks]
    BY <1>10, BeginCases, DailyType, MoveType
  <2> QED BY <1>10, <2>1 DEF BeginSync, TypeOK
<1>11. ASSUME NEW w \in Workers, BeatSync(w) PROVE TypeOK'
  BY <1>10, <1>11 DEF BeatSync, Runners, TypeOK
<1>12. ASSUME NEW w \in Portals, SyncNow(w) PROVE TypeOK'
  BY <1>10, <1>12, EditType DEF SyncNow, Runners
<1>13. ASSUME NEW w \in Runners, JudgeNext(w) PROVE TypeOK'
  BY <1>13, JudgeNextType
<1>14. ASSUME NEW w \in Runners, SaveCursor(w) PROVE TypeOK'
  <2>1. task' \in [Runners -> Tasks]
    BY <1>14, SaveCursorCases, DailyType, MoveType
  <2>2. cursor' \in Days \cup {NoDay}
    BY <1>14, TaskFields DEF SaveCursor, TypeOK
  <2> QED BY <1>14, <2>1, <2>2 DEF SaveCursor, TypeOK
<1>15. ASSUME NEW w \in Runners, CatchUpFails(w) PROVE TypeOK'
  <2>1. task' \in [Runners -> Tasks]
    BY <1>15, DailyType, MoveType DEF CatchUpFails
  <2> QED BY <1>15, <2>1, CalendarAssumption DEF CatchUpFails, TypeOK
<1>16. ASSUME NEW w \in Runners, BeginResettle(w) PROVE TypeOK'
  <2> DEFINE t == task[w]
             recent == {d \in holidays : d < t.day /\ d >= t.day - HOLIDAY_REEVAL_DAYS}
             next == [t EXCEPT !.phase = "resettle", !.todo = t.people \X recent]
  <2>1. t \in Tasks
    BY DEF TypeOK
  <2>2. recent \subseteq Days
    BY Calendar DEF TypeOK
  <2>3. Move(w, next)
    BY <1>16 DEF BeginResettle
  <2> HIDE DEF recent
  <2>4. t.people \X recent \subseteq EmployeeDays
    BY <2>1, <2>2, TaskFields DEF EmployeeDays
  <2>5. next \in Tasks
    BY <2>1, <2>4 DEF Tasks
  <2>6. task' \in [Runners -> Tasks]
    BY <2>3, <2>5, MoveType
  <2> QED BY <1>16, <2>6 DEF BeginResettle, TypeOK
<1>17. ASSUME NEW w \in Runners, Crash(w) PROVE TypeOK'
  <2>1. task' \in [Runners -> Tasks]
    BY <1>17, IdleType, MoveType DEF Crash
  <2> QED BY <1>17, <2>1, CalendarAssumption DEF Crash, TypeOK
<1>18. ASSUME NEW p \in EmployeeDays, Ingest(p[1], p[2]) PROVE TypeOK'
  BY <1>4, <1>18 DEF EmployeeDays
<1> QED
  BY <1>1, <1>2, <1>3, <1>6, <1>7, <1>8, <1>9, <1>11, <1>12, <1>13, <1>14, <1>15, <1>16, <1>17,
     <1>18 DEF Next, Step

\* Every reachable state is well typed, whatever calendar, overlapping tasks,
\* deaths, failures and corrections of the clock it goes through.
THEOREM TypeCorrect == Spec => []TypeOK
BY InitType, NextType, PTL DEF Spec

----------------------------------------------------------------------------
(* No day is skipped.                                                      *)

\* The day and those before it are over, but for those a correction opened again.
AllOver(d) == \A x \in Days : x <= d => x \in reopened \/ IsOver(x)

\* The employee-day has the Absence rows it must have.
Settled(e, d) ==
    /\ e \in Steady /\ d \in (Workdays \ holidays) \ reopened
    /\ d >= SystemStart /\ d >= Floor[e] /\ <<e, d>> \notin came
    => <<e, d>> \in absent

\* A task that is catching up has settled the days before the one it is at, and
\* of that day everybody it no longer has to do; it does it for all it must.
Caught(t) ==
    t.phase = "catchup" =>
        /\ t.day \in Days /\ t.until \in Days /\ t.day <= t.until /\ AllOver(t.until)
        /\ Steady \subseteq t.people
        /\ \A e \in Employees, d \in Days :
              d < t.day \/ (d = t.day /\ <<e, d>> \notin t.todo) => Settled(e, d)

\* Where days start stands, once a catch-up has begun there: a configured day,
\* or the day of a punch that is past.
Started ==
    cursor # NoDay \/ (\E w \in Runners : task[w].phase = "catchup")
        => ConfiguredStart # NoDay \/ \E p \in came : p[2] < Today

CursorInv ==
    /\ cursor # NoDay => AllOver(cursor)
    /\ \A e \in Employees, d \in Days : d <= cursor => Settled(e, d)
    /\ \A w \in Runners : Caught(task[w])
    /\ Started

\* Without a configured first day, the clock is not set back: a punch read then
\* could be of a day before the first one, which tracking would start from.
StartStands == ConfiguredStart # NoDay \/ now' >= now

LEMMA AllOverIsOver ==
    ASSUME TypeOK, NEW d \in Days, AllOver(d), d \notin reopened
    PROVE  IsOver(d) /\ d <= Today
<1>1. d \in Nat /\ now \in Nat /\ Today \in Nat /\ now <= 2 * Today + 1
  BY TodayType, Calendar
<1>2. IsOver(d)
  BY <1>1 DEF AllOver
<1> QED BY <1>1, <1>2 DEF IsOver

LEMMA AllOverBefore ==
    ASSUME NEW d \in Days, NEW x \in Days, d <= x, AllOver(x)
    PROVE  AllOver(d)
BY Calendar DEF AllOver

LEMMA PassedBefore ==
    ASSUME TypeOK, NEW d \in Days, Passed(d), NEW x \in Days, x <= d
    PROVE  Passed(x)
<1>1. d \in Int /\ x \in Int /\ cursor \in Int
  BY Calendar DEF TypeOK, NoDay
<1>2. ASSUME NEW w \in Runners, task[w].phase = "catchup", d <= task[w].until
      PROVE  task[w].phase = "catchup" /\ x <= task[w].until
  <2>1. task[w].until \in Int
    BY TaskFields, Calendar DEF TypeOK, NoDay
  <2> QED BY <1>1, <1>2, <2>1
<1> QED BY <1>1, <1>2 DEF Passed

\* What every step does to a day that is past.
Keeps ==
    /\ Steady' \subseteq Steady
    /\ \A d \in Days : Passed(d) /\ AllOver(d) => AllOver(d)'
    /\ reopened \subseteq reopened'
    /\ (cursor # NoDay \/ \E w \in Runners : task[w].phase = "catchup")
          => /\ SystemStart' = SystemStart
             /\ ConfiguredStart # NoDay \/ \E p \in came' : p[2] < Today'
    /\ \A e \in Employees, d \in Days :
          AllOver(d) /\ Settled(e, d) /\ SystemStart' = SystemStart => Settled(e, d)'

\* process_day leaves a past day settled, whoever runs it and for whomever.
LEMMA ProcessSettles ==
    ASSUME TypeOK, NEW pairs, NEW hols, Process(pairs, came', hols), holidays' = hols,
           now' = now, UNCHANGED <<reopened, staff>>, came \subseteq came',
           NEW e \in Employees, NEW d \in Days, AllOver(d), SystemStart' = SystemStart,
           Settled(e, d) \/ <<e, d>> \in pairs,
           e \in Steady /\ d \in (holidays \ hols) \ reopened => <<e, d>> \in pairs
    PROVE  Settled(e, d)'
<1> SUFFICES ASSUME e \in Steady', d \in Workdays \ holidays', d >= SystemStart',
                    d >= Floor[e], <<e, d>> \notin came', d \notin reopened'
             PROVE  <<e, d>> \in absent'
  BY DEF Settled
<1>1. e \in Steady /\ d \notin hols /\ <<e, d>> \notin came
  BY DEF Steady
<1>2. CASE <<e, d>> \in pairs
  <2>1. MustBeAbsent(e, d, came', hols)
    BY <1>1, AllOverIsOver DEF MustBeAbsent
  <2> QED BY <1>2, <2>1 DEF Process
<1>3. CASE <<e, d>> \notin pairs
  <2>1. <<e, d>> \in absent
    BY <1>1, <1>3 DEF Settled
  <2> QED BY <1>3, <2>1 DEF Process
<1> QED BY <1>2, <1>3

LEMMA FirstStands ==
    ASSUME NEW S, S \subseteq Nat, NEW d \in Nat, NEW x \in S, x <= d
    PROVE  First(S \cup {d}) = First(S)
<1> DEFINE T == S \cup {d}
<1>1. First(S) \in S /\ \A y \in S : First(S) <= y
  BY FirstIsLeast
<1>2. T \subseteq Nat /\ T # {}
  OBVIOUS
<1> HIDE DEF T
<1>3. First(T) \in T /\ \A y \in T : First(T) <= y
  BY <1>2, FirstIsLeast
<1>4. First(S) \in Nat /\ First(T) \in Nat
  BY <1>1, <1>2, <1>3
<1>5. First(S) <= d
  BY <1>1, <1>4
<1>6. First(S) <= First(T) /\ First(T) <= First(S)
  BY <1>1, <1>3, <1>5 DEF T
<1>7. First(T) = First(S)
  BY <1>4, <1>6
<1> QED BY <1>7 DEF T

Begun == cursor # NoDay \/ \E w \in Runners : task[w].phase = "catchup"

LEMMA TodayGrows ==
    ASSUME TypeOK, TypeOK', now' >= now
    PROVE  Today' >= Today
<1>1. 2 * Today <= now /\ now \in Nat /\ Today \in Nat
  BY TodayType, Calendar
<1>2. now' \in Nat
  BY CalendarAssumption DEF TypeOK
<1>3. Today' = now' \div 2
  BY DEF Today
<1>4. \A n \in Nat : n <= 2 * (n \div 2) + 1 /\ n \div 2 \in Nat
  OBVIOUS
<1>5. now' <= 2 * Today' + 1 /\ Today' \in Nat
  BY <1>2, <1>3, <1>4
<1>6. \A a, b, m, n \in Nat : 2 * a <= m /\ n >= m /\ n <= 2 * b + 1 => b >= a
  OBVIOUS
<1> QED BY <1>1, <1>2, <1>5, <1>6

LEMMA CameType ==
    ASSUME TypeOK, NEW p \in came
    PROVE  p[2] \in Nat
<1>1. p \in EmployeeDays
  BY DEF TypeOK
<1> QED BY <1>1, Calendar

\* Steps that write neither the log nor Absence rows, and remove no holiday.
LEMMA QuietKeeps ==
    ASSUME TypeOK, TypeOK', Started, StartStands, UNCHANGED <<came, absent>>,
           holidays \subseteq holidays', Steady' \subseteq Steady, reopened \subseteq reopened',
           \A d \in Days : Passed(d) /\ AllOver(d) => AllOver(d)'
    PROVE  Keeps
<1>1. ASSUME Begun
      PROVE  /\ SystemStart' = SystemStart
             /\ ConfiguredStart # NoDay \/ \E p \in came' : p[2] < Today'
  <2>1. CASE ConfiguredStart # NoDay
    BY <2>1 DEF SystemStart
  <2>2. CASE ConfiguredStart = NoDay
    <3>1. PICK p \in came : p[2] < Today
      BY <1>1, <2>2 DEF Started, Begun
    <3>2. SystemStart' = SystemStart
      BY <2>2, <3>1 DEF SystemStart
    <3>3. Today' >= Today
      BY <2>2, TodayGrows DEF StartStands
    <3>4. Today \in Int /\ Today' \in Int /\ p[2] \in Int
      BY TodayType, Calendar, CameType, CalendarAssumption DEF TypeOK, Today
    <3>5. p[2] < Today'
      BY <3>1, <3>3, <3>4
    <3> QED BY <3>2, <3>5
  <2> QED BY <2>1, <2>2
<1>2. ASSUME NEW e \in Employees, NEW d \in Days, Settled(e, d), SystemStart' = SystemStart
      PROVE  Settled(e, d)'
  BY <1>2 DEF Settled
<1> QED BY <1>1, <1>2 DEF Keeps, Begun

\* Steps that run process_day.
LEMMA ProcessKeeps ==
    ASSUME TypeOK, Started, NEW pairs, NEW hols, Process(pairs, came', hols),
           holidays' = hols, now' = now, UNCHANGED <<reopened, staff>>, came \subseteq came',
           \A e \in Steady, d \in (holidays \ hols) \ reopened : AllOver(d) => <<e, d>> \in pairs,
           Begun => SystemStart' = SystemStart
    PROVE  Keeps
<1>1. Steady' = Steady
  BY DEF Steady
<1>2. Today' = Today
  BY DEF Today
<1>3. \A d \in Days : AllOver(d) => AllOver(d)'
  BY DEF AllOver, IsOver
<1>4. Begun => ConfiguredStart # NoDay \/ \E p \in came' : p[2] < Today'
  BY <1>2 DEF Begun, Started
<1>5. ASSUME NEW e \in Employees, NEW d \in Days, AllOver(d), Settled(e, d),
             SystemStart' = SystemStart
      PROVE  Settled(e, d)'
  BY <1>5, ProcessSettles
<1> QED BY <1>1, <1>3, <1>4, <1>5 DEF Keeps, Begun

LEMMA NextKeeps ==
    ASSUME TypeOK, TypeOK', Started, StartStands, Next
    PROVE  Keeps
<1>1. UNCHANGED <<now, reopened>> => \A d \in Days : AllOver(d) => AllOver(d)'
  BY DEF AllOver, IsOver
<1>2. UNCHANGED came => (came # {} \/ ConfiguredStart # NoDay => SystemStart' = SystemStart)
  BY DEF SystemStart
<1>3. Begun => came # {} \/ ConfiguredStart # NoDay
  BY DEF Begun, Started
<1>4. UNCHANGED staff => Steady' = Steady
  BY DEF Steady
<1>5. CASE Tick
  <2>1. \A d \in Days : AllOver(d) => AllOver(d)'
    BY <1>5, Calendar DEF Tick, AllOver, IsOver, TypeOK
  <2> QED BY <1>4, <1>5, <2>1, QuietKeeps DEF Tick
<1>6. CASE StepBack
  <2>1. PICK t \in 0..(now - 1) :
           /\ now' = t
           /\ reopened' = reopened \cup {d \in Days : t <= 2 * d /\ IsOver(d) /\ Passed(d)}
    BY <1>6 DEF StepBack
  <2>2. ASSUME NEW d \in Days, Passed(d), AllOver(d), NEW x \in Days, x <= d
        PROVE  x \in reopened' \/ IsOver(x)'
    <3>1. Passed(x)
      BY <2>2, PassedBefore
    <3>2. x \in Nat /\ t \in Int
      BY <2>1, Calendar
    <3>3. x \in reopened \/ IsOver(x)
      BY <2>2 DEF AllOver
    <3> QED BY <2>1, <3>1, <3>2, <3>3 DEF IsOver
  <2>3. \A d \in Days : Passed(d) /\ AllOver(d) => AllOver(d)'
    BY <2>2 DEF AllOver
  <2> QED BY <1>4, <1>6, <2>1, <2>3, QuietKeeps DEF StepBack
<1>7. ASSUME NEW p \in EmployeeDays, Ingest(p[1], p[2]) PROVE Keeps
  <2> DEFINE pair == <<p[1], p[2]>>
             S == {q[2] : q \in came}
  <2>1. /\ Process({pair}, came', holidays) /\ came' = came \cup {pair}
        /\ p[2] = Today \/ p[2] = Today - 1
        /\ UNCHANGED <<now, reopened, holidays, staff>>
    BY <1>7 DEF Ingest
  <2>2. p[2] \in Nat
    BY Calendar DEF EmployeeDays
  <2>3. ASSUME Begun PROVE SystemStart' = SystemStart
    <3>1. CASE ConfiguredStart # NoDay
      BY <3>1 DEF SystemStart
    <3>2. CASE ConfiguredStart = NoDay
      <4>1. PICK q \in came : q[2] < Today
        BY <2>3, <3>2 DEF Started, Begun
      <4>2. S \subseteq Nat /\ q[2] \in S
        BY CameType
      <4>3. Today \in Nat /\ q[2] \in Nat
        BY TodayType, Calendar, CameType
      <4>7. q[2] <= p[2]
        BY <2>1, <2>2, <4>1, <4>3
      <4>4. {x[2] : x \in came'} = S \cup {p[2]}
        <5>1. pair[2] = p[2]
          OBVIOUS
        <5> HIDE DEF pair
        <5> QED BY <2>1, <5>1
      <4> HIDE DEF S
      <4>5. First(S \cup {p[2]}) = First(S)
        BY <2>2, <4>2, <4>7, FirstStands
      <4>6. came # {} /\ came' # {}
        BY <2>1, <4>1
      <4> QED BY <3>2, <4>4, <4>5, <4>6 DEF SystemStart, S
    <3> QED BY <3>1, <3>2
  <2> QED BY <2>1, <2>3, ProcessKeeps
<1>8. ASSUME NEW d \in HolidayDays, ToggleHoliday(d) PROVE Keeps
  <2> DEFINE hols == IF d \in holidays THEN holidays \ {d} ELSE holidays \cup {d}
             changed == {x \in HolidayDays : (x \in hols) # (x \in holidays) /\ x <= Today}
  <2>1. /\ Process(Active \X changed, came, hols) /\ holidays' = hols
        /\ UNCHANGED <<now, reopened, came, staff>>
    BY <1>8 DEF ToggleHoliday, SaveHoliday
  <2>2. holidays \subseteq HolidayDays
    BY DEF TypeOK
  <2>3. \A e \in Steady, x \in (holidays \ hols) \ reopened :
           AllOver(x) => <<e, x>> \in Active \X changed
    BY <2>2, AllOverIsOver, ActiveType, Calendar
  <2> HIDE DEF hols, changed
  <2> QED BY <1>2, <1>3, <2>1, <2>3, ProcessKeeps
<1>9. CASE ImportHolidays
  BY <1>1, <1>4, <1>9, QuietKeeps DEF ImportHolidays, TypeOK
<1>10. ASSUME NEW e \in Employees, SetActive(e) PROVE Keeps
  <2>1. Steady' \subseteq Steady
    BY <1>10 DEF SetActive, Steady, TypeOK
  <2> QED BY <1>1, <1>10, <2>1, QuietKeeps DEF SetActive
<1>11. CASE Backfill
  <2> DEFINE past == {p \in Active \X Days :
                       p[2] >= SystemStart /\ p[2] >= Floor[p[1]] /\ p[2] < Today}
  <2>1. /\ Process(past, came, holidays)
        /\ UNCHANGED <<now, reopened, came, holidays, staff>>
    BY <1>11 DEF Backfill
  <2> HIDE DEF past
  <2> QED BY <1>2, <1>3, <2>1, ProcessKeeps
<1>12. ASSUME NEW w \in Runners, JudgeNext(w) PROVE Keeps
  <2> DEFINE t == task[w]
             p == NextOf(t.todo)
             pairs == IF (t.phase # "catchup" \/ t.day = t.until) /\ p[2] \notin Workdays
                      THEN {} ELSE {p}
  <2>1. /\ Process(pairs, came, holidays)
        /\ UNCHANGED <<now, reopened, came, holidays, staff>>
    BY <1>12 DEF JudgeNext
  <2> HIDE DEF pairs
  <2> QED BY <1>2, <1>3, <2>1, ProcessKeeps
<1>13. ASSUME UNCHANGED <<now, reopened, came, holidays, staff, absent>> PROVE Keeps
  BY <1>1, <1>4, <1>13, QuietKeeps
<1>14. ASSUME NEW w \in Workers, BeatSync(w) PROVE Keeps
  BY <1>13, <1>14 DEF BeatSync, BeginSync
<1>15. ASSUME NEW w \in Portals, SyncNow(w) PROVE Keeps
  BY <1>13, <1>15 DEF SyncNow, BeginSync
<1>16. ASSUME NEW w \in Runners,
              SaveCursor(w) \/ BeginResettle(w) \/ CatchUpFails(w) \/ Crash(w)
       PROVE  Keeps
  BY <1>13, <1>16 DEF SaveCursor, BeginResettle, CatchUpFails, Crash
<1> QED
  BY <1>5, <1>6, <1>7, <1>8, <1>9, <1>10, <1>11, <1>12, <1>14, <1>15, <1>16 DEF Next, Step

----------------------------------------------------------------------------
(* The tasks.                                                              *)

\* What stands of a task that stays as it is ...
LEMMA CaughtStands ==
    ASSUME TypeOK, Keeps, NEW w \in Runners, Caught(task[w]), task'[w] = task[w]
    PROVE  Caught(task[w])'
<1> SUFFICES ASSUME task[w].phase = "catchup"
             PROVE  /\ AllOver(task[w].until)' /\ Steady' \subseteq task'[w].people
                    /\ \A e \in Employees, d \in Days :
                          d < task[w].day \/ (d = task[w].day /\ <<e, d>> \notin task[w].todo)
                            => Settled(e, d)'
  BY DEF Caught
<1>1. /\ task[w].day \in Days /\ task[w].until \in Days /\ task[w].day <= task[w].until
      /\ AllOver(task[w].until) /\ Steady \subseteq task[w].people
  BY DEF Caught
<1>2. SystemStart' = SystemStart
  BY DEF Keeps
<1>3. ASSUME NEW e \in Employees, NEW d \in Days,
             d < task[w].day \/ (d = task[w].day /\ <<e, d>> \notin task[w].todo)
      PROVE  Settled(e, d)'
  <2>1. Settled(e, d)
    BY <1>3 DEF Caught
  <2>2. d <= task[w].until
    <3>1. d \in Nat /\ task[w].day \in Nat /\ task[w].until \in Nat
      BY <1>1, Calendar
    <3>2. d <= task[w].day /\ task[w].day <= task[w].until
      BY <1>1, <1>3, <3>1
    <3> QED BY <3>1, <3>2
  <2>3. AllOver(d)
    BY <1>1, <2>2, AllOverBefore
  <2> QED BY <1>2, <2>1, <2>3 DEF Keeps
<1>4. Passed(task[w].until)
  <2>1. task[w].until <= task[w].until
    BY <1>1, Calendar
  <2> QED BY <2>1 DEF Passed
<1>5. AllOver(task[w].until)'
  BY <1>1, <1>4 DEF Keeps
<1> QED BY <1>1, <1>3, <1>5 DEF Keeps

\* ... of the cursor that stays where it is ...
LEMMA CursorStands ==
    ASSUME TypeOK, CursorInv, Keeps, cursor' = cursor
    PROVE  /\ cursor' # NoDay => AllOver(cursor)'
           /\ \A e \in Employees, d \in Days : d <= cursor' => Settled(e, d)'
<1>1. CASE cursor = NoDay
  BY <1>1, Calendar DEF NoDay
<1>2. CASE cursor # NoDay
  <2>1. cursor \in Days /\ AllOver(cursor) /\ SystemStart' = SystemStart /\ Passed(cursor)
    BY <1>2, Calendar DEF CursorInv, Keeps, TypeOK, Passed
  <2>2. AllOver(cursor)'
    BY <2>1 DEF Keeps
  <2>3. ASSUME NEW e \in Employees, NEW d \in Days, d <= cursor PROVE Settled(e, d)'
    <3>1. AllOver(d) /\ Settled(e, d)
      BY <2>1, <2>3, AllOverBefore DEF CursorInv
    <3> QED BY <2>1, <3>1 DEF Keeps
  <2> QED BY <2>2, <2>3
<1> QED BY <1>1, <1>2

\* ... and of where days start.
LEMMA StartedStands ==
    ASSUME Keeps, Begun
    PROVE  Started'
BY DEF Keeps, Begun, Started

\* A step that moves one task, and not the cursor.
LEMMA TaskMoves ==
    ASSUME TypeOK, CursorInv, Keeps, cursor' = cursor, NEW w \in Runners, NEW t \in Tasks,
           Move(w, t), t.phase = "catchup" => Caught(task[w])' /\ Started',
           ~Begun => Started'
    PROVE  CursorInv'
<1>1. task'[w].phase # "catchup" => Caught(task[w])'
  BY DEF Caught
<1>2. task'[w].phase = "catchup" => t.phase = "catchup"
  BY DEF Move, Idle, TypeOK
<1>3. \A v \in Runners \ {w} : task'[v] = task[v]
  BY DEF Move, TypeOK
<1>4. \A v \in Runners : Caught(task[v])'
  BY <1>1, <1>2, <1>3, CaughtStands DEF CursorInv
<1>5. Started'
  BY StartedStands
<1> QED BY <1>4, <1>5, CursorStands DEF CursorInv

LEMMA BeginKeepsCursor ==
    ASSUME TypeOK, CursorInv, Keeps, NEW w \in Runners, BeginSync(w)
    PROVE  CursorInv'
<1>1. UNCHANGED <<now, reopened, came, holidays, staff, cursor, absent>>
  BY DEF BeginSync
<1>2. SystemStart' = SystemStart /\ Steady' = Steady /\ Today' = Today
  BY <1>1 DEF SystemStart, Steady, Today
<1>3. CASE Move(w, Daily)
  <2>1. Daily \in Tasks /\ Daily.phase # "catchup"
    BY DailyType DEF Daily
  <2>2. ~Begun => Started'
    BY <1>1, <1>3 DEF Begun, Started, Move, Daily, Idle, TypeOK
  <2> HIDE DEF Daily
  <2> QED BY <1>1, <1>3, <2>1, <2>2, TaskMoves
<1>4. ASSUME NEW day \in Days, day <= Today - 1, Today - 1 \in Days,
             day = IF cursor # NoDay THEN cursor + 1 ELSE SystemStart,
             CatchUp(day, Today - 1) \in Tasks, Move(w, CatchUp(day, Today - 1))
      PROVE  CursorInv'
  <2> DEFINE t == CatchUp(day, Today - 1)
  <2>1. /\ t.phase = "catchup" /\ t.day = day /\ t.until = Today - 1 /\ t.people = Active
        /\ t.todo = {p \in Active \X {day} : day >= Floor[p[1]]}
    BY DEF CatchUp
  <2>2. t \in Tasks /\ Move(w, t)
    BY <1>4
  <2> HIDE DEF t
  <2>3. task'[w] = t
    BY <2>1, <2>2 DEF Move, TypeOK
  <2>4. AllOver(Today - 1)'
    <3>1. Today \in Nat /\ now \in Nat /\ 2 * Today <= now
      BY TodayType, Calendar
    <3>2. ASSUME NEW x \in Days, x <= Today - 1 PROVE IsOver(x)
      BY <3>1, <3>2, Calendar DEF IsOver
    <3> QED BY <1>1, <1>2, <3>2 DEF AllOver, IsOver
  <2>5. ASSUME NEW e \in Employees, NEW d \in Days,
               d < day \/ (d = day /\ <<e, d>> \notin t.todo)
        PROVE  Settled(e, d)
    <3>1. CASE d < day
      <4>1. CASE cursor # NoDay
        <5>1. cursor \in Nat /\ d \in Nat /\ day = cursor + 1
          BY <1>4, <4>1, Calendar DEF TypeOK
        <5>2. d <= cursor
          BY <3>1, <5>1
        <5> QED BY <5>2 DEF CursorInv
      <4>2. CASE cursor = NoDay
        <5>1. ~(d >= SystemStart)
          BY <1>4, <3>1, <4>2, Calendar
        <5> QED BY <5>1 DEF Settled
      <4> QED BY <4>1, <4>2
    <3>2. CASE d = day /\ <<e, d>> \notin t.todo
      BY <2>1, <3>2, ActiveType DEF Settled
    <3> QED BY <2>5, <3>1, <3>2
  <2>6. \A e \in Employees, d \in Days :
           d < day \/ (d = day /\ <<e, d>> \notin t.todo) => Settled(e, d)'
    BY <1>1, <1>2, <2>5 DEF Settled
  <2>7. Caught(task[w])'
    BY <1>2, <1>4, <2>1, <2>3, <2>4, <2>6, ActiveType DEF Caught
  <2>8. ~Begun => Started'
    <3>1. SUFFICES ASSUME cursor = NoDay, ConfiguredStart = NoDay
                   PROVE  \E p \in came : p[2] < Today
      BY <1>1, <1>2 DEF Begun, Started
    <3>2. Today \in Nat /\ day \in Nat /\ day = SystemStart
      BY <1>4, <3>1, TodayType, Calendar
    <3>3. came # {}
      BY <1>4, <3>1, <3>2 DEF SystemStart
    <3> DEFINE S == {p[2] : p \in came}
    <3>4. S \subseteq Nat /\ S # {}
      BY <3>3, CameType
    <3>5. day = First(S)
      BY <3>1, <3>2, <3>3 DEF SystemStart
    <3> HIDE DEF S
    <3>6. day \in S
      BY <3>4, <3>5, FirstIsLeast
    <3>7. PICK p \in came : p[2] = day
      BY <3>6 DEF S
    <3> QED BY <1>4, <3>2, <3>7
  <2>9. Started'
    BY <2>8, StartedStands
  <2> QED BY <1>1, <2>2, <2>7, <2>9, TaskMoves
<1> QED BY <1>3, <1>4, BeginCases

LEMMA JudgeKeepsCursor ==
    ASSUME TypeOK, CursorInv, Keeps, NEW w \in Runners, JudgeNext(w)
    PROVE  CursorInv'
<1> DEFINE t == task[w]
           p == NextOf(t.todo)
           next == [t EXCEPT !.todo = @ \ {p}]
           pairs == IF (t.phase # "catchup" \/ t.day = t.until) /\ p[2] \notin Workdays
                    THEN {} ELSE {p}
<1>1. /\ Process(pairs, came, holidays) /\ Move(w, next)
      /\ UNCHANGED <<now, reopened, came, holidays, staff, cursor>>
  BY DEF JudgeNext
<1>2. t \in Tasks /\ t.todo \subseteq EmployeeDays
  BY TaskFields DEF TypeOK
<1>3. /\ next \in Tasks /\ next.phase = t.phase /\ next.day = t.day /\ next.until = t.until
      /\ next.people = t.people /\ next.todo = t.todo \ {p}
  BY <1>2 DEF Tasks
<1> HIDE DEF next
<1>4. ASSUME t.phase = "catchup" PROVE Caught(task[w])'
  <2>1. task'[w] = next
    BY <1>1, <1>3, <1>4 DEF Move, TypeOK
  <2>2. Caught(t)
    BY DEF CursorInv
  <2>3. /\ t.day \in Days /\ t.until \in Days /\ t.day <= t.until /\ AllOver(t.until)
        /\ Steady \subseteq t.people
    BY <1>4, <2>2 DEF Caught
  <2>4. SystemStart' = SystemStart /\ \A d \in Days : AllOver(d) => AllOver(d)'
    BY <1>1, <1>4 DEF Keeps, AllOver, IsOver
  <2>5. ASSUME NEW e \in Employees, NEW d \in Days,
               d < t.day \/ (d = t.day /\ <<e, d>> \notin t.todo \ {p})
        PROVE  Settled(e, d)'
    <3>1. d <= t.until
      <4>1. d \in Nat /\ t.day \in Nat /\ t.until \in Nat
        BY <2>3, Calendar
      <4>2. d <= t.day
        BY <2>5, <4>1
      <4> QED BY <2>3, <4>1, <4>2
    <3>2. AllOver(d)
      BY <2>3, <3>1, AllOverBefore
    <3>3. CASE d < t.day \/ <<e, d>> \notin t.todo
      <4>1. Settled(e, d)
        BY <1>4, <2>2, <2>5, <3>3 DEF Caught
      <4> QED BY <2>4, <3>2, <4>1 DEF Keeps
    <3>4. CASE <<e, d>> \in t.todo /\ d = t.day /\ d \in Workdays
      <4>1. p = <<e, d>>
        BY <2>5, <3>4, Calendar
      <4>2. <<e, d>> \in pairs
        BY <3>4, <4>1
      <4> HIDE DEF pairs, p
      <4> QED BY <1>1, <2>4, <3>2, <4>2, ProcessSettles
    <3>5. CASE d \notin Workdays
      BY <3>5 DEF Settled
    <3> QED BY <2>5, <3>3, <3>4, <3>5
  <2>6. Steady' = Steady
    BY <1>1 DEF Steady
  <2> HIDE DEF t, p
  <2> QED BY <1>3, <2>1, <2>3, <2>4, <2>5, <2>6 DEF Caught
<1>5. t.phase = "catchup" => Begun
  BY DEF Begun
<1>6. ~Begun => Started'
  <2>1. SUFFICES ASSUME ~Begun PROVE ~Begun'
    BY DEF Begun, Started
  <2>2. task'[w].phase # "catchup"
    BY <1>1, <1>3, <2>1 DEF Begun, Move, Idle, TypeOK
  <2>3. \A v \in Runners \ {w} : task'[v] = task[v]
    BY <1>1 DEF Move, TypeOK
  <2> QED BY <1>1, <2>1, <2>2, <2>3 DEF Begun
<1> HIDE DEF t
<1>7. t.phase = "catchup" => Started'
  BY <1>5, StartedStands
<1> QED BY <1>1, <1>3, <1>4, <1>6, <1>7, TaskMoves

LEMMA SaveKeepsCursor ==
    ASSUME TypeOK, CursorInv, Keeps, NEW w \in Runners, SaveCursor(w)
    PROVE  CursorInv'
<1> DEFINE t == task[w]
<1>1. /\ t.phase = "catchup" /\ t.todo = {} /\ cursor' = t.day
      /\ UNCHANGED <<now, reopened, came, holidays, staff, absent>>
  BY DEF SaveCursor
<1>2. /\ t.day \in Days /\ t.until \in Days /\ t.day <= t.until /\ AllOver(t.until)
      /\ Steady \subseteq t.people
  BY <1>1 DEF CursorInv, Caught
<1>3. /\ SystemStart' = SystemStart /\ Steady' = Steady
      /\ \A d \in Days : AllOver(d) => AllOver(d)'
  BY <1>1 DEF Keeps, Steady, AllOver, IsOver
<1>4. t.day \in Nat /\ t.until \in Nat
  BY <1>2, Calendar
<1>5. ASSUME NEW e \in Employees, NEW d \in Days, d <= t.day PROVE Settled(e, d)'
  <2>1. d \in Nat
    BY Calendar
  <2>2. d < t.day \/ d = t.day
    BY <1>4, <1>5, <2>1
  <2>3. Settled(e, d)
    BY <1>1, <2>2 DEF CursorInv, Caught
  <2> QED BY <1>1, <1>3, <2>3 DEF Settled
<1>6. AllOver(cursor)'
  <2>1. AllOver(t.day)
    BY <1>2, AllOverBefore
  <2> QED BY <1>1, <1>2, <1>3, <2>1
<1>7. /\ cursor' # NoDay => AllOver(cursor)'
      /\ \A e \in Employees, d \in Days : d <= cursor' => Settled(e, d)'
  BY <1>1, <1>5, <1>6
<1>8. Started'
  BY <1>1, StartedStands DEF Begun
<1>9. ASSUME NEW v \in Runners \ {w} PROVE Caught(task[v])'
  <2>1. task'[v] = task[v]
    BY DEF SaveCursor, Move, TypeOK
  <2> QED BY <2>1, CaughtStands DEF CursorInv
<1>10. CASE Move(w, Daily)
  <2>1. task'[w].phase # "catchup"
    BY <1>10 DEF Move, Daily, Idle, TypeOK
  <2>2. Caught(task[w])'
    BY <2>1 DEF Caught
  <2> QED BY <1>7, <1>8, <1>9, <2>2 DEF CursorInv
<1>11. CASE t.day + 1 <= t.until /\ NextDay(t) \in Tasks /\ Move(w, NextDay(t))
  <2> DEFINE next == NextDay(t)
  <2>1. t \in Tasks
    BY DEF TypeOK
  <2>2. /\ next.phase = "catchup" /\ next.day = t.day + 1 /\ next.until = t.until
        /\ next.people = t.people
        /\ next.todo = {p \in t.people \X {t.day + 1} : t.day + 1 >= Floor[p[1]]}
    BY <1>1, <2>1 DEF NextDay, Tasks
  <2> HIDE DEF next
  <2>3. task'[w] = next
    BY <1>11, <2>2 DEF Move, TypeOK, next
  <2>4. t.day + 1 \in Days
    BY <1>2, <1>4, <1>11, CalendarAssumption DEF Days
  <2>5. \A d \in Days : AllOver(d) => AllOver(d)'
    BY <1>3
  <2>6. ASSUME NEW e \in Employees, NEW d \in Days,
               d < t.day + 1 \/ (d = t.day + 1 /\ <<e, d>> \notin next.todo)
        PROVE  Settled(e, d)'
    <3>1. CASE d < t.day + 1
      <4>1. d \in Nat
        BY Calendar
      <4>2. d <= t.day
        BY <1>4, <3>1, <4>1
      <4> QED BY <1>5, <4>2
    <3>2. CASE d = t.day + 1 /\ <<e, d>> \notin next.todo
      BY <1>2, <1>3, <2>2, <3>2 DEF Settled
    <3> QED BY <2>6, <3>1, <3>2
  <2>7. Caught(task[w])'
    BY <1>2, <1>3, <1>11, <2>2, <2>3, <2>4, <2>5, <2>6 DEF Caught
  <2> QED BY <1>7, <1>8, <1>9, <2>7 DEF CursorInv
<1> QED BY <1>10, <1>11, SaveCursorCases

LEMMA InitCursor == TypeOK /\ Init => CursorInv
<1> SUFFICES ASSUME TypeOK, Init PROVE CursorInv
  OBVIOUS
<1>1. cursor = NoDay /\ \A w \in Runners : task[w].phase = "idle"
  BY DEF Init, Idle
<1>2. \A d \in Days : ~(d <= cursor)
  BY <1>1, Calendar DEF NoDay
<1> QED BY <1>1, <1>2 DEF CursorInv, Caught, Started

LEMMA NextCursor ==
    TypeOK /\ TypeOK' /\ CursorInv /\ [Next]_vars /\ [StartStands]_vars => CursorInv'
<1> SUFFICES ASSUME TypeOK, TypeOK', CursorInv, [Next]_vars, [StartStands]_vars
             PROVE  CursorInv'
  OBVIOUS
<1>1. CASE UNCHANGED vars
  <2>1. \A e \in Employees, d \in Days : Settled(e, d)' = Settled(e, d)
    BY <1>1 DEF vars, Settled, SystemStart, Steady, Today
  <2>2. ASSUME NEW w \in Runners PROVE Caught(task[w])'
    <3>1. Caught(task[w])
      BY DEF CursorInv
    <3> QED BY <1>1, <2>1, <3>1 DEF vars, Caught, AllOver, IsOver, Steady
  <2>3. Started'
    BY <1>1 DEF vars, CursorInv, Started, Today
  <2> QED BY <1>1, <2>1, <2>2, <2>3 DEF vars, CursorInv, AllOver, IsOver
<1>2. CASE Next /\ StartStands /\ ~UNCHANGED vars
  <2>1. Keeps
    BY <1>2, NextKeeps DEF CursorInv
  <2>2. ASSUME UNCHANGED <<cursor, task>> PROVE CursorInv'
    <3>1. \A w \in Runners : Caught(task[w])'
      BY <2>1, <2>2, CaughtStands DEF CursorInv
    <3>2. Started'
      <4>1. CASE Begun
        BY <2>1, <4>1, StartedStands
      <4>2. CASE ~Begun
        BY <2>2, <4>2 DEF Begun, Started
      <4> QED BY <4>1, <4>2
    <3> QED BY <2>1, <2>2, <3>1, <3>2, CursorStands DEF CursorInv
  <2>3. ASSUME NEW w \in Runners, NEW t \in Tasks, Move(w, t), t.phase # "catchup",
               cursor' = cursor
        PROVE  CursorInv'
    <3>1. ~Begun => Started'
      BY <2>3 DEF Begun, Started, Move, Idle, TypeOK
    <3> QED BY <2>1, <2>3, <3>1, TaskMoves
  <2>4. ASSUME NEW w \in Runners, CatchUpFails(w) PROVE CursorInv'
    BY <2>3, <2>4, DailyType DEF CatchUpFails, Daily
  <2>5. ASSUME NEW w \in Runners, Crash(w) PROVE CursorInv'
    BY <2>3, <2>5, IdleType DEF Crash, Idle
  <2>6. ASSUME NEW w \in Runners, BeginResettle(w) PROVE CursorInv'
    <3> DEFINE t == task[w]
               recent == {d \in holidays : d < t.day /\ d >= t.day - HOLIDAY_REEVAL_DAYS}
               next == [t EXCEPT !.phase = "resettle", !.todo = t.people \X recent]
    <3>1. t \in Tasks
      BY DEF TypeOK
    <3>2. recent \subseteq Days
      BY Calendar DEF TypeOK
    <3>3. Move(w, next) /\ cursor' = cursor
      BY <2>6 DEF BeginResettle
    <3> HIDE DEF recent
    <3>4. t.people \X recent \subseteq EmployeeDays
      BY <3>1, <3>2, TaskFields DEF EmployeeDays
    <3>5. next \in Tasks /\ next.phase # "catchup"
      BY <3>1, <3>4 DEF Tasks
    <3> HIDE DEF next
    <3> QED BY <2>3, <3>3, <3>5
  <2>7. ASSUME NEW w \in Runners, BeginSync(w) \/ JudgeNext(w) \/ SaveCursor(w)
        PROVE  CursorInv'
    BY <2>1, <2>7, BeginKeepsCursor, JudgeKeepsCursor, SaveKeepsCursor
  <2>8. ASSUME \/ Tick \/ StepBack \/ ImportHolidays \/ Backfill
               \/ \E p \in EmployeeDays : Ingest(p[1], p[2])
               \/ \E d \in HolidayDays : ToggleHoliday(d)
               \/ \E e \in Employees : SetActive(e)
        PROVE  CursorInv'
    BY <2>2, <2>8 DEF Tick, StepBack, ImportHolidays, Backfill, Ingest, ToggleHoliday, SaveHoliday,
       SetActive
  <2> QED BY <1>2, <2>4, <2>5, <2>6, <2>7, <2>8 DEF Next, Step, BeatSync, SyncNow, Runners
<1> QED BY <1>1, <1>2

\* The cursor passes no day whose absences were not recorded, however tasks
\* overlap, die and fail, and whatever administrators do meanwhile.  Of a clock
\* that is corrected back, by any amount and any number of times, it says that
\* only days whose sessions were opened again can lose their absences (they do:
\* FinalizedMeansRecorded).  Where no first day is configured, it is said of
\* clocks that are not set back.
THEOREM NoDayIsSkipped == Spec /\ [][StartStands]_vars => []NoDaySkipped
<1>1. TypeOK /\ CursorInv => NoDaySkipped
  <2> SUFFICES ASSUME TypeOK, CursorInv,
                      NEW e \in Steady, NEW d \in (Workdays \ holidays) \ reopened,
                      d <= cursor, d >= SystemStart, d >= Floor[e], <<e, d>> \notin came
               PROVE  <<e, d>> \in absent
    BY DEF NoDaySkipped
  <2>1. e \in Employees /\ d \in Days
    BY Calendar DEF Steady
  <2> QED BY <2>1 DEF CursorInv, Settled
<1> QED BY <1>1, InitType, NextType, InitCursor, NextCursor, PTL DEF Spec
=============================================================================
