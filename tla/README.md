# A TLA+ development of the biometric attendance system

This directory holds TLA+ models of the Django attendance system in this
repository, the TLC runs that check them on small instances, and TLAPS proofs of
their main safety properties for every value of the constants. The models are
written from the code under `apps/`; `PROJECT.json` says for each definition
which lines it stands for.

```
cd tla
tlc -config day.cfg MCAttendanceDay      # any run of PROJECT.json
tlapm AttendanceDayProofs.tla                  # any *Proofs module
```

## 1. The system

A fingerprint terminal (ZKTeco) keeps punches in its own memory. Two processes
read it: the **listener** container streams each punch as it happens
(`attendance_listener`), and a **Celery beat** task pulls the last day's punches
every few minutes (`sync_attendance_task`). Both go through `ingest_punches`,
which classifies a whole employee-day, stores the labels as `AttendanceLog`
rows, creates one notification per new row and calls `process_day`, which
deletes and recomputes the day's `Lates`, `Undertime`, `Absence` and `Overtime`
rows. Administrators change the same rows through the web portal. A **Celery
worker** pool sends notifications through Firebase (FCM); a **sweeper** task
brings back what was lost. Employees read the results through a REST API.
There is no locking between these processes other than MySQL's unique keys and
`process_day`'s transaction.

| Component | State it keeps | Operations that change it | Interacts with |
|---|---|---|---|
| Attendance rules (`attendance/services.py`, pure part; `organization/schedule.py`) | none | - | used by everything below |
| Day ledger (`services.py`, `tasks.py`, portal handlers, `regenerate_attendance`) | `AttendanceLog`, `OTAuthorization`, `Holiday`, the four derived tables, per employee and day | listener and sync ingestion, manual punch, authorise/revoke overtime, save/delete holiday, regenerate | device, clock, notifications |
| Day finalization (`attendance/tasks.py`, `tracking.py`, `backfill_attendance`) | `ProcessingCursor` | catch-up, daily processing, holiday re-settlement, backfill | ledger, holidays, employees, clock |
| Notification delivery (`apps/notifications`) | `Notification` rows, broker messages, each worker's FCM flag, `MobileDevice` tokens | create and enqueue, send, save, retry, sweep, register a token | ledger, FCM, Celery |
| Biometric devices (`apps/devices`) | the unit's memory, the live stream, `BiometricDevice` | press, stream, fetch, CRUD, status probe | listener, sync |
| Trusted time (`organization/trusted_time.py`) | one clock offset | refresh | everything that asks what day it is |
| Schedules (`organization/schedule.py`, portal forms) | `GlobalSchedule`, `EmployeeSchedule` | the two global forms, override and weekly hours forms, clear, reseed | rules, finalization |
| Employees and accounts (`webportal/views.py`, `apps/api`, `apps/accounts`) | `Employee`, `User`, JWTs | hire, edit, (de)activate, create/reset login, sign in, rename, change password, reseed | devices' tokens, entrypoint |
| Attendance views, weekly hours, report contents (`api/selectors.py`, `webportal/views.py`, `reports/generators.py`) | none | - | read the ledger |
| Report jobs (`apps/reports`) | `ReportJob` | request, generate | Celery |
| Live kiosk (`attendance/realtime.py`, SSE view) | Redis subscriptions | publish, stream | ledger |

### What is hard here, and what makes each part correct

* **Ledger.** A punch has no type of its own: a later punch changes what an
  earlier, stored one meant. Live capture classifies after every punch, sync
  after a batch, and punches may be missed, late, typed in by hand or
  regenerated. Correct means: one device punch is one device row; manual rows
  are sacred; the derived rows follow what is stored; nobody is judged, and
  above all nobody is *told*, before a session closes; every session is judged
  in the end; both paths of ingestion agree; regeneration repairs.
* **Ingestion.** Listener and sync ingest the same punches with no lock. Correct
  means: no interleaving loses a punch; a notification is lost only with a
  process that died or failed; derived rows that are out of step have a cause,
  and the next undisturbed run puts them right.
* **Finalization.** Days the stack was down must all be judged later, in
  order, through crashes, overlapping tasks and corrections of the clock;
  holidays are judged provisionally and again once the next workday is known.
* **Delivery.** No lock protects a `Notification`: copies of one send overlap,
  the sweeper works on rows it read earlier, workers lose acknowledged messages
  when they die. Correct means: nothing raised is lost, nothing is given up
  early, the attempts counter is not overstated, what is settled stays settled.
* **Views.** One half of the pages infers a day from its punches, the other half
  adds up the rows `process_day` left. They must come to the same figures.
* **Schedules.** The order of a schedule's times must survive overlapping forms,
  changes of the global schedule under an override, and reseeding.
* **Accounts.** Employee and login are two rows saved one after the other;
  usernames are looked for and then taken; logins are saved from stale copies;
  the entrypoint runs `seed_data` at every start, on whatever it finds.

The individual hazards, each at its line, with the properties that cover it or
the reason none does, are listed in `PROJECT.json` under `hazards`.

## 2. The modules

| Module | Models | Proofs |
|---|---|---|
| `PunchRules` | the pure rules: classification, day logs, minutes, what `process_day` derives | `PunchRulesProofs` |
| `AttendanceDay` | one employee-day of the ledger under every handler that touches it, each one step | `AttendanceDayProofs` |
| `PunchIngestion` | the same day at the grain of database statements: listener against sync | `PunchIngestionProofs` |
| `Finalization` | several days and employees: cursor, catch-up, daily pass, holidays, backfill | `FinalizationProofs` |
| `DailyRecords` | what pages, app, reports and dashboard read from the ledger | `DailyRecordsProofs` |
| `NotificationPromise` | the abstract promise: raised, then settled, and settled for good | - |
| `Delivery` | broker, workers, FCM, sweeper, with crashes and refused messages | `DeliveryProofs` |
| `ScheduleSettings` | the global schedule and the overrides under overlapping requests and reseeding | `ScheduleSettingsProofs` |
| `Accounts` | employees, logins and tokens under overlapping requests and restarts | `AccountsProofs` |

`MC<Module>` holds each module's values for TLC. `PunchRules` is extended by the
ledger's modules and by `ScheduleSettings` (the order of the times).
`PunchIngestion` and `DailyRecords` take `AttendanceDay`'s operators by
`INSTANCE`: the first to show that its undisturbed handlers do what
`AttendanceDay`'s atomic step does, the second so that each of its days is stored
and processed by the very same rules. `Finalization` abstracts a day to worked or
not; `DailyRecords` puts the real day back and takes the daily pass as one step.

### PunchRules and AttendanceDay

A moment is a number of seconds since the day's midnight; the next day's moments
are beyond `DaySeconds`. A classification, a dict from type to time in the code,
is a set of `[type, at]` records. The constants of `AttendanceDay` are what does
not change during a day: the effective schedule, full-time or part-time, whether
the day is a workday, the verdict of the bridging rule. `Clock` is the finite
set of moments at which something may happen; `Tick` moves to the next one.

| Variable | In the program |
|---|---|
| `now` | `trusted_now()` |
| `pressed`, `stream` | the unit's memory; punches yielded by `live_capture` and not ingested |
| `logs` | `AttendanceLog` rows of the day: instant, type, DEVICE or MANUAL |
| `auth`, `holiday` | `OTAuthorization.ot_start`, the `Holiday` of the date |
| `tables` | minutes and reasons of the `Lates`, `Undertime`, `Absence`, `Overtime` rows |
| `absencePush` | the "Marked Absent" notifications, by session and reason (their identity is the body) |
| `finalized` | the processing cursor has passed the day |

| Action | Code |
|---|---|
| `Press`, `ListenerIngest`, `ListenerRestart` | the unit, `attendance_listener`, its container restarting |
| `SyncTask(reached)` | `sync_attendance_task`: pull (nothing, if the unit cannot be reached), ingest, catch up, process today, re-settle the holiday |
| `AuthorizeOT`, `RevokeOT` | the overtime page |
| `SetHoliday` | `holiday_form`, `holiday_delete`, `_reprocess_dates` |
| `ManualPunch` | the Punch Terminal: the form's three checks, the row, `process_day` |
| `Regenerate` | `regenerate_attendance` and the backfill it ends with |

Every handler is one action, including the `process_day` it ends with. Punch
notifications are left to `Delivery`; wording, counters and log lines are not
modelled. Rows tagged DEMO behave like device rows and are not distinguished.

### Delivery and NotificationPromise

`Delivery` splits a send at what another process can observe: `Start` (take and
acknowledge the message, load the row), `Send` (`send_to_employee`), `Save` (the
update of the row, `Saved` over whatever it holds by then), `Retry` (Celery's
republished message). The sweeper's query (`SweepQuery`) and each row of its
loop (`SweepRow`) are separate too, on the values the query read. `Raise` is
both `notify_for_log` and `raise_attendance_notification`: they differ only in
the key that makes them idempotent. `Remove` is the cascade from a deleted log.
The broker is a count of waiting copies per notification and retry, so copies
may be taken in any order. `tries` and `abandoned` are history variables: the
calls of `send_to_employee` (each an attempt, also where FCM is disabled or no
token is active) and the rows ever marked FAILED.

`Delivery` implements `NotificationPromise` with `settled` mapped to: `sent_at`
is set, or the row says SENT, or the sweeper gave up, or the row is gone.

### PunchIngestion

| Variable | In the program |
|---|---|
| `pressed`, `stream` | the unit's memory; what the listener was told and has not ingested |
| `rows` | `AttendanceLog` rows with their primary keys |
| `notified` | primary keys of the rows with a `Notification` (its unique key) |
| `derived` | the committed rows of the four tables |
| `task` | a handler's position in `ingest_punches`, with what it has read |
| `alone`, `disturbed` | history: who ran without another handler writing meanwhile |

`Begin` reads the stored times and classifies; `Look`, `Relabel` and
`GetOrCreate` are `_store_log`'s statements for one label; `Notify` and
`NotifyFails` are `_notify_for_new_log`; `StartDay` (deletes and read) and
`CommitDay` (inserts and commit) are `process_day`'s transaction; `Clash` is its
`IntegrityError`, `Crash` a death anywhere. MySQL runs at READ COMMITTED, Django's
default: a statement sees what is committed when it starts, deletes wait for another open transaction's deletes, inserts for its
deletes of the same key.

### Finalization

| Variable | In the program |
|---|---|
| `now` | `trusted_now()`: two moments per day, sessions open and over |
| `came` | the employee-days with punches |
| `holidays`, `staff` | `Holiday` rows; `is_active` |
| `cursor` | `ProcessingCursor.last_finalized_date` |
| `absent` | the employee-days with `Absence` rows |
| `task` | each running `sync_attendance_task`: catching up with a day, today's pass, re-settling |
| `reopened` | history: days whose sessions a correction of the clock opened again after the cursor, or a task catching up, had passed them |

`BeginSync` reads clock, cursor and employees once, as the code does; `JudgeNext`
is `process_day` of one employee-day; `SaveCursor` the save after each day;
`BeginResettle` lists the last week's holidays; `CatchUpFails` is the exception
that is logged before today's pass runs anyway; `Crash` may hit between any two.
`ToggleHoliday`, `ImportHolidays`, `SetActive` and `Backfill` are the
administrator's, `Ingest` punches of today or of yesterday read late. `StepBack`
is a refreshed offset: it sets the clock to any earlier moment, at any time (an
offset that sets it forward is `Tick`s in a row).

The code does not survive every correction. A day that is caught up with while
the clock is back inside it is judged with its sessions open and passed by the
cursor; a finalized day that becomes today again has its rows cleared by the daily
pass and, if the stack is down until it is over, never gets them back.
`clock_set_back` shows the first (`FinalizedMeansRecorded`); `NoDaySkipped` and
`EventuallyRight` speak of the days no correction has `reopened` (and of reopened
holidays within the window that is re-settled, and of today).

### DailyRecords

Actions write the ledger (`Ingest`, `DailyPass`, `SaveHoliday`, `Tick`); the rest
are operators for what is read: `BuildDailyAttendance`, `WeeklyHours`, `Summary`
(`monthly_summary`), `Performance` (the profile), `LostTime` (tardiness and
absence pages, by employee or department), `Dashboard` and the three reports.

### ScheduleSettings

`global` and `override` are the rows, `request` what each administrator's request
has loaded and not yet saved. Every view is split where it reads and writes:
`PostSettings`/`SaveSettings`, `PostRequirement`/`SaveRequirement` (two forms that
save the same row whole), `PostOverride`/`CheckOverride`/`SaveOverride`/
`DropOverride`, `PostHours`, `ClearHours`, `ClearOverride`. `Restart` is
`seed_data` writing times and workdays again. `seeded`, `against` and `excused`
are history fields of the rows.

### Accounts

| Variable | In the program |
|---|---|
| `employee`, `login` | the `Employee` rows; the `User` each is linked to |
| `passwords`, `tokens` | a serial number per salted hash; the hashes the phones' JWTs were signed for (`CHECK_REVOKE_TOKEN`) |
| `request` | what the web server's requests have loaded and will save |
| `up` | the container got past its entrypoint |
| `apart`, `unlucky`, `had` | history: the named exceptions of the properties |

Hiring is `PostHire`, `SaveEmployee`, `Provision`, `TryName` (one look per
candidate name), `CreateLogin`, `SavePassword`; activation is `SwitchEmployee`
then `SwitchLogin`; reset, rename and password change load a login and save all
or one field of it. `Restart` loses every request and runs `seed_data`.

Operators commented *Seeded fault* are not part of a model. Each is a plausible
bug in the definition it precedes; substituting it must break the property that
`PROJECT.json` pairs it with (`mutants`), which shows the property can fail.

## 3. The runs

| Run | Instance | Shows |
|---|---|---|
| `day` | a day from a late arrival to overtime, lossy listener, manual entries, every kind of holiday, overtime authorised, revoked and authorised again from another hour between punches | one device row per instant, manual rows kept, tables follow the logs, no absence while a session is open, overtime only inside the window authorised now; regeneration brings the day to what its punches mean |
| `day_live` | eight moments, lunch taps 30 seconds apart, listener misses nothing, nobody types anything | live capture and batch sync agree; every session is judged in the end, unit reachable or not |
| `ingestion` | listener and one sync task, three punches, one fault | no race loses a punch; each fault costs one notification at most; one undisturbed run heals the day; undisturbed handlers do `AttendanceDay`'s atomic step; beat makes the day consistent in the end |
| `finalization` | three days with a holiday, two employees, one hired later, beat's task beside *Sync now*, one edit, one fault (a correction of the clock is one) | but for days a correction reopened, the cursor passes no unjudged day and the absences end up right |
| `records` | Saturday to Tuesday, a full-timer and a part-timer, punches in any order, one holiday edit | the two readings of the ledger agree after the daily pass; every workday counts once; a week reads the same in every range and stays met; a further punch never costs a session, where no stale row counts |
| `schedules` | one part-timer, two administrators, five requests, one restart | times stay in order until a restart or a change of the global times; blank overrides go away |
| `accounts` | one seeded employee, one to hire, two request slots, three requests, one restart | logins follow employees, hires get logins, numbers are not squatted, renames do not stop the app, revoked tokens stay dead |
| `delivery_race` | two workers that may disagree about FCM, two phones, a fault | no early give-up, no overstated attempts |
| `delivery_promise` | one worker, two phones, a retry, a fault | `Delivery` implements `NotificationPromise`, liveness included |
| `overtime_authorized_late`, `blank_workdays`, `clock_set_back` | | code and text disagree, see below |

**Bounds.** The ledger's clocks have three to eight moments, each next to a rule:
a late arrival (8:20), taps 30 seconds apart in the lunch window (12:35 and
12:35:30), taps three minutes apart (7:55 and 7:58), the exact end of a session
(12:00, 17:00) and the next morning, when the cursor passes the day. Every rule
of the classifier compares at most two punches with each other or one with a
time of the schedule, so a few moments on both sides of each boundary exercise
it. Ingestion needs two handlers: its races are between a pair, over one instant
(12:40 means lunch out or afternoon in, depending on what came before). In
`finalization` three days give one catch-up over several days, with a holiday
between two workdays, and two runners give the overlap (a day off is in the model
and in the theorem, not in this run). Both
hold one fault and one edit (`Faults`, `Edits`), enough for a death followed by
recovery. Delivery's counters are bounded by `MaxRetries` and
`SWEEP_MAX_ATTEMPTS` (0-2, where the code has 24 and 50: the races need one retry
and one give-up), by `Faults` and by `QueueBound` (copies of one message waiting
at a time; a further copy is folded into those, which loses nothing because all
copies behave alike). `Posts` and `Restarts` bound the requests of the portal:
two that overlap and one that follows show each lost update, and a third or
fifth lets a stale save land after it. The theorems below hold for any bounds.

**Deadlock** is not checked: punches, notifications, requests and faults are
finite, so every one of the systems really comes to rest.

**Fairness.** `AttendanceDay`'s `FairSpec` assumes that time passes, that beat
keeps running the sync task and that the listener goes on with what it was
told; not that the unit is reachable, that anybody punches or presses a button,
or that the listener stays up. `PunchIngestion`'s and `Finalization`'s assume
that beat keeps starting the sync task on each worker and that a handler that
runs takes its steps until it ends, commits or dies; nothing is assumed of
administrators or of *Sync now*. `Delivery`'s assumes that workers and beat,
which docker restarts when they die, take messages, finish or fail what they
took, and that rows age and are swept. Crashes are bounded by `Faults`; FCM may
fail transiently for ever - the promise is then kept by giving up. The portal's
modules have no fairness: a request may stop anywhere.

### Where code and documentation disagree

Three runs check what a comment, a template or a docstring says; TLC shows a history in which
the code does otherwise (quotes and lines are in `findings`).

| Run | The history |
|---|---|
| `overtime_authorized_late` | Overtime authorised after its punches were stored: the day is recomputed from the old labels and nothing accrues until regeneration or another punch |
| `blank_workdays` | An override with every day off is stored as an empty list, which is not NULL: with another field set (the end of the morning) the row stays, the employee has no workdays and no day of theirs is judged |
| `clock_set_back` | Catch-up of a day begins; the clock is corrected back into it; it is judged with its sessions open, so without absences; the cursor is saved past it, and no later sync returns to it |

Further behaviour the models show, which the properties name as an exception or
leave room for:

* *Ledger.* A punch the listener missed may take away the meaning of a stored
  row; nothing re-labels that row, so the day keeps a time the classifier does
  not give it. A morning punch read late can turn an afternoon's arrival into
  leaving for lunch. Regeneration deletes a third punch of a session, hours from
  the others, as a second tap. Two racing inserts of an instant under different
  labels leave two rows; so does an instant both typed in and read.
* *Finalization.* The holiday pages judge a date for everybody, before they were
  hired too. Without a configured start tracking begins at the first punch, and
  while there is none it moves with today. If then the clock is set back over
  midnight after the first catch-up, and a punch of the day before is read late,
  an earlier day becomes tracked that the cursor has passed and nobody judges;
  `NoDayIsSkipped` excludes exactly that.
* *Views.* The pages and the rows treat punches on a day off differently, and a
  holiday the employee has no punch on is credited by the pages on the benefit of
  the doubt. Attending a few minutes can cost more lost minutes (late plus
  undertime, each against the whole session) than not coming at all.
* *Delivery.* A second copy of a send that fails transiently puts a SENT row back
  to PENDING; the sweeper's copy and the immediate copy may both reach one phone;
  a message still in the broker is sent after the row was marked FAILED.
* *Schedules.* None of this is excluded by a property; the first keeps the order,
  the others are where the properties end their claim. The two global forms save
  the whole row, so the later one takes back what the earlier changed. The global
  times may change under an override that was in order with them. Reseeding
  writes times and workdays but not the midpoint, which may leave them out of
  order, and resets `is_fulltime`.
* *Accounts.* Requests that overlap on one employee, or a restart between the two
  saves of a deactivation, leave employee and login disagreeing (`OneSwitch` names
  these exceptions). The reset's full save can undo a concurrent deactivation or
  rename. A login created for an inactive employee is active. An employee who keeps a
  seeded biometric id under an edited number makes `seed_data` fail at the next
  start, and the container does not get past its entrypoint, although
  `README.docker.md` calls it idempotent.

## 4. The proofs

| Theorem | Says |
|---|---|
| `PunchRulesProofs!ClassifyDayLabels` | the classifier labels only punches it was given, and none twice |
| `PunchRulesProofs!UnusedPunchesDoNotMatter` | without punches it does not label, it labels the others as before |
| `PunchRulesProofs!ClassifyGrows` | as punches arrive in order, a label stays or is an OUT a later OUT of its type supersedes |
| `PunchRulesProofs!LatePunchesKeepSessions` | as punches are read late, a morning attended stays so and an afternoon is only lost to a morning that was not |
| `AttendanceDayProofs!OneDeviceRowAlways` | one device row per instant |
| `AttendanceDayProofs!ManualRowsAreKept` | manual rows are never changed or removed |
| `AttendanceDayProofs!TablesAlwaysFollowLogs` | the derived rows are never stale |
| `AttendanceDayProofs!OvertimeStaysInWindow` | no overtime without an authorisation, nor for minutes before the start authorised now |
| `AttendanceDayProofs!AbsenceOnlyAfterClose` | nobody is absent, or told so, while the session is open |
| `AttendanceDayProofs!RegenerationRepairs` | regeneration brings any day whose useful punches are stored to what its punches mean |
| `AttendanceDayProofs!LiveCaptureAgrees` | capture punch by punch gives the times of one batch, if the listener misses nothing, nothing is typed in or authorised (`NothingElse`) and it keeps up (`KeepsUp`) |
| `AttendanceDayProofs!SyncAgrees` | a sync of the day's punches leaves the times of one batch, under `NothingElse` |
| `PunchIngestionProofs!NoRaceLosesAPunch` | whoever judges the day finds every instant it classified in the log |
| `PunchIngestionProofs!CleanRunHeals` | derived rows out of step with the log have a cause, and a clean run repairs them |
| `PunchIngestionProofs!FaultsBoundLosses` | no more notifications are missing than there were faults |
| `PunchIngestionProofs!AloneHandlersAreAtomic` | an undisturbed handler leaves the log `AttendanceDay`'s step leaves |
| `FinalizationProofs!NoDayIsSkipped` | every tracked day the cursor has passed has its absences, but for days a correction of the clock reopened |
| `DeliveryProofs!AttemptsAreCovered` | `attempts` never exceeds the calls of `send_to_employee` |
| `DeliveryProofs!GiveUpAlwaysEarned` | no give-up before `SWEEP_MAX_ATTEMPTS` calls of `send_to_employee` |
| `DeliveryProofs!StepsKeepPromise` | each step of `Delivery` is one of `NotificationPromise` or none |
| `ScheduleSettingsProofs!GlobalAlwaysOrdered`, `EffectiveAlwaysOrdered` | stored and effective times keep their order |
| `ScheduleSettingsProofs!EmptyOverrideAlwaysDropped` | a blank override is about to be dropped |
| `AccountsProofs!RenamesNeverStop` | no username keeps `seed_data` from running |
| `AccountsProofs!RevokedNeverReturn` | no stale save brings a replaced password back |
| `AccountsProofs!NumbersAlwaysBelong` | a number-style username belongs to who has or had the number |
| `AccountsProofs!OneSwitchAlways` | employee and login agree on `is_active` |
| `AccountsProofs!HiresAlwaysGetLogins` | every hire has a login with a password, or is getting one |
| `DailyRecordsProofs!PagesAgreeWhenKeptUp` | after a pass the two readings agree over every range, while no holiday leaves the window of re-settled days too early (`KeepsUp`) |
| `DailyRecordsProofs!PagesAgreeWithDailyPass` | with `HOLIDAY_REEVAL_DAYS` at least 7, as in the code, a pass a day (`PassesDaily`) is enough for that |
| `DailyRecordsProofs!CardsAlwaysAgree` | after a pass the dashboard's cards count what the Attendance page shows |
| `DailyRecordsProofs!WorkdaysAlwaysCounted` | a report's day counts add up to the days it must count |
| `DailyRecordsProofs!WeeksAlwaysWhole`, `MetWeeksStayMet` | a week is the same in every range; once met it stays met |
| `DailyRecordsProofs!SessionsNeverLost` | where no stale row counts, one punch more never costs a session |

Each module except `PunchRulesProofs` also proves its `TypeOK` (`TypeCorrect`, in
`DailyRecordsProofs` `RecordsTyped`). All hold for every value of the constants
that satisfies the assumptions below; a theorem's own hypotheses are in the table.
With them every invariant and every action property that a passing run checks is
a theorem, some under the hypotheses named.

*Assumptions.* `AttendanceDay`: the clock lies within two days, the schedule has
the order the forms enforce, a holiday without a row requires nothing.
`PunchIngestion`: the same of its clock and schedule; sync tasks are finitely
many. `Finalization`: workdays and holidays are among the modelled days.
`Delivery`: limits are natural numbers, notifications are numbered by age.
`ScheduleSettings`: what is seeded is in order. `Accounts`: seeded biometric ids
differ, no administrator is called like a seeded number. `DailyRecords`: the clock
stays within the modelled days, employees are finitely many, a week asks for at
least one and at most seven days (the forms' bounds), a holiday that is deleted
requires nothing. TLC evaluates all of them in the runs. `NoDayIsSkipped` also
assumes that a start is configured or the clock is never set back
(`StartStands`), for the reason given under *Finalization* in section 3; the run
has a start configured. It claims nothing of `reopened` days.

*The arguments.* The classifier never labels an instant twice, so storing a
classification keeps at most one device row per instant: `OneDeviceRowPerInstant`
is inductive with `TypeOK`. `TablesFollowLogs` is inductive because every
handler that writes ends with `process_day`, and because the moment the day was
judged at stays in the past. `NoAbsenceWhileOpen` follows from it - an absence
was judged at a moment when the session was closed, and this module's clock does
not step back - except for the pushes, which need the same argument once, when they are
raised.

In `PunchIngestion` even the type invariant is not inductive: what an open
transaction has deleted must still be there, although others commit. `TypeInv`
adds what each phase holds (`TaskRight`) and that one transaction at most has
deleted rows (`OneDeletes`), which is what the waiting deletes give.
`BatchIsStored` needs `StoredInv`: a label that a task has done with is in the
log, and the row it is about to re-label still is at the label's instant,
because nobody deletes or moves a row (`NoRowMoves`). `OneCleanRunHeals` needs
`HealInv`: a process_day nobody disturbed is the only one, still has the log it
read, and has deleted every derived row; so its commit is `Derive` of the log.
`EachFaultLosesOneNotification` needs `CountInv`: keys are new when rows are
inserted, and every handler that has yet to notify holds a key of its own.

`NoDaySkipped` speaks of the cursor, which a slower task may set back and which
each task reads only when it begins. `CursorInv` says of the cursor *and* of each
day a task is catching up with that the days before are settled, and that every
day up to the cursor, or to where the task will stop, is over or reopened
(`AllOver`). A correction puts every passed day whose sessions it opens into
`reopened`, the days tasks are still catching up over included, so what is left is
over under the new clock too. Settled days then stay settled: nothing `process_day`
does on a day whose sessions are over clears an absence that is due.

`GiveUpIsEarned` is not inductive: the sweeper decides on attempts it read
earlier, and a worker writes attempts it read earlier. `AttemptsInv` adds what
makes it so: every copy of the counter - in a row, in a loaded task (which still
has to make the call it counted), in an answered task, in the sweeper's list - is
at most the number of calls made so far. `StepsKeepPromise` needs `PromiseInv`:
rows, tasks and snapshots only speak of raised notifications and, when workers
agree about FCM (`UniformFcm`), a SENT row either has `sent_at`, which nothing
clears, or comes from workers that all answer "disabled". Without that assumption
the theorem is false: a worker whose Firebase initialisation failed writes SENT
without `sent_at`, and another worker may take it back.

The portal's modules share one idea: a request holds copies of rows that it may
save over newer ones, so an invariant of the tables must hold of the copies too.
`OrderInv` says so of schedules: every row, stored or loaded, is in order with
the global times it was checked against. In `Accounts`, `Employed` ties each
request to an employee and login that exist; `NumberInv` says that every username
stored, loaded or about to be taken belongs to who may have it; `StoppedInv` says
what is left after a failed start. `RevokedTokensStayRevoked` rests on what every
step does to a password (`PasswordStep`: keep the stored one or take the next
number, whatever copy it saves) and on `Issued`: no token or password has a number
that was not given out. `SwitchInv` and `LoginInv` reason about a request that is
still `alone`: what it read is what is stored.

`RegenerateRepairs` compares two classifications: of all the punches and of those
regeneration leaves. `UnusedPunchesDoNotMatter` says they are the same; the proof
goes through the shapes a full-timer's day can have (`AssignShape`), and through
`GroupInOut`, which depends on a group's first and last punch only.
`LiveAgreesWithBatch` needs an invariant of history, `CapturedSoFar`: the rows
stand for the first punches of those in the device (`UpTo`) - they give every
label of these (`Covers`), and what else they hold is an OUT that a later OUT
supersedes - and the listener has all the others waiting. `ClassifyGrows` carries
it from one punch to the next. `KeepsUp` cannot be dropped: when the listener is a
day behind, the sync task of the next day, which reads back one day, ingests the
afternoon's punches before the listener has ingested the morning's, and the
lunch punch is stored under a meaning it loses. The run's clock ends before that.

`AloneIsAtomic` says of a handler that has stored its last label what each instant
held before and holds now. Its invariant (`AloneInv`) follows the handler label by
label: instants done are as `StoreOutcomes` allows, the others as they were.
(Where an instant has two device rows, left by a race, the code re-labels the
first it finds; `StoreOutcomes` is the set of what it may leave.)

`DailyRecords` compares sums over sets of days and rows. The lemmas about them are
proved by `PartsInduction`, an induction on the parts of a finite set whose
hypothesis is a *set* of parts, so that no operator is a parameter: `SumAdds`,
`SumCompares`, `SumOfCounts`. `LedgerInv` adds to `TypeOK` what each employee-day is (`DayOk`):
one row per instant, nothing of a day still to come, derived rows that
`process_day` would leave at some moment under some reading of the days beside. `EveryWorkdayCounts` follows from it, and
`WeekSameInAnyRange` from the definitions. `CardsAgree` needs that a pass has just
judged today (`CardsInv`). `PagesAgree` needs `FinalInv`: each tracked workday up
to the cursor was judged once it was over (`Closed`), and under a reading of the
days beside it that still is right (`StillRight`) or that the next pass will
correct. The bridging rule makes that hard: a holiday judged exempt is one no more
when its *next workday* turns out unattended. If the pass is not run for so long that a holiday drops
out of the seven days before its next workday has been seen, the theorem is false
(its rows stay provisional), which is what `KeepsUp` excludes. `PagesAgree` and
`EveryWorkdayCounts` speak of ranges a report accepts (366 days).

`WeekMetStays` needs `PairedInv`: an OUT row is there because of a row at least
five minutes before it, so a punch more can only lengthen a part-timer's day
(`PunchAddsMinutes`). `NoFewerSessions` compares the rows before and after one
more punch with `LatePunchesKeepSessions`. It does not hold of every state: rows
that keep a time the classifier no longer gives them may attend a session that the
punches do not, and the next punch may re-label one of them. Its premise, that the
rows attend no session the rules do not give on the same punches, excludes that.
(Seconds decide: 12:01 read first, then 11:58, 13:00:10, 13:07 and 12:59:30.)

*Only model-checked.* Liveness (`EventuallySettled`, `EventuallyConsistent`,
`EventuallyRight`, the fairness half of `KeepsPromise`), because it rests on
fairness, and that the seeded faults break what they should.

## 5. What is not modelled

* *Report jobs.* One row goes from PENDING to DONE or FAILED with one message;
  what a report contains is in `DailyRecords`. The comment at
  `webportal/views.py:1159` promises an inline run "if no broker/worker is up";
  the code falls back when the broker refuses the message, and a missing worker
  leaves the job PENDING.
* *Live kiosk.* A Redis hint to reload, with polling behind it.
* *I/O.* The pyzk protocol, the mock device's invented punches, the HTTP probe of
  the trusted clock, hashing and JWT encoding, photos, page rendering and the
  layout of files. Departments' and devices' CRUD and `is_read` are forms over one
  row. The demo seeder writes invented data.
* *Time.* Only `Finalization` lets the clock be set back; in the ledger's modules
  and in `DailyRecords` it only moves forward.
* *Ledger.* The administrator's handlers (manual punch, overtime, regenerate) are
  atomic: only listener and sync are interleaved by statement. Rows tagged DEMO
  behave like device rows. `DailyRecords` leaves out the grace period's and
  overtime's columns and rounds nothing.
* *Delivery.* `delivery_promise` has one worker, which overlaps with the sweeper's
  copies only, and FCM enabled: that overlapping workers who agree about FCM keep
  the promise's safety half is `StepsKeepPromise`, that they keep its liveness is
  not checked. Left out: `send_test_push` (a direct send that leaves a PENDING row), one
  sweeper run at a time, one employee's notifications. A backlog of several
  notifications behind a small `SWEEP_BATCH` is in the model and the safety
  theorems, not in the liveness run.
* *Portal.* The reads of one request up to its first write are one step; a session
  or permission check is not a step. Administrators' own accounts are only names.
