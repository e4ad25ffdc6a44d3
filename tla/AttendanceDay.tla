---------------------------- MODULE AttendanceDay ----------------------------
(***************************************************************************)
(* One employee-day of the punch ledger: the AttendanceLog rows of the day *)
(* and the rows process_day derives from them, under every handler that    *)
(* touches them - the live listener, the beat-driven sync task, manual     *)
(* entry, overtime authorisation, the holiday pages and the                *)
(* regenerate_attendance command - in any order.  A handler is one action: *)
(* handlers that overlap in time are not this module's subject.            *)
(***************************************************************************)
EXTENDS PunchRules

CONSTANTS
    Clock,            \* the moments at which something may happen
    Sched,            \* the employee's effective schedule
    IsFulltime,       \* full-time employee
    IsWorkday,        \* the day's weekday is one of the schedule's workdays
    OTStarts,         \* starts an administrator may authorise overtime from
    Holidays,         \* the [on, required] holiday settings an administrator may save
    BridgingRequired, \* holiday_requires_attendance: absent on a neighbouring workday
    ManualTypes,      \* the log types an administrator may enter by hand
    LossyListener     \* the listener may be down when a punch is pressed

ASSUME ClockAssumption == Clock \subseteq 0..(2 * DaySeconds - 1)
ASSUME ScheduleAssumption == Sched \in Schedules /\ OrderedSchedule(Sched)
ASSUME FlagsAssumption == {IsFulltime, IsWorkday, BridgingRequired, LossyListener} \subseteq BOOLEAN
ASSUME OTStartsAssumption == OTStarts \subseteq 0..(DaySeconds - 1)
ASSUME HolidaysAssumption ==
    \A h \in Holidays : h \in [on: BOOLEAN, required: SUBSET Sessions]
                        /\ (~h.on => h.required = {})
ASSUME ManualTypesAssumption == ManualTypes \subseteq LogTypes

VARIABLES
    now,         \* the trusted clock
    pressed,     \* punches held in the device's own memory
    stream,      \* punches live_capture has yielded and the listener not yet ingested
    logs,        \* the day's AttendanceLog rows
    auth,        \* ot_start of the day's OTAuthorization, or NoTime
    holiday,     \* the day's Holiday
    tables,      \* the day's Lates, Undertime, Absence and Overtime rows
    absencePush, \* the <<session, reason>> of "Marked Absent" notifications raised
    finalized    \* the processing cursor has passed this day

vars == <<now, pressed, stream, logs, auth, holiday, tables, absencePush, finalized>>

Sources == {"DEVICE", "MANUAL"}
Log(at, type, source) == [at |-> at, type |-> type, source |-> source]
LogRows == [at: Clock, type: LogTypes, source: Sources]

TypeOK ==
    /\ now \in Clock
    /\ pressed \subseteq Clock
    /\ stream \subseteq pressed
    /\ logs \subseteq LogRows
    /\ auth \in OTStarts \cup {NoTime}
    /\ holiday \in Holidays
    /\ tables \in Tables
    /\ absencePush \subseteq Sessions \X Reasons
    /\ finalized \in BOOLEAN

----------------------------------------------------------------------------
(* Storing a classification.                                               *)

LogTimes(rows) == {r.at : r \in rows}
RowsAt(rows, t) == {r \in rows : r.at = t}
ManualRows(rows) == {r \in rows : r.source = "MANUAL"}
DeviceRows(rows) == {r \in rows : r.source # "MANUAL"}
Classify(times, otStart) == ClassifyDay(times, IsFulltime, Sched, otStart)

\* Seeded fault: a changed meaning is stored as a second row.
StoreLogWithoutRelabel(rows, label) ==
    IF \E r \in RowsAt(rows, label.at) : r.type = label.type THEN rows
    ELSE rows \cup {Log(label.at, label.type, "DEVICE")}

\* Seeded fault: a manual row is re-labelled like a device row.
StoreLogRelabelsManual(rows, label) ==
    LET sameInstant == RowsAt(rows, label.at)
    IN  IF \E r \in sameInstant : r.type = label.type THEN rows
        ELSE IF sameInstant # {}
        THEN LET stale == CHOOSE r \in sameInstant : TRUE
             IN  (rows \ {stale}) \cup {[stale EXCEPT !.type = label.type]}
        ELSE rows \cup {Log(label.at, label.type, "DEVICE")}

\* _store_log: the row is there already (or a manual row holds its unique
\* key), or one of this instant's device rows is re-labelled, whichever the
\* database returns first, or a row is inserted.
StoreOutcomes(rows, label) ==
    LET sameInstant == DeviceRows(RowsAt(rows, label.at))
        taken == \E r \in RowsAt(rows, label.at) : r.type = label.type
    IN  IF taken THEN {rows}
        ELSE IF sameInstant # {}
        THEN {(rows \ {stale}) \cup {[stale EXCEPT !.type = label.type]} : stale \in sameInstant}
        ELSE {rows \cup {Log(label.at, label.type, "DEVICE")}}

\* Handlers that do not overlap leave one device row per instant, and with it
\* one outcome.
StoreLog(rows, label) == CHOOSE after \in StoreOutcomes(rows, label) : TRUE

\* Labels of one classification are at distinct instants, so storing them one
\* after the other is storing each among the rows of its own instant.
StoreAll(rows, labels) ==
    {r \in rows : \A l \in labels : l.at # r.at}
    \cup UNION {StoreLog(RowsAt(rows, l.at), l) : l \in labels}

\* process_day: what the derived rows become.
ProcessDay(rows, otStart, hol, t) ==
    LET day == DayLogs(rows)
        exempt == hol.on /\ hol.required = {} /\ rows = {} /\ ~BridgingRequired
    IN  IF ~IsWorkday \/ ~IsFulltime \/ exempt THEN NoRows
        ELSE IF EventRequirementMet(day, hol.required)
        THEN [NoRows EXCEPT !.overtime = ComputeOvertime(day, otStart)]
        ELSE ProcessFulltime(day, Sched, otStart, t)

\* Seeded fault: only the new punches are classified, without the stored ones.
IngestedWithoutContext(times) == StoreAll(logs, Classify(times \ LogTimes(logs), auth))

\* ingest_punches for this employee-day: classify with the stored context,
\* store every label, recompute the day.
Ingested(times) == StoreAll(logs, Classify(times \cup LogTimes(logs), auth))

\* Seeded fault: the day is not recomputed when no row was inserted.
IngestRecomputesOnInsert(times) ==
    /\ logs' = Ingested(times)
    /\ tables' = IF LogTimes(logs') = LogTimes(logs) THEN tables
                 ELSE ProcessDay(logs', auth, holiday, now)

Ingest(times) ==
    /\ logs' = Ingested(times)
    /\ tables' = ProcessDay(logs', auth, holiday, now)

\* The absences _process_and_notify raises a notification for; its identity is
\* the session and the reason (the body of the notification).
AbsencesOf(t) == {<<s, t.absent[s]>> : s \in {x \in Sessions : t.absent[x] # NotAbsent}}

----------------------------------------------------------------------------
(* The handlers.                                                           *)

Init ==
    /\ now \in Clock
    /\ \A t \in Clock : now <= t
    /\ pressed = {}
    /\ stream = {}
    /\ logs = {}
    /\ auth = NoTime
    /\ holiday \in Holidays
    /\ tables = NoRows
    /\ absencePush = {}
    /\ finalized = FALSE

Tick ==
    /\ \E t \in Clock : t > now
    /\ now' = Earliest({t \in Clock : t > now})
    /\ UNCHANGED <<pressed, stream, logs, auth, holiday, tables, absencePush, finalized>>

\* The employee punches; the listener, when it is up, is told at once.
Press(heard) ==
    /\ now < DaySeconds
    /\ now \notin pressed
    /\ heard \/ LossyListener
    /\ pressed' = pressed \cup {now}
    /\ stream' = IF heard THEN stream \cup {now} ELSE stream
    /\ UNCHANGED <<now, logs, auth, holiday, tables, absencePush, finalized>>

\* attendance_listener ingests the next punch of the stream.
ListenerIngest ==
    /\ stream # {}
    /\ Ingest({Earliest(stream)})
    /\ stream' = stream \ {Earliest(stream)}
    /\ UNCHANGED <<now, pressed, auth, holiday, absencePush, finalized>>

\* The listener container restarts: what it had not ingested is gone.
ListenerRestart ==
    /\ LossyListener
    /\ stream # {}
    /\ stream' = {}
    /\ UNCHANGED <<now, pressed, logs, auth, holiday, tables, absencePush, finalized>>

\* Seeded fault: no catch-up, so only today is ever judged.
SyncTaskWithoutCatchUp(reached) ==
    LET pulled == IF reached THEN {t \in pressed : t >= now - DaySeconds} ELSE {}
        judged == now < DaySeconds \/ holiday.on
    IN  /\ logs' = IF pulled = {} THEN logs ELSE Ingested(pulled)
        /\ tables' = IF judged \/ pulled # {}
                     THEN ProcessDay(logs', auth, holiday, now) ELSE tables
        /\ absencePush' = absencePush
               \cup (IF judged /\ IsWorkday THEN AbsencesOf(tables') ELSE {})
        /\ finalized' = (finalized \/ now >= DaySeconds)
        /\ UNCHANGED <<now, pressed, stream, auth, holiday>>

\* sync_attendance_task: pull the last day's punches (none, when the device
\* cannot be reached), ingest them, then finalize yesterday once, process
\* today and re-settle a recent holiday, raising absence notifications.
SyncTask(reached) ==
    LET pulled == IF reached THEN {t \in pressed : t >= now - DaySeconds} ELSE {}
        judged == now < DaySeconds \/ ~finalized \/ holiday.on
    IN  /\ logs' = IF pulled = {} THEN logs ELSE Ingested(pulled)
        /\ tables' = IF judged \/ pulled # {}
                     THEN ProcessDay(logs', auth, holiday, now) ELSE tables
        /\ absencePush' = absencePush
               \cup (IF judged /\ IsWorkday THEN AbsencesOf(tables') ELSE {})
        /\ finalized' = (finalized \/ now >= DaySeconds)
        /\ UNCHANGED <<now, pressed, stream, auth, holiday>>

\* The overtime page: authorise (one authorisation per day) and revoke.
AuthorizeOT(start) ==
    /\ IsFulltime
    /\ auth = NoTime
    /\ auth' = start
    /\ tables' = ProcessDay(logs, auth', holiday, now)
    /\ UNCHANGED <<now, pressed, stream, logs, holiday, absencePush, finalized>>

RevokeOT ==
    /\ auth # NoTime
    /\ auth' = NoTime
    /\ tables' = ProcessDay(logs, auth', holiday, now)
    /\ UNCHANGED <<now, pressed, stream, logs, holiday, absencePush, finalized>>

\* holiday_form and holiday_delete: save, then _reprocess_dates.
SetHoliday(hol) ==
    /\ holiday' = hol
    /\ tables' = ProcessDay(logs, auth, hol, now)
    /\ UNCHANGED <<now, pressed, stream, logs, auth, absencePush, finalized>>

\* ManualAttendanceForm._reject_outside_session.
OutsideSession(type) ==
    \/ type = "AM_IN" /\ (now >= Sched.am_out \/ now >= Sched.midpoint)
    \/ type = "PM_IN" /\ (now >= Sched.pm_out \/ now < Sched.midpoint)
    \/ type = "AM_OUT" /\ (now < Sched.am_in \/ now >= Sched.pm_in)
    \/ type = "PM_OUT" /\ now < Sched.pm_in

\* _IN_FOR_OUT: the IN an OUT type closes.
InFor(type) ==
    CASE type = "AM_OUT" -> "AM_IN" [] type = "PM_OUT" -> "PM_IN"
      [] type = "OT_OUT" -> "OT_IN" [] OTHER -> "IN"

\* ManualAttendanceForm._reject_duplicate: within 5 minutes of the same type,
\* or of the IN this OUT closes.
RecentlyPunched(type) ==
    \E r \in logs :
        /\ r.type = type \/ (type \in OutTypes /\ r.type = InFor(type))
        /\ r.at > now - DUPLICATE_PUNCH_WINDOW
        /\ r.at <= now

\* manual_attendance: the row is created at this instant, or the row already
\* there under the same type becomes a manual one.
ManualPunch(type) ==
    /\ now < DaySeconds
    /\ type \in IF IsFulltime THEN FULLTIME_TYPES ELSE PARTTIME_TYPES
    /\ ~OutsideSession(type)
    /\ type \in {"OT_IN", "OT_OUT"} => auth # NoTime
    /\ ~RecentlyPunched(type)
    /\ logs' = {r \in logs : ~(r.at = now /\ r.type = type)} \cup {Log(now, type, "MANUAL")}
    /\ tables' = ProcessDay(logs', auth, holiday, now)
    /\ UNCHANGED <<now, pressed, stream, auth, holiday, absencePush, finalized>>

\* Seeded fault: an instant whose meaning changed is dropped, not re-labelled.
ReclassifiedByDropping(rows) ==
    LET wanted == Classify(LogTimes(rows), auth)
    IN  {r \in rows : r.source = "MANUAL" \/ Label(r.type, r.at) \in wanted}

\* regenerate_attendance: per instant keep one device row, typed as the rules
\* say, unless a manual row already says it; drop the other device rows.
Reclassified(rows) ==
    LET wanted == Classify(LogTimes(rows), auth)
        kept == {l \in wanted : /\ \E r \in DeviceRows(rows) : r.at = l.at
                                /\ ~\E r \in ManualRows(rows) : r.at = l.at /\ r.type = l.type}
    IN  IF DeviceRows(rows) = {} THEN rows
        ELSE ManualRows(rows) \cup {Log(l.at, l.type, "DEVICE") : l \in kept}

\* A re-classified day that is today is recomputed at once; a past day by the
\* backfill the command ends with.
Regenerate ==
    /\ logs' = Reclassified(logs)
    /\ tables' = IF logs' # logs \/ now >= DaySeconds
                 THEN ProcessDay(logs', auth, holiday, now) ELSE tables
    /\ UNCHANGED <<now, pressed, stream, auth, holiday, absencePush, finalized>>

Next ==
    \/ Tick
    \/ \E heard \in BOOLEAN : Press(heard)
    \/ ListenerIngest
    \/ ListenerRestart
    \/ \E reached \in BOOLEAN : SyncTask(reached)
    \/ \E start \in OTStarts : AuthorizeOT(start)
    \/ RevokeOT
    \/ \E hol \in Holidays : SetHoliday(hol)
    \/ \E type \in ManualTypes : ManualPunch(type)
    \/ Regenerate

Spec == Init /\ [][Next]_vars

\* Time passes and beat keeps running the sync task; nobody has to punch, to
\* press a button or to run a command, and the device need not be reachable.
Fairness ==
    /\ WF_vars(Tick)
    /\ WF_vars(\E reached \in BOOLEAN : SyncTask(reached))
    /\ WF_vars(ListenerIngest)

FairSpec == Spec /\ Fairness

----------------------------------------------------------------------------
(* Properties.                                                             *)

\* However live capture, sync, manual entry and regeneration interleave, one
\* device punch never occupies two device rows: _store_log re-labels the row
\* of an instant whose meaning changed instead of adding a second one.
OneDeviceRowPerInstant ==
    \A r, u \in DeviceRows(logs) : r.at = u.at => r = u

\* The derived rows are never stale: whatever handler ran last, they are what
\* process_day would produce from the logs, authorisation and holiday stored
\* now, as judged at some moment from midnight up to now.
TablesFollowLogs ==
    \E t \in {c \in Clock \cup {0} : c <= now} : tables = ProcessDay(logs, auth, holiday, t)

\* Overtime is only what was worked in the window authorised now, whatever
\* window the punches were labelled under: a revoked authorisation leaves its
\* OT labels behind, and the next one may start after them (_compute_overtime
\* counts from the later of punch and start).
OvertimeWithinWindow ==
    tables.overtime # NoTime =>
        /\ auth # NoTime
        /\ tables.overtime > 0 => \E t \in LogTimes(logs) : tables.overtime * 60 <= t - auth

\* A session is never counted absent, and nobody is told so, while it can
\* still be completed (session_is_open).
NoAbsenceWhileOpen ==
    /\ \A s \in Sessions :
          tables.absent[s] # NotAbsent => ~SessionIsOpen(SessionOut(Sched, s), now)
    /\ \A p \in absencePush : ~SessionIsOpen(SessionOut(Sched, p[1]), now)

\* No handler changes or removes what an administrator entered by hand.
ManualRowsKept == [][ManualRows(logs) \subseteq ManualRows(logs')]_vars

\* regenerate_attendance repairs whatever history left in the ledger: once
\* every punch the rules use is stored, under whatever label and beside
\* whatever leftovers, it brings the day to what the device's punches say.
RegenerateRepairs ==
    [][Regenerate /\ ManualRows(logs) = {}
       /\ {l.at : l \in Classify(pressed, auth)} \subseteq LogTimes(logs)
         => DayLogs(logs') = DayLogs(Classify(pressed, auth))]_vars

\* With a listener that misses nothing and no manual entry or overtime, the
\* logs captured one punch at a time give the day the same IN and OUT times
\* as classifying all of its punches in one batch.
LiveAgreesWithBatch ==
    stream = {} => DayLogs(logs) = DayLogs(Classify(pressed, auth))

\* After a sync that read every punch of the day, the day's IN and OUT times
\* are those the classifier gives to the day's punches ("so they agree").
SyncAgreesWithRules ==
    [][SyncTask(TRUE) /\ now < DaySeconds /\ pressed # {}
         => DayLogs(logs') = DayLogs(Classify(pressed, auth))]_vars

\* Authorising overtime credits punches already stored for that window ("so
\* OT accrues immediately if the punches exist").
OvertimeAccruesOnAuthorize ==
    [][\A start \in OTStarts :
         AuthorizeOT(start) /\ IsWorkday
         /\ Labelled(Classify(LogTimes(logs), start), "OT_OUT")
           => tables'.overtime # NoTime]_vars

\* Once the day is over its derived rows end up as the finished day's: the sync
\* task judges every session left open, without anyone having to ask.
EventuallySettled == <>[](tables = ProcessDay(logs, auth, holiday, Latest(Clock)))
=============================================================================
