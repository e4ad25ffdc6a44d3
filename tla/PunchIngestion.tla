---------------------------- MODULE PunchIngestion ----------------------------
(***************************************************************************)
(* Ingestion of one full-timer's workday at the grain of its database      *)
(* statements: the listener and the sync task run ingest_punches side by   *)
(* side with no lock.  Each classifies what it read, stores label after    *)
(* label, notifies for each row it inserted, then runs process_day, a      *)
(* transaction that deletes and re-derives the day's rows.  MySQL runs at  *)
(* READ COMMITTED: a statement sees what is committed when it starts, an   *)
(* insert of a taken unique key fails, and a delete waits for rows another *)
(* open transaction has deleted.  A handler may die between two steps.     *)
(***************************************************************************)
EXTENDS PunchRules, FiniteSets

CONSTANTS
    Clock,      \* the moments of the day the employee may punch at
    Sched,      \* the employee's effective schedule
    Now,        \* the moment the day is judged at
    Listener,   \* the process running attendance_listener
    SyncTasks,  \* the Celery workers that may run sync_attendance_task
    Faults      \* bound: handlers that die half-way, notifications that fail

ASSUME ClockAssumption == Clock \subseteq 0..(DaySeconds - 1) /\ IsFiniteSet(Clock)
ASSUME ScheduleAssumption == Sched \in Schedules /\ OrderedSchedule(Sched) /\ Now \in Nat
ASSUME HandlersAssumption == IsFiniteSet(SyncTasks) /\ Faults \in Nat

Handlers == {Listener} \cup SyncTasks

VARIABLES
    pressed,   \* punches in the unit's memory
    stream,    \* punches the listener has not ingested yet
    rows,      \* AttendanceLog rows of the day, with their primary keys
    notified,  \* primary keys of the rows that have a Notification
    derived,   \* committed Lates, Undertime, Absence and Overtime rows of the day
    task,      \* what each handler is doing
    alone,     \* history: handlers nobody disturbed in their present stage
    disturbed, \* history: no process_day ran undisturbed since the last overlap or death
    faults     \* deaths and failed notifications so far

vars == <<pressed, stream, rows, notified, derived, task, alone, disturbed, faults>>

Row(pk, l) == [pk |-> pk, at |-> l.at, type |-> l.type]
Ledger(R) == {Label(r.type, r.at) : r \in R}
LogTimes(R) == {r.at : r \in R}

\* A derived row, and the unique key its table has besides employee and date.
Derived(kind, session, minutes) == [kind |-> kind, session |-> session, minutes |-> minutes]
Key(d) == <<IF d.kind \in Reasons THEN "absent" ELSE d.kind, d.session>>
Keys(D) == {Key(d) : d \in D}

\* What process_day inserts for a day with these logs.
Derive(labels) ==
    LET t == ProcessFulltime(DayLogs(labels), Sched, NoTime, Now)
    IN  {Derived("late", s, t.late[s]) : s \in {x \in Sessions : t.late[x] > 0}}
        \cup {Derived("under", s, t.under[s]) : s \in {x \in Sessions : t.under[x] > 0}}
        \cup {Derived(t.absent[s], s, 0) : s \in {x \in Sessions : t.absent[x] # NotAbsent}}

\* storing: labels still to be stored; found: a label looked up, with the row
\* to re-label (0: none); created: a row inserted, its notification not yet
\* created; again: the daily pass to come; judging: inside process_day.
Phases == {"idle", "storing", "found", "created", "again", "judging"}
Idle == [phase |-> "idle", base |-> {}, wanted |-> {}, labels |-> {}, pk |-> 0, rounds |-> 0,
         snapshot |-> {}, deleted |-> {}]

LabelSet == [type: LogTypes, at: Clock]
RowSet == [pk: Nat, at: Clock, type: LogTypes]
DerivedSet == [kind: {"late", "under"} \cup Reasons, session: Sessions, minutes: Nat]

TypeOK ==
    /\ stream \subseteq pressed /\ pressed \subseteq Clock
    /\ rows \subseteq RowSet
    /\ notified \subseteq {r.pk : r \in rows}
    /\ derived \subseteq DerivedSet
    /\ \A h \in Handlers :
          /\ task[h].phase \in Phases
          /\ task[h].base \subseteq LabelSet /\ task[h].snapshot \subseteq LabelSet
          /\ task[h].labels \subseteq task[h].wanted /\ task[h].wanted \subseteq LabelSet
          /\ task[h].pk \in Nat /\ task[h].rounds \in 0..2
          /\ task[h].deleted \subseteq derived
    /\ alone \subseteq Handlers /\ disturbed \in BOOLEAN /\ faults \in 0..Faults

Init ==
    /\ pressed = {} /\ stream = {} /\ rows = {} /\ notified = {} /\ derived = {}
    /\ task = [h \in Handlers |-> Idle]
    /\ alone = {} /\ disturbed = TRUE /\ faults = 0

----------------------------------------------------------------------------
(* Starting.                                                               *)

\* The employee punches; the listener may or may not be told.
Press(t, heard) ==
    /\ \A u \in pressed : u < t
    /\ pressed' = pressed \cup {t}
    /\ stream' = IF heard THEN stream \cup {t} ELSE stream
    /\ UNCHANGED <<rows, notified, derived, task, alone, disturbed, faults>>

\* ingest_punches reads the stored times and classifies the whole day; rounds
\* is how often the handler will run process_day on it.
Begin(h, batch, rounds) ==
    LET labels == ClassifyDay(batch \cup LogTimes(rows), TRUE, Sched, NoTime)
    IN  /\ task[h].phase = "idle"
        /\ task' = [task EXCEPT ![h] = [Idle EXCEPT !.phase = "storing", !.base = Ledger(rows),
                                           !.wanted = labels, !.labels = labels,
                                           !.rounds = rounds]]
        /\ alone' = alone \cup {h}
        /\ UNCHANGED <<pressed, rows, notified, derived, disturbed, faults>>

ListenerBegin ==
    /\ stream # {}
    /\ Begin(Listener, {Earliest(stream)}, 1)
    /\ stream' = stream \ {Earliest(stream)}

\* Seeded fault: a sync that finds nothing new does nothing.
SyncBeginOnlyNew(h) ==
    /\ pressed \ LogTimes(rows) # {}
    /\ Begin(h, pressed, 2)
    /\ UNCHANGED stream

\* sync_attendance_task: everything the unit still holds of the last day, then
\* the daily pass over today.
SyncBegin(h) ==
    /\ Begin(h, pressed, IF pressed = {} THEN 1 ELSE 2)
    /\ UNCHANGED stream

----------------------------------------------------------------------------
(* Storing the labels, one after the other (_store_log).                   *)

Current(h) == CHOOSE l \in task[h].labels : \A k \in task[h].labels : l.at <= k.at
Without(h) == task[h].labels \ {Current(h)}

\* Seeded fault: the lookup forgets the instant.
SameInstantWholeDay(label) == rows

SameInstant(label) == {r \in rows : r.at = label.at}

\* The reads: is the label's own row there, is there a row to re-label?
Look(h) ==
    LET same == SameInstant(Current(h))
    IN  /\ task[h].phase = "storing" /\ task[h].labels # {}
        /\ \E pk \in IF \E r \in same : r.type = Current(h).type THEN {0}
                     ELSE IF same = {} THEN {0} ELSE {r.pk : r \in same} :
              task' = [task EXCEPT ![h].phase = "found", ![h].pk = pk]
        /\ UNCHANGED <<pressed, stream, rows, notified, derived, alone, disturbed, faults>>

Undisturbed(h) == alone \cap {h}

\* Seeded fault: a changed meaning is stored as a second row.
RelabelAddsRow(h) ==
    /\ task[h].phase = "found" /\ task[h].pk # 0
    /\ rows' = rows \cup {Row(Cardinality(rows) + 1, Current(h))}
    /\ alone' = Undisturbed(h)
    /\ task' = [task EXCEPT ![h].phase = "storing", ![h].labels = Without(h), ![h].pk = 0]
    /\ UNCHANGED <<pressed, stream, notified, derived, disturbed, faults>>

\* Re-label the row found, under its primary key; another row that has taken
\* the unique key meanwhile makes the update fail, and the label is skipped.
Relabel(h) ==
    LET label == Current(h)
        taken == \E r \in rows : r.pk # task[h].pk /\ r.at = label.at /\ r.type = label.type
        rowsAfter == {r \in rows : r.pk # task[h].pk}
                     \cup {[r EXCEPT !.type = label.type] : r \in {s \in rows : s.pk = task[h].pk}}
    IN  /\ task[h].phase = "found" /\ task[h].pk # 0
        /\ rows' = IF taken THEN rows ELSE rowsAfter
        /\ alone' = IF rows' = rows THEN alone ELSE Undisturbed(h)
        /\ task' = [task EXCEPT ![h].phase = "storing", ![h].labels = Without(h), ![h].pk = 0]
        /\ UNCHANGED <<pressed, stream, notified, derived, disturbed, faults>>

\* Seeded fault: only the last label of a batch is notified.
GetOrCreateQuiet(h) ==
    LET label == Current(h)
        pk == Cardinality(rows) + 1
        there == \E r \in rows : r.at = label.at /\ r.type = label.type
    IN  /\ task[h].phase = "found" /\ task[h].pk = 0
        /\ rows' = IF there THEN rows ELSE rows \cup {Row(pk, label)}
        /\ alone' = IF there THEN alone ELSE Undisturbed(h)
        /\ task' = IF there \/ Without(h) # {}
                   THEN [task EXCEPT ![h].phase = "storing", ![h].labels = Without(h)]
                   ELSE [task EXCEPT ![h].phase = "created", ![h].labels = Without(h),
                                     ![h].pk = pk]
        /\ UNCHANGED <<pressed, stream, notified, derived, disturbed, faults>>

\* get_or_create: the label's row is there, or it is inserted.
GetOrCreate(h) ==
    LET label == Current(h)
        pk == Cardinality(rows) + 1
        there == \E r \in rows : r.at = label.at /\ r.type = label.type
    IN  /\ task[h].phase = "found" /\ task[h].pk = 0
        /\ rows' = IF there THEN rows ELSE rows \cup {Row(pk, label)}
        /\ alone' = IF there THEN alone ELSE Undisturbed(h)
        /\ task' = IF there
                   THEN [task EXCEPT ![h].phase = "storing", ![h].labels = Without(h)]
                   ELSE [task EXCEPT ![h].phase = "created", ![h].labels = Without(h),
                                     ![h].pk = pk]
        /\ UNCHANGED <<pressed, stream, notified, derived, disturbed, faults>>

\* _notify_for_new_log, in its own transaction after the row's.
Notify(h) ==
    /\ task[h].phase = "created"
    /\ notified' = notified \cup {task[h].pk}
    /\ task' = [task EXCEPT ![h].phase = "storing", ![h].pk = 0]
    /\ UNCHANGED <<pressed, stream, rows, derived, alone, disturbed, faults>>

\* An exception while notifying is logged and swallowed.
NotifyFails(h) ==
    /\ task[h].phase = "created" /\ faults < Faults
    /\ faults' = faults + 1
    /\ task' = [task EXCEPT ![h].phase = "storing", ![h].pk = 0]
    /\ UNCHANGED <<pressed, stream, rows, notified, derived, alone, disturbed>>

----------------------------------------------------------------------------
(* process_day.                                                            *)

Judging == {h \in Handlers : task[h].phase = "judging"}

ReadyToJudge(h) == task[h].phase = "again" \/ (task[h].phase = "storing" /\ task[h].labels = {})

\* Seeded fault: the day is judged from the logs read when it was classified.
StartDayFromBase(h) ==
    /\ ReadyToJudge(h)
    /\ \A k \in Judging : task[k].deleted = {}
    /\ task' = [task EXCEPT ![h].phase = "judging", ![h].snapshot = task[h].base,
                            ![h].deleted = derived]
    /\ alone' = IF Judging = {} THEN alone \cup {h} ELSE alone \ (Judging \cup {h})
    /\ UNCHANGED <<pressed, stream, rows, notified, derived, disturbed, faults>>

\* Seeded fault: the deletes do not wait for another transaction's.
StartDayUnlocked(h) ==
    /\ ReadyToJudge(h)
    /\ task' = [task EXCEPT ![h].phase = "judging", ![h].snapshot = Ledger(rows),
                            ![h].deleted = derived]
    /\ alone' = IF Judging = {} THEN alone \cup {h} ELSE alone \ (Judging \cup {h})
    /\ UNCHANGED <<pressed, stream, rows, notified, derived, disturbed, faults>>

\* The deletes, then the read of the day's logs.
StartDay(h) ==
    /\ ReadyToJudge(h)
    /\ \A k \in Judging : task[k].deleted = {}
    /\ task' = [task EXCEPT ![h].phase = "judging", ![h].snapshot = Ledger(rows),
                            ![h].deleted = derived]
    /\ alone' = IF Judging = {} THEN alone \cup {h} ELSE alone \ (Judging \cup {h})
    /\ UNCHANGED <<pressed, stream, rows, notified, derived, disturbed, faults>>

\* An insert waits while another open transaction has deleted a row of its key.
Waits(h) ==
    \E k \in Judging \ {h} : Keys(task[k].deleted) \cap Keys(Derive(task[h].snapshot)) # {}

Clashes(h) == Keys(derived \ task[h].deleted) \cap Keys(Derive(task[h].snapshot)) # {}

\* The inserts and the commit; the sync task goes on to its daily pass.
CommitDay(h) ==
    /\ task[h].phase = "judging" /\ ~Waits(h) /\ ~Clashes(h)
    /\ derived' = (derived \ task[h].deleted) \cup Derive(task[h].snapshot)
    /\ task' = [task EXCEPT ![h] = IF task[h].rounds = 2
                                   THEN [Idle EXCEPT !.phase = "again", !.rounds = 1] ELSE Idle]
    /\ alone' = alone \ {h}
    /\ disturbed' = (h \notin alone)
    /\ UNCHANGED <<pressed, stream, rows, notified, faults>>

\* What ending without committing leaves behind: the listener's stream is lost
\* with its connection, an open transaction is rolled back.
Dies(h) ==
    /\ task' = [task EXCEPT ![h] = Idle]
    /\ stream' = IF h = Listener THEN {} ELSE stream
    /\ alone' = alone \ {h}
    /\ disturbed' = TRUE
    /\ UNCHANGED <<pressed, rows, notified, derived>>

\* IntegrityError: a row of that key has been committed since the deletes.
Clash(h) ==
    /\ task[h].phase = "judging" /\ ~Waits(h) /\ Clashes(h)
    /\ Dies(h)
    /\ UNCHANGED faults

Crash(h) ==
    /\ task[h].phase # "idle" /\ faults < Faults
    /\ faults' = faults + 1
    /\ Dies(h)

Step(h) ==
    Look(h) \/ Relabel(h) \/ GetOrCreate(h) \/ Notify(h) \/ StartDay(h) \/ CommitDay(h) \/ Clash(h)

Next ==
    \/ \E t \in Clock, heard \in BOOLEAN : Press(t, heard)
    \/ ListenerBegin
    \/ \E h \in SyncTasks : SyncBegin(h)
    \/ \E h \in Handlers : Step(h) \/ NotifyFails(h) \/ Crash(h)

Spec == Init /\ [][Next]_vars

\* Beat keeps starting the sync task, and a process that runs takes its steps.
FairSpec ==
    /\ Spec
    /\ WF_vars(ListenerBegin)
    /\ \A h \in SyncTasks : WF_vars(SyncBegin(h))
    /\ \A h \in Handlers : WF_vars(Step(h))

----------------------------------------------------------------------------
(* Properties.                                                             *)

Consistent == derived = Derive(Ledger(rows))

\* Every inconsistency has a cause and a cure: once nothing is running, the
\* derived rows follow the log unless handlers overlapped or one died since
\* process_day last ran undisturbed.
OneCleanRunHeals == (\A h \in Handlers : task[h].phase = "idle") /\ ~disturbed => Consistent

\* No race loses a punch: when a handler comes to judge the day, every instant
\* it classified is in the log, whoever stored it and under whatever label.
BatchIsStored ==
    \A h \in Handlers : ReadyToJudge(h) \/ task[h].phase = "judging"
        => {l.at : l \in task[h].wanted} \subseteq LogTimes(rows)

\* A punch notification can only be lost with the process that stored the row,
\* or by failing: there is no more than one missing for each fault.
EachFaultLosesOneNotification ==
    Cardinality({r \in rows : r.pk \notin notified})
        <= faults + Cardinality({h \in Handlers : task[h].phase = "created"})

\* The ledger module's atomic step.
Atomic == INSTANCE AttendanceDay WITH
    IsFulltime <- TRUE, IsWorkday <- TRUE, OTStarts <- {}, Holidays <- {},
    BridgingRequired <- FALSE, ManualTypes <- {}, LossyListener <- TRUE,
    now <- 0, logs <- {}, auth <- NoTime, holiday <- [on |-> FALSE, required |-> {}],
    tables <- NoRows, absencePush <- {}, finalized <- FALSE

AsLogs(labels) == {Atomic!Log(l.at, l.type, "DEVICE") : l \in labels}
LogsAt(labels, t) == AsLogs({l \in labels : l.at = t})

\* AttendanceDay's ingestion is what really happens between two handlers that
\* do not overlap: each instant's rows become what storing the label of that
\* instant may make of them, and an instant without a label keeps its rows.
AloneIsAtomic ==
    \A h \in alone : task[h].phase = "storing" /\ task[h].labels = {} =>
        \A t \in Clock :
            LET before == LogsAt(task[h].base, t)
                after == LogsAt(Ledger(rows), t)
                mine == {l \in task[h].wanted : l.at = t}
            IN  IF mine = {} THEN after = before
                ELSE \E l \in mine : after \in Atomic!StoreOutcomes(before, l)

\* However often handlers overlapped or died, the running sync task ends up
\* with derived rows that follow the log.
EventuallyConsistent == <>[]Consistent
=============================================================================
