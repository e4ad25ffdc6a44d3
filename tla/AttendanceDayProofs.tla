------------------------- MODULE AttendanceDayProofs -------------------------
(***************************************************************************)
(* Theorems about one employee-day, for every clock, schedule, set of      *)
(* overtime starts and holiday settings: TypeOK and the safety properties  *)
(* of AttendanceDay.  The argument is an invariant proof on top of what    *)
(* PunchRulesProofs says of the classifier: labels are injective on        *)
(* instants, so storing them one by one keeps one device row per instant.  *)
(* The last parts show that regeneration repairs a day, and that live      *)
(* capture and sync come to the times one classification gives.            *)
(***************************************************************************)
EXTENDS AttendanceDay, PunchRulesProofs

Horizon == 2 * DaySeconds - 1

LEMMA ClockBounds == Horizon \in Nat /\ Clock \subseteq 0..Horizon /\ Clock \subseteq Int
<1>1. DaySeconds = 86400
  BY DEF DaySeconds
<1>2. Horizon = 172799
  BY <1>1 DEF Horizon
<1>3. Clock \subseteq 0..Horizon
  BY ClockAssumption DEF Horizon
<1>4. Horizon \in Nat
  BY <1>2
<1>5. Clock \subseteq Int
  <2>1. \A t \in 0..Horizon : t \in Int
    OBVIOUS
  <2>2. QED
    BY <1>3, <2>1
<1>6. QED
  BY <1>3, <1>4, <1>5

LEMMA AuthorizationType == OTStarts \cup {NoTime} \subseteq Nat \cup {NoTime}
<1>1. DaySeconds = 86400
  BY DEF DaySeconds
<1>2. 0..(DaySeconds - 1) \subseteq Nat
  BY <1>1
<1>3. OTStarts \subseteq Nat
  BY <1>2, OTStartsAssumption
<1>4. QED
  BY <1>3

\* What the classifier says of stored and new punches is well labelled.
LEMMA ClassifyLabels ==
    ASSUME NEW times, times \subseteq Clock, NEW otStart
    PROVE  WellLabelled(Classify(times, otStart), times)
<1>1. times \subseteq 0..Horizon
  BY ClockBounds
<1>2. QED
  BY <1>1, ClockBounds, ClassifyDayLabels DEF Classify

\* Punches without a meaning do not matter to those that have one.
LEMMA ClassifyIgnoresUnused ==
    ASSUME NEW S, S \subseteq Clock, NEW T, T \subseteq S, NEW otStart,
           Within(Classify(S, otStart), T)
    PROVE  Classify(T, otStart) = Classify(S, otStart)
<1>1. Punches(S)
  BY ClockBounds DEF Punches
<1>2. IsSchedule(Sched)
  BY ScheduleAssumption DEF IsSchedule
<1>3. Within(ClassifyDay(S, IsFulltime, Sched, otStart), T)
  BY DEF Classify
<1>4. ClassifyDay(T, IsFulltime, Sched, otStart) = ClassifyDay(S, IsFulltime, Sched, otStart)
  BY <1>1, <1>2, <1>3, UnusedPunchesDoNotMatter
<1>5. QED
  BY <1>4 DEF Classify

LEMMA LogFields ==
    ASSUME NEW at, NEW type, NEW source
    PROVE  /\ Log(at, type, source).at = at
           /\ Log(at, type, source).type = type
           /\ Log(at, type, source).source = source
BY DEF Log

\* Rows are determined by their fields.
LEMMA LogRowsRecord ==
    ASSUME NEW r \in LogRows
    PROVE  /\ r.at \in Clock /\ r.type \in LogTypes /\ r.source \in Sources
           /\ r = Log(r.at, r.type, r.source)
BY DEF LogRows, Log

LEMMA LogIsRow ==
    ASSUME NEW at \in Clock, NEW type \in LogTypes, NEW source \in Sources
    PROVE  Log(at, type, source) \in LogRows
BY DEF Log, LogRows

----------------------------------------------------------------------------
(* Storing labels.                                                         *)

\* What _store_log does to the rows of one instant: nothing, one device row
\* re-labelled, or a device row added where there was none.
LEMMA StoreLogCases ==
    ASSUME NEW rows, rows \subseteq LogRows, NEW l, l.at \in Clock, l.type \in LogTypes
    PROVE  \/ StoreLog(rows, l) = rows
           \/ \E stale \in DeviceRows(RowsAt(rows, l.at)) :
                 StoreLog(rows, l) = (rows \ {stale}) \cup {Log(l.at, l.type, stale.source)}
           \/ /\ DeviceRows(RowsAt(rows, l.at)) = {}
              /\ StoreLog(rows, l) = rows \cup {Log(l.at, l.type, "DEVICE")}
<1> DEFINE same == DeviceRows(RowsAt(rows, l.at))
           taken == \E r \in RowsAt(rows, l.at) : r.type = l.type
           outcomes == StoreOutcomes(rows, l)
<1>1. CASE taken
  <2>1. outcomes = {rows}
    BY <1>1 DEF StoreOutcomes
  <2>2. QED
    BY <2>1 DEF StoreLog
<1>2. CASE ~taken /\ same # {}
  <2>1. outcomes = {(rows \ {stale}) \cup {[stale EXCEPT !.type = l.type]} : stale \in same}
    BY <1>2 DEF StoreOutcomes
  <2>2. StoreLog(rows, l) \in outcomes
    BY <1>2, <2>1 DEF StoreLog
  <2>3. PICK stale \in same :
          StoreLog(rows, l) = (rows \ {stale}) \cup {[stale EXCEPT !.type = l.type]}
    BY <2>1, <2>2
  <2>4. stale \in LogRows /\ stale.at = l.at
    BY DEF DeviceRows, RowsAt
  <2>5. [stale EXCEPT !.type = l.type] = Log(l.at, l.type, stale.source)
    BY <2>4 DEF LogRows, Log
  <2>6. QED
    BY <2>3, <2>5
<1>3. CASE ~taken /\ same = {}
  <2>1. outcomes = {rows \cup {Log(l.at, l.type, "DEVICE")}}
    BY <1>3 DEF StoreOutcomes
  <2>2. QED
    BY <1>3, <2>1 DEF StoreLog
<1>4. QED
  BY <1>1, <1>2, <1>3

LEMMA StoreLogRows ==
    ASSUME NEW rows, rows \subseteq LogRows, NEW l, l.at \in Clock, l.type \in LogTypes,
           \A r \in rows : r.at = l.at
    PROVE  /\ StoreLog(rows, l) \subseteq LogRows
           /\ \A r \in StoreLog(rows, l) : r.at = l.at
           /\ ManualRows(rows) \subseteq StoreLog(rows, l)
<1>1. CASE StoreLog(rows, l) = rows
  BY <1>1 DEF ManualRows
<1>2. ASSUME NEW stale \in DeviceRows(RowsAt(rows, l.at)),
             StoreLog(rows, l) = (rows \ {stale}) \cup {Log(l.at, l.type, stale.source)}
      PROVE  /\ StoreLog(rows, l) \subseteq LogRows
             /\ \A r \in StoreLog(rows, l) : r.at = l.at
             /\ ManualRows(rows) \subseteq StoreLog(rows, l)
  <2>1. stale \in LogRows /\ stale.source # "MANUAL"
    BY DEF DeviceRows, RowsAt
  <2>2. Log(l.at, l.type, stale.source) \in LogRows
    BY <2>1, LogIsRow, LogRowsRecord
  <2>3. QED
    BY <1>2, <2>1, <2>2, LogFields DEF ManualRows
<1>3. CASE StoreLog(rows, l) = rows \cup {Log(l.at, l.type, "DEVICE")}
  <2>1. Log(l.at, l.type, "DEVICE") \in LogRows
    BY LogIsRow DEF Sources
  <2>2. QED
    BY <1>3, <2>1, LogFields DEF ManualRows
<1>4. QED
  BY <1>1, <1>2, <1>3, StoreLogCases

OneDeviceRow(rows) == \A r, u \in DeviceRows(rows) : r.at = u.at => r = u

LEMMA StoreLogOneDeviceRow ==
    ASSUME NEW rows, rows \subseteq LogRows, NEW l, l.at \in Clock, l.type \in LogTypes,
           \A r \in rows : r.at = l.at, OneDeviceRow(rows)
    PROVE  OneDeviceRow(StoreLog(rows, l))
<1>0. RowsAt(rows, l.at) = rows
  BY DEF RowsAt
<1>1. CASE StoreLog(rows, l) = rows
  BY <1>1
<1>2. ASSUME NEW stale \in DeviceRows(rows),
             StoreLog(rows, l) = (rows \ {stale}) \cup {Log(l.at, l.type, stale.source)}
      PROVE  OneDeviceRow(StoreLog(rows, l))
  <2>1. \A r \in DeviceRows(rows) : r = stale
    BY DEF OneDeviceRow, DeviceRows
  <2>2. \A r \in DeviceRows(StoreLog(rows, l)) : r = Log(l.at, l.type, stale.source)
    BY <1>2, <2>1 DEF DeviceRows
  <2>3. QED
    BY <2>2 DEF OneDeviceRow
<1>3. CASE /\ DeviceRows(rows) = {}
           /\ StoreLog(rows, l) = rows \cup {Log(l.at, l.type, "DEVICE")}
  <2>1. \A r \in DeviceRows(StoreLog(rows, l)) : r = Log(l.at, l.type, "DEVICE")
    BY <1>3 DEF DeviceRows
  <2>2. QED
    BY <2>1 DEF OneDeviceRow
<1>4. QED
  BY <1>0, <1>1, <1>2, <1>3, StoreLogCases

\* Storing a whole classification keeps rows well formed and manual rows as
\* they are.
LEMMA StoreAllRows ==
    ASSUME NEW rows, rows \subseteq LogRows, NEW labels, NEW T, T \subseteq Clock,
           WellLabelled(labels, T)
    PROVE  /\ StoreAll(rows, labels) \subseteq LogRows
           /\ ManualRows(rows) \subseteq ManualRows(StoreAll(rows, labels))
<1>1. ASSUME NEW l \in labels
      PROVE  /\ StoreLog(RowsAt(rows, l.at), l) \subseteq LogRows
             /\ ManualRows(RowsAt(rows, l.at)) \subseteq StoreLog(RowsAt(rows, l.at), l)
  <2>1. l.at \in Clock /\ l.type \in LogTypes
    BY DEF WellLabelled
  <2>2. RowsAt(rows, l.at) \subseteq LogRows /\ \A r \in RowsAt(rows, l.at) : r.at = l.at
    BY DEF RowsAt
  <2>3. QED
    BY <2>1, <2>2, StoreLogRows
<1>2. StoreAll(rows, labels) \subseteq LogRows
  BY <1>1 DEF StoreAll
<1>3. ASSUME NEW r \in ManualRows(rows)
      PROVE  r \in StoreAll(rows, labels)
  <2>1. CASE \A l \in labels : l.at # r.at
    BY <2>1 DEF StoreAll, ManualRows
  <2>2. CASE \E l \in labels : l.at = r.at
    <3>1. PICK l \in labels : l.at = r.at
      BY <2>2
    <3>2. r \in ManualRows(RowsAt(rows, l.at))
      BY <3>1 DEF ManualRows, RowsAt
    <3>3. QED
      BY <1>1, <3>2 DEF StoreAll
  <2>3. QED
    BY <2>1, <2>2
<1>4. QED
  BY <1>2, <1>3 DEF ManualRows

\* Storing a whole classification keeps one device row per instant.
LEMMA StoreAllOneDeviceRow ==
    ASSUME NEW rows, rows \subseteq LogRows, NEW labels, NEW T, T \subseteq Clock,
           WellLabelled(labels, T), OneDeviceRow(rows)
    PROVE  OneDeviceRow(StoreAll(rows, labels))
<1> DEFINE others == {r \in rows : \A l \in labels : l.at # r.at}
           stored(l) == StoreLog(RowsAt(rows, l.at), l)
<1>1. ASSUME NEW l \in labels
      PROVE  OneDeviceRow(stored(l)) /\ \A r \in stored(l) : r.at = l.at
  <2>1. l.at \in Clock /\ l.type \in LogTypes
    BY DEF WellLabelled
  <2>2. RowsAt(rows, l.at) \subseteq LogRows /\ \A r \in RowsAt(rows, l.at) : r.at = l.at
    BY DEF RowsAt
  <2>3. OneDeviceRow(RowsAt(rows, l.at))
    BY DEF OneDeviceRow, RowsAt, DeviceRows
  <2>4. QED
    BY <2>1, <2>2, <2>3, StoreLogRows, StoreLogOneDeviceRow
<1>2. OneDeviceRow(others)
  BY DEF OneDeviceRow, DeviceRows
<1>3. \A l, k \in labels : l.at = k.at => l = k
  BY DEF WellLabelled
<1>4. \A r \in StoreAll(rows, labels) : r \in others \/ \E l \in labels : r \in stored(l)
  BY DEF StoreAll
<1> HIDE DEF stored
<1>5. SUFFICES ASSUME NEW r \in DeviceRows(StoreAll(rows, labels)),
                      NEW u \in DeviceRows(StoreAll(rows, labels)), r.at = u.at
               PROVE  r = u
  BY DEF OneDeviceRow
<1>6. r.source # "MANUAL" /\ u.source # "MANUAL"
  BY DEF DeviceRows
<1>7. CASE r \in others
  <2>1. u \in others
    BY <1>1, <1>4, <1>5, <1>7 DEF DeviceRows
  <2>2. QED
    BY <1>2, <1>5, <1>6, <1>7, <2>1 DEF OneDeviceRow, DeviceRows
<1>8. CASE \E l \in labels : r \in stored(l)
  <2>1. PICK l \in labels : r \in stored(l)
    BY <1>8
  <2>2. u \in stored(l)
    BY <1>1, <1>3, <1>4, <1>5, <2>1 DEF DeviceRows
  <2>3. QED
    BY <1>1, <1>5, <1>6, <2>1, <2>2 DEF OneDeviceRow, DeviceRows
<1>9. QED
  BY <1>4, <1>7, <1>8 DEF DeviceRows

----------------------------------------------------------------------------
(* Typing.                                                                 *)

LEMMA NoRowsType == NoRows \in Tables
<1>1. NotAbsent \in Reasons \cup {NotAbsent} /\ NoTime \in Nat \cup {NoTime} /\ 0 \in Nat
  OBVIOUS
<1>2. QED
  BY <1>1 DEF NoRows, Tables

LEMMA ProcessDayType ==
    ASSUME NEW rows, rows \subseteq LogRows, NEW otStart \in Nat \cup {NoTime},
           NEW hol, NEW t \in Clock \cup {0}
    PROVE  ProcessDay(rows, otStart, hol, t) \in Tables
<1>1. \A r \in rows : r.at \in 0..Horizon
  BY ClockBounds, LogRowsRecord
<1>2. DayLogs(rows) \in [LogTypes -> (0..Horizon) \cup {NoTime}]
  BY <1>1, ClockBounds, DayLogsType
<1>3. t \in Nat
  BY ClockBounds
<1>4. Sched \in Schedules
  BY ScheduleAssumption
<1>5. /\ ProcessFulltime(DayLogs(rows), Sched, otStart, t) \in Tables
      /\ [NoRows EXCEPT !.overtime = ComputeOvertime(DayLogs(rows), otStart)] \in Tables
  BY <1>2, <1>3, <1>4, ClockBounds, ProcessFulltimeType
<1>6. QED
  BY <1>5, NoRowsType DEF ProcessDay

LEMMA AbsencesOfType ==
    ASSUME NEW t \in Tables
    PROVE  AbsencesOf(t) \subseteq Sessions \X Reasons
BY DEF AbsencesOf, Tables

\* The next moment of the clock is one of its moments, and is later.
LEMMA NextMoment ==
    ASSUME now \in Clock, \E t \in Clock : t > now
    PROVE  /\ Earliest({t \in Clock : t > now}) \in Clock
           /\ Earliest({t \in Clock : t > now}) > now
<1> DEFINE later == {t \in Clock : t > now}
<1>1. later \subseteq 0..Horizon /\ later # {}
  BY ClockBounds
<1>2. Earliest(later) \in later
  BY <1>1, ClockBounds, EarliestLatest
<1>3. QED
  BY <1>2

\* Ingesting punches of the day keeps the stored rows well formed.
LEMMA IngestedType ==
    ASSUME TypeOK, NEW times, times \subseteq Clock
    PROVE  /\ Ingested(times) \subseteq LogRows
           /\ ManualRows(logs) \subseteq ManualRows(Ingested(times))
           /\ OneDeviceRow(logs) => OneDeviceRow(Ingested(times))
<1>1. LogTimes(logs) \subseteq Clock
  BY LogRowsRecord DEF TypeOK, LogTimes
<1>2. times \cup LogTimes(logs) \subseteq Clock
  BY <1>1
<1>3. WellLabelled(Classify(times \cup LogTimes(logs), auth), times \cup LogTimes(logs))
  BY <1>2, ClassifyLabels
<1>4. QED
  BY <1>2, <1>3, StoreAllRows, StoreAllOneDeviceRow DEF Ingested, TypeOK

\* Re-classifying the stored rows keeps them well formed.
LEMMA ReclassifiedType ==
    ASSUME TypeOK
    PROVE  /\ Reclassified(logs) \subseteq LogRows
           /\ ManualRows(logs) \subseteq ManualRows(Reclassified(logs))
           /\ OneDeviceRow(logs) => OneDeviceRow(Reclassified(logs))
<1> DEFINE wanted == Classify(LogTimes(logs), auth)
           kept == {l \in wanted :
                       /\ \E r \in DeviceRows(logs) : r.at = l.at
                       /\ ~\E r \in ManualRows(logs) : r.at = l.at /\ r.type = l.type}
           device == {Log(l.at, l.type, "DEVICE") : l \in kept}
<1>1. CASE DeviceRows(logs) = {}
  BY <1>1 DEF Reclassified, TypeOK, ManualRows
<1>2. CASE DeviceRows(logs) # {}
  <2>1. LogTimes(logs) \subseteq Clock
    BY LogRowsRecord DEF TypeOK, LogTimes
  <2>2. WellLabelled(wanted, LogTimes(logs))
    BY <2>1, ClassifyLabels
  <2>3. \A l \in wanted : l.at \in Clock /\ l.type \in LogTypes
    BY <2>1, <2>2 DEF WellLabelled
  <2>4. \A l, k \in wanted : l.at = k.at => l = k
    BY <2>2 DEF WellLabelled
  <2>5. Reclassified(logs) = ManualRows(logs) \cup device
    BY <1>2 DEF Reclassified
  <2> HIDE DEF wanted
  <2>6. device \subseteq LogRows
    BY <2>3, LogIsRow DEF Sources
  <2>7. ManualRows(logs) \subseteq LogRows
    BY DEF ManualRows, TypeOK
  <2>8. OneDeviceRow(ManualRows(logs) \cup device)
    <3>1. \A r \in DeviceRows(ManualRows(logs) \cup device) :
            \E l \in wanted : r = Log(l.at, l.type, "DEVICE")
      BY DEF DeviceRows, ManualRows
    <3>2. QED
      BY <2>4, <3>1, LogFields DEF OneDeviceRow
  <2>9. QED
    BY <2>5, <2>6, <2>7, <2>8 DEF ManualRows
<1>3. QED
  BY <1>1, <1>2

\* The rows a manual entry leaves.
LEMMA ManualPunchType ==
    ASSUME TypeOK, NEW type \in ManualTypes, ManualPunch(type)
    PROVE  /\ logs' \subseteq LogRows
           /\ ManualRows(logs) \subseteq ManualRows(logs')
           /\ DeviceRows(logs') \subseteq DeviceRows(logs)
<1>1. logs' = {r \in logs : ~(r.at = now /\ r.type = type)} \cup {Log(now, type, "MANUAL")}
  BY DEF ManualPunch
<1>2. Log(now, type, "MANUAL") \in LogRows
  BY ManualTypesAssumption, LogIsRow DEF TypeOK, Sources
<1>3. logs' \subseteq LogRows
  BY <1>1, <1>2 DEF TypeOK
<1>4. ASSUME NEW r \in ManualRows(logs) PROVE r \in logs'
  <2>1. r = Log(r.at, r.type, "MANUAL")
    BY LogRowsRecord DEF ManualRows, TypeOK
  <2>2. QED
    BY <1>1, <2>1 DEF ManualRows
<1>5. DeviceRows(logs') \subseteq DeviceRows(logs)
  BY <1>1, LogFields DEF DeviceRows
<1>6. QED
  BY <1>3, <1>4, <1>5 DEF ManualRows

\* Every handler that recomputes the day leaves well-formed derived rows.
LEMMA TablesType ==
    ASSUME TypeOK, NEW rows, rows \subseteq LogRows,
           NEW start \in OTStarts \cup {NoTime}, NEW hol
    PROVE  ProcessDay(rows, start, hol, now) \in Tables
<1>1. start \in Nat \cup {NoTime}
  BY AuthorizationType
<1>2. QED
  BY <1>1, ProcessDayType DEF TypeOK

LEMMA InitTypeOK == Init => TypeOK
BY NoRowsType DEF Init, TypeOK, LogRows

LEMMA SyncTaskType ==
    ASSUME TypeOK, NEW reached \in BOOLEAN, SyncTask(reached)
    PROVE  /\ logs' \subseteq LogRows
           /\ ManualRows(logs) \subseteq ManualRows(logs')
           /\ OneDeviceRow(logs) => OneDeviceRow(logs')
<1> DEFINE pulled == IF reached THEN {t \in pressed : t >= now - DaySeconds} ELSE {}
<1>1. pulled \subseteq Clock
  BY DEF TypeOK
<1>2. logs' = IF pulled = {} THEN logs ELSE Ingested(pulled)
  BY DEF SyncTask
<1>3. QED
  BY <1>1, <1>2, IngestedType DEF TypeOK

LEMMA ListenerIngestType ==
    ASSUME TypeOK, ListenerIngest
    PROVE  /\ logs' \subseteq LogRows
           /\ ManualRows(logs) \subseteq ManualRows(logs')
           /\ OneDeviceRow(logs) => OneDeviceRow(logs')
<1>1. stream \subseteq 0..Horizon /\ stream # {}
  BY ClockBounds DEF TypeOK, ListenerIngest
<1>2. Earliest(stream) \in stream
  BY <1>1, ClockBounds, EarliestLatest
<1>3. {Earliest(stream)} \subseteq Clock
  BY <1>2 DEF TypeOK
<1>4. logs' = Ingested({Earliest(stream)})
  BY DEF ListenerIngest, Ingest
<1>5. QED
  BY <1>3, <1>4, IngestedType

LEMMA NextTypeOK == TypeOK /\ [Next]_vars => TypeOK'
<1> SUFFICES ASSUME TypeOK, [Next]_vars PROVE TypeOK'
  OBVIOUS
<1>1. CASE Tick
  BY <1>1, NextMoment DEF Tick, TypeOK
<1>2. ASSUME NEW heard \in BOOLEAN, Press(heard) PROVE TypeOK'
  BY <1>2 DEF Press, TypeOK
<1>3. CASE ListenerIngest
  <2>1. tables' = ProcessDay(logs', auth, holiday, now)
    BY <1>3 DEF ListenerIngest, Ingest
  <2>2. logs' \subseteq LogRows
    BY <1>3, ListenerIngestType
  <2>3. tables' \in Tables
    BY <2>1, <2>2, TablesType DEF TypeOK
  <2>4. QED
    BY <1>3, <2>2, <2>3 DEF ListenerIngest, TypeOK
<1>4. CASE ListenerRestart
  BY <1>4 DEF ListenerRestart, TypeOK
<1>5. ASSUME NEW reached \in BOOLEAN, SyncTask(reached) PROVE TypeOK'
  <2>1. logs' \subseteq LogRows
    BY <1>5, SyncTaskType
  <2>2. tables' = ProcessDay(logs', auth, holiday, now) \/ tables' = tables
    BY <1>5 DEF SyncTask
  <2>3. tables' \in Tables
    BY <2>1, <2>2, TablesType DEF TypeOK
  <2>4. absencePush' \subseteq Sessions \X Reasons
    BY <1>5, <2>3, AbsencesOfType DEF SyncTask, TypeOK
  <2>5. finalized' \in BOOLEAN
    BY <1>5 DEF SyncTask, TypeOK
  <2>6. now' = now /\ pressed' = pressed /\ stream' = stream /\ auth' = auth /\ holiday' = holiday
    BY <1>5 DEF SyncTask
  <2>7. QED
    BY <2>1, <2>3, <2>4, <2>5, <2>6 DEF TypeOK
<1>6. ASSUME NEW start \in OTStarts, AuthorizeOT(start) PROVE TypeOK'
  <2>1. tables' = ProcessDay(logs, start, holiday, now) /\ auth' = start
    BY <1>6 DEF AuthorizeOT
  <2>2. tables' \in Tables
    BY <2>1, TablesType DEF TypeOK
  <2>3. QED
    BY <1>6, <2>1, <2>2 DEF AuthorizeOT, TypeOK
<1>7. CASE RevokeOT
  <2>1. tables' = ProcessDay(logs, NoTime, holiday, now) /\ auth' = NoTime
    BY <1>7 DEF RevokeOT
  <2>2. tables' \in Tables
    BY <2>1, TablesType DEF TypeOK
  <2>3. QED
    BY <1>7, <2>1, <2>2 DEF RevokeOT, TypeOK
<1>8. ASSUME NEW hol \in Holidays, SetHoliday(hol) PROVE TypeOK'
  <2>1. tables' = ProcessDay(logs, auth, hol, now)
    BY <1>8 DEF SetHoliday
  <2>2. tables' \in Tables
    BY <2>1, TablesType DEF TypeOK
  <2>3. QED
    BY <1>8, <2>2 DEF SetHoliday, TypeOK
<1>9. ASSUME NEW type \in ManualTypes, ManualPunch(type) PROVE TypeOK'
  <2>1. logs' \subseteq LogRows
    BY <1>9, ManualPunchType
  <2>2. tables' = ProcessDay(logs', auth, holiday, now)
    BY <1>9 DEF ManualPunch
  <2>3. tables' \in Tables
    BY <2>1, <2>2, TablesType DEF TypeOK
  <2>4. QED
    BY <1>9, <2>1, <2>3 DEF ManualPunch, TypeOK
<1>10. CASE Regenerate
  <2>1. logs' \subseteq LogRows
    BY <1>10, ReclassifiedType DEF Regenerate
  <2>2. tables' = ProcessDay(logs', auth, holiday, now) \/ tables' = tables
    BY <1>10 DEF Regenerate
  <2>3. tables' \in Tables
    BY <2>1, <2>2, TablesType DEF TypeOK
  <2>4. QED
    BY <1>10, <2>1, <2>3 DEF Regenerate, TypeOK
<1>11. CASE UNCHANGED vars
  BY <1>11 DEF vars, TypeOK
<1>12. QED
  BY <1>1, <1>2, <1>3, <1>4, <1>5, <1>6, <1>7, <1>8, <1>9, <1>10, <1>11 DEF Next

\* Every row of the ledger, and every row derived from it, is well formed
\* whatever the handlers do: known types, instants of the clock, no negative
\* minutes, a known reason.
THEOREM TypeCorrect == Spec => []TypeOK
<1>1. QED
  BY InitTypeOK, NextTypeOK, PTL DEF Spec

----------------------------------------------------------------------------
(* One device punch is one device row.                                     *)

LEMMA NextOneDeviceRow == TypeOK /\ OneDeviceRow(logs) /\ [Next]_vars => OneDeviceRow(logs')
<1> SUFFICES ASSUME TypeOK, OneDeviceRow(logs), [Next]_vars PROVE OneDeviceRow(logs')
  OBVIOUS
<1>1. CASE ListenerIngest
  BY <1>1, ListenerIngestType
<1>2. ASSUME NEW reached \in BOOLEAN, SyncTask(reached) PROVE OneDeviceRow(logs')
  BY <1>2, SyncTaskType
<1>3. ASSUME NEW type \in ManualTypes, ManualPunch(type) PROVE OneDeviceRow(logs')
  <2>1. DeviceRows(logs') \subseteq DeviceRows(logs)
    BY <1>3, ManualPunchType
  <2>2. QED
    BY <2>1 DEF OneDeviceRow
<1>4. CASE Regenerate
  BY <1>4, ReclassifiedType DEF Regenerate
<1>5. CASE logs' = logs
  BY <1>5
<1>6. \/ ListenerIngest
      \/ \E reached \in BOOLEAN : SyncTask(reached)
      \/ \E type \in ManualTypes : ManualPunch(type)
      \/ Regenerate
      \/ logs' = logs
  BY DEF Next, Tick, Press, ListenerRestart, AuthorizeOT, RevokeOT, SetHoliday, vars
<1>7. QED
  BY <1>1, <1>2, <1>3, <1>4, <1>5, <1>6

\* Live capture, sync, manual entry and regeneration never store one device
\* punch as two device rows, in whatever order they run and however often a
\* punch is read again.
THEOREM OneDeviceRowAlways == Spec => []OneDeviceRowPerInstant
<1>1. Init => OneDeviceRow(logs)
  BY DEF Init, OneDeviceRow, DeviceRows
<1>2. OneDeviceRow(logs) => OneDeviceRowPerInstant
  BY DEF OneDeviceRow, OneDeviceRowPerInstant
<1> DEFINE Inv == OneDeviceRow(logs)
<1>3. Init => Inv
  BY <1>1
<1>4. TypeOK /\ Inv /\ [Next]_vars => Inv'
  BY NextOneDeviceRow
<1>5. Inv => OneDeviceRowPerInstant
  BY <1>2
<1> HIDE DEF Inv
<1>6. QED
  BY <1>3, <1>4, <1>5, TypeCorrect, PTL DEF Spec

\* No handler ever changes or removes a row entered by hand.
THEOREM ManualRowsAreKept == Spec => ManualRowsKept
<1>1. TypeOK /\ [Next]_vars => [ManualRows(logs) \subseteq ManualRows(logs')]_vars
  <2> SUFFICES ASSUME TypeOK, [Next]_vars
               PROVE  ManualRows(logs) \subseteq ManualRows(logs')
    OBVIOUS
  <2>1. \/ ListenerIngest
        \/ \E reached \in BOOLEAN : SyncTask(reached)
        \/ \E type \in ManualTypes : ManualPunch(type)
        \/ Regenerate
        \/ logs' = logs
    BY DEF Next, Tick, Press, ListenerRestart, AuthorizeOT, RevokeOT, SetHoliday, vars
  <2>2. CASE Regenerate
    BY <2>2, ReclassifiedType DEF Regenerate
  <2>3. QED
    BY <2>1, <2>2, ListenerIngestType, SyncTaskType, ManualPunchType
<1>2. QED
  BY <1>1, TypeCorrect, PTL DEF Spec, ManualRowsKept

----------------------------------------------------------------------------
(* The derived rows follow the logs.                                       *)

\* A day without logs or authorisation has no derived rows at midnight.
LEMMA EmptyDay ==
    ASSUME NEW hol
    PROVE  ProcessDay({}, NoTime, hol, 0) = NoRows
<1> DEFINE day == DayLogs({})
<1>1. \A type \in LogTypes : day[type] = NoTime
  BY DEF DayLogs
<1>2. \A s \in Sessions : InType(s) \in LogTypes /\ OutType(s) \in LogTypes
  BY DEF Sessions, InType, OutType, LogTypes, FULLTIME_TYPES
<1>3. "OT_IN" \in LogTypes
  BY DEF LogTypes, FULLTIME_TYPES
<1> HIDE DEF day
<1>4. \A s \in Sessions : ~SessionComplete(day, s)
  BY <1>1, <1>2 DEF SessionComplete, HasIn
<1>5. \A s \in Sessions : 0 < SessionOut(Sched, s)
  BY ScheduleAssumption DEF Schedules, OrderedSchedule, SessionOut
<1>6. \A s \in Sessions : AbsenceOf(day, s, SessionOut(Sched, s), 0) = NotAbsent
  BY <1>5 DEF AbsenceOf, SessionIsOpen
<1>7. ComputeOvertime(day, NoTime) = NoTime
  BY DEF ComputeOvertime
<1>8. ProcessFulltime(day, Sched, NoTime, 0) = NoRows
  BY <1>4, <1>6, <1>7 DEF ProcessFulltime, NoRows
<1>9. [NoRows EXCEPT !.overtime = ComputeOvertime(day, NoTime)] = NoRows
  BY <1>7 DEF NoRows
<1>10. QED
  BY <1>8, <1>9 DEF ProcessDay, day

\* No step takes the clock back.
LEMMA TimeAdvances ==
    ASSUME TypeOK, [Next]_vars
    PROVE  now \in Int /\ now' \in Int /\ now <= now'
<1>1. now \in Clock /\ now \in Int
  BY ClockBounds DEF TypeOK
<1>2. now' = now \/ Tick
  BY DEF Next, Press, ListenerIngest, ListenerRestart, SyncTask, AuthorizeOT, RevokeOT,
         SetHoliday, ManualPunch, Regenerate, vars
<1>3. CASE Tick
  <2>1. now' \in Clock /\ now' > now
    BY <1>1, <1>3, NextMoment DEF Tick
  <2>2. now' \in Int
    BY <2>1, ClockBounds
  <2>3. QED
    BY <1>1, <2>1, <2>2
<1>4. QED
  BY <1>1, <1>2, <1>3

LEMMA NextTablesFollowLogs ==
    TypeOK /\ TablesFollowLogs /\ [Next]_vars => TablesFollowLogs'
<1> SUFFICES ASSUME TypeOK, TablesFollowLogs, [Next]_vars PROVE TablesFollowLogs'
  OBVIOUS
<1>1. now \in Clock /\ now' \in Clock /\ now' \in Int /\ now \in Int /\ now <= now'
  BY NextTypeOK, TimeAdvances DEF TypeOK
<1>2. ASSUME tables' = ProcessDay(logs', auth', holiday', now), now' = now
      PROVE  TablesFollowLogs'
  BY <1>1, <1>2 DEF TablesFollowLogs
<1>3. ASSUME UNCHANGED <<tables, logs, auth, holiday>>
      PROVE  TablesFollowLogs'
  <2>1. PICK t \in {c \in Clock \cup {0} : c <= now} : tables = ProcessDay(logs, auth, holiday, t)
    BY DEF TablesFollowLogs
  <2>2. t \in Int
    BY <2>1, ClockBounds
  <2>3. t <= now'
    BY <1>1, <2>1, <2>2
  <2>4. QED
    BY <1>3, <2>1, <2>3 DEF TablesFollowLogs
<1>4. CASE \/ Tick \/ (\E heard \in BOOLEAN : Press(heard)) \/ ListenerRestart \/ UNCHANGED vars
  BY <1>3, <1>4 DEF Tick, Press, ListenerRestart, vars
<1>5. CASE ListenerIngest
  BY <1>2, <1>5 DEF ListenerIngest, Ingest
<1>6. ASSUME NEW reached \in BOOLEAN, SyncTask(reached) PROVE TablesFollowLogs'
  <2>1. UNCHANGED <<now, auth, holiday>>
    BY <1>6 DEF SyncTask
  <2>2. tables' = ProcessDay(logs', auth, holiday, now) \/ (tables' = tables /\ logs' = logs)
    BY <1>6 DEF SyncTask
  <2>3. QED
    BY <1>2, <1>3, <2>1, <2>2
<1>7. ASSUME NEW start \in OTStarts, AuthorizeOT(start) PROVE TablesFollowLogs'
  BY <1>2, <1>7 DEF AuthorizeOT
<1>8. CASE RevokeOT
  BY <1>2, <1>8 DEF RevokeOT
<1>9. ASSUME NEW hol \in Holidays, SetHoliday(hol) PROVE TablesFollowLogs'
  BY <1>2, <1>9 DEF SetHoliday
<1>10. ASSUME NEW type \in ManualTypes, ManualPunch(type) PROVE TablesFollowLogs'
  BY <1>2, <1>10 DEF ManualPunch
<1>11. CASE Regenerate
  BY <1>2, <1>3, <1>11 DEF Regenerate
<1>12. QED
  BY <1>4, <1>5, <1>6, <1>7, <1>8, <1>9, <1>10, <1>11 DEF Next

\* The Lates, Undertime, Absence and Overtime rows are never stale with
\* respect to the ledger, the authorisation and the holiday: every handler
\* that changes one of them recomputes the day.
THEOREM TablesAlwaysFollowLogs == Spec => []TablesFollowLogs
<1>1. Init => TablesFollowLogs
  <2> SUFFICES ASSUME Init PROVE TablesFollowLogs
    OBVIOUS
  <2>1. tables = ProcessDay(logs, auth, holiday, 0)
    BY EmptyDay DEF Init
  <2>2. 0 <= now
    BY ClockBounds DEF Init
  <2>3. QED
    BY <2>1, <2>2 DEF TablesFollowLogs
<1>2. QED
  BY <1>1, NextTablesFollowLogs, TypeCorrect, PTL DEF Spec

\* What process_day stores of overtime counts from the authorised start, up to
\* a punch of the day.
LEMMA OvertimeFromStart ==
    ASSUME NEW rows, rows \subseteq LogRows, NEW start \in Nat \cup {NoTime},
           LET n == ComputeOvertime(DayLogs(rows), start) IN n # NoTime /\ n > 0
    PROVE  \E t \in LogTimes(rows) : ComputeOvertime(DayLogs(rows), start) * 60 <= t - start
<1> DEFINE day == DayLogs(rows)
           in == day["OT_IN"]
           out == day["OT_OUT"]
           from == IF in < start THEN start ELSE in
<1>1. \A r \in rows : r.at \in 0..Horizon
  BY ClockBounds, LogRowsRecord
<1>2. "OT_IN" \in LogTypes /\ "OT_OUT" \in LogTypes /\ "OT_OUT" \in OutTypes
  BY DEF LogTypes, FULLTIME_TYPES, OutTypes
<1>3. day \in [LogTypes -> (0..Horizon) \cup {NoTime}]
  BY <1>1, ClockBounds, DayLogsType
<1>4. in \in Int /\ out \in Int /\ start \in Int
  BY <1>2, <1>3 DEF NoTime
<1>5. /\ out # NoTime
      /\ ComputeOvertime(day, start) = AtLeastZero((out - from) \div 60)
  BY DEF ComputeOvertime
<1>6. out \in LogTimes(rows)
  <2> DEFINE times == {l.at : l \in {k \in rows : k.type = "OT_OUT"}}
  <2>1. times \subseteq 0..Horizon /\ out = IF times = {} THEN NoTime ELSE Latest(times)
    BY <1>1, <1>2 DEF DayLogs
  <2> HIDE DEF times, out
  <2>2. out \in times
    BY <1>5, <2>1, ClockBounds, EarliestLatest
  <2> QED BY <2>2 DEF times, LogTimes
<1>7. from \in Int /\ from >= start
  BY <1>4
<1> HIDE DEF day, in, out, from
<1>8. (out - from) \div 60 > 0 /\ ComputeOvertime(day, start) = (out - from) \div 60
  <2>1. (out - from) \div 60 \in Int
    BY <1>4, <1>7
  <2> QED BY <1>5, <2>1 DEF AtLeastZero, day
<1>9. ((out - from) \div 60) * 60 <= out - from
  BY <1>4, <1>7
<1>10. ComputeOvertime(day, start) * 60 <= out - start
  <2>1. out - from <= out - start /\ (out - from) \div 60 \in Int
    BY <1>4, <1>7
  <2> QED BY <1>4, <1>7, <1>8, <1>9, <2>1
<1> QED BY <1>6, <1>10 DEF day

\* Overtime is only ever what was worked in the window authorised now, for every
\* clock, schedule and set of starts, however often overtime was revoked and
\* authorised again between punches, sync, manual entry and regeneration: every
\* handler that changes the authorisation recomputes the day, and recomputing
\* counts no minute before the start, even of punches labelled under another.
THEOREM OvertimeStaysInWindow == Spec => []OvertimeWithinWindow
<1>1. TypeOK /\ TablesFollowLogs => OvertimeWithinWindow
  <2> SUFFICES ASSUME TypeOK, TablesFollowLogs, tables.overtime # NoTime
               PROVE  /\ auth # NoTime
                      /\ tables.overtime > 0 =>
                           \E t \in LogTimes(logs) : tables.overtime * 60 <= t - auth
    BY DEF OvertimeWithinWindow
  <2>1. PICK t \in {c \in Clock \cup {0} : c <= now} :
                tables = ProcessDay(logs, auth, holiday, t)
    BY DEF TablesFollowLogs
  <2>2. /\ NoRows.overtime = NoTime
        /\ \A n : [NoRows EXCEPT !.overtime = n].overtime = n
        /\ ProcessFulltime(DayLogs(logs), Sched, auth, t).overtime
             = ComputeOvertime(DayLogs(logs), auth)
    BY DEF NoRows, ProcessFulltime
  <2>3. tables.overtime = ComputeOvertime(DayLogs(logs), auth)
    BY <2>1, <2>2 DEF ProcessDay
  <2>4. auth # NoTime
    BY <2>3 DEF ComputeOvertime
  <2>5. logs \subseteq LogRows /\ auth \in Nat \cup {NoTime}
    BY AuthorizationType DEF TypeOK
  <2> QED BY <2>3, <2>4, <2>5, OvertimeFromStart
<1> QED BY <1>1, TypeCorrect, TablesAlwaysFollowLogs, PTL

----------------------------------------------------------------------------
(* No absence before its time.                                             *)

\* process_day never finds a session absent that is still open.
LEMMA AbsentOnlyWhenClosed ==
    ASSUME NEW rows, NEW otStart, NEW hol, NEW t, NEW s \in Sessions,
           ProcessDay(rows, otStart, hol, t).absent[s] # NotAbsent
    PROVE  ~SessionIsOpen(SessionOut(Sched, s), t)
<1>1. /\ NoRows.absent[s] = NotAbsent
      /\ \A n : [NoRows EXCEPT !.overtime = n].absent[s] = NotAbsent
  BY DEF NoRows
<1>2. ProcessFulltime(DayLogs(rows), Sched, otStart, t).absent[s]
        = AbsenceOf(DayLogs(rows), s, SessionOut(Sched, s), t)
  BY DEF ProcessFulltime
<1>3. QED
  BY <1>1, <1>2 DEF ProcessDay, AbsenceOf

\* A session that is closed stays closed as the clock advances.
LEMMA StaysClosed ==
    ASSUME NEW t \in Int, NEW u \in Int, t <= u, NEW s \in Sessions,
           ~SessionIsOpen(SessionOut(Sched, s), t)
    PROVE  ~SessionIsOpen(SessionOut(Sched, s), u)
<1>1. SessionOut(Sched, s) \in Int
  BY ScheduleAssumption DEF Schedules, SessionOut
<1>2. QED
  BY <1>1 DEF SessionIsOpen

\* Nobody has an Absence row, or is told of one, for a session whose time out
\* has not come: the rows follow the logs as judged at a moment that is past.
THEOREM AbsenceOnlyAfterClose == Spec => []NoAbsenceWhileOpen
<1> DEFINE Closed(s, t) == ~SessionIsOpen(SessionOut(Sched, s), t)
           Pushed == \A p \in absencePush : Closed(p[1], now)
<1>1. TypeOK /\ TablesFollowLogs
        => \A s \in Sessions : tables.absent[s] # NotAbsent => Closed(s, now)
  <2> SUFFICES ASSUME TypeOK, TablesFollowLogs, NEW s \in Sessions, tables.absent[s] # NotAbsent
               PROVE  Closed(s, now)
    OBVIOUS
  <2>1. PICK t \in {c \in Clock \cup {0} : c <= now} : tables = ProcessDay(logs, auth, holiday, t)
    BY DEF TablesFollowLogs
  <2>2. t \in Int /\ now \in Int
    BY <2>1, ClockBounds DEF TypeOK
  <2>3. QED
    BY <2>1, <2>2, AbsentOnlyWhenClosed, StaysClosed
<1>2. Init => Pushed
  BY DEF Init
<1>3. TypeOK /\ TypeOK' /\ TablesFollowLogs' /\ Pushed /\ [Next]_vars => Pushed'
  <2> SUFFICES ASSUME TypeOK, TypeOK', TablesFollowLogs', Pushed, [Next]_vars,
                      NEW p \in absencePush'
               PROVE  Closed(p[1], now')
    OBVIOUS
  <2>1. now \in Int /\ now' \in Int /\ now <= now'
    BY TimeAdvances
  <2>2. p[1] \in Sessions
    BY DEF TypeOK
  <2>3. CASE p \in absencePush
    <3>1. Closed(p[1], now)
      BY <2>3
    <3>2. QED
      BY <2>1, <2>2, <3>1, StaysClosed
  <2>4. CASE p \in AbsencesOf(tables')
    <3>1. tables'.absent[p[1]] # NotAbsent
      BY <2>4 DEF AbsencesOf
    <3>2. \A s \in Sessions : tables'.absent[s] # NotAbsent => Closed(s, now')
      <4>1. PICK t \in {c \in Clock \cup {0} : c <= now'} :
                    tables' = ProcessDay(logs', auth', holiday', t)
        BY DEF TablesFollowLogs
      <4>2. t \in Int
        BY <4>1, ClockBounds
      <4>3. QED
        BY <2>1, <4>1, <4>2, AbsentOnlyWhenClosed, StaysClosed
    <3>3. QED
      BY <2>2, <3>1, <3>2
  <2>5. p \in absencePush \/ p \in AbsencesOf(tables')
    <3>1. absencePush' = absencePush \/ \E reached \in BOOLEAN : SyncTask(reached)
      BY DEF Next, Tick, Press, ListenerIngest, ListenerRestart, AuthorizeOT, RevokeOT,
             SetHoliday, ManualPunch, Regenerate, vars
    <3>2. QED
      BY <3>1 DEF SyncTask
  <2>6. QED
    BY <2>3, <2>4, <2>5
<1>4. TypeOK /\ TablesFollowLogs /\ Pushed => NoAbsenceWhileOpen
  BY <1>1 DEF NoAbsenceWhileOpen
<1> HIDE DEF Pushed
<1>5. QED
  BY <1>2, <1>3, <1>4, TypeCorrect, TablesAlwaysFollowLogs, PTL DEF Spec

----------------------------------------------------------------------------
(* Regeneration repairs.                                                   *)

\* Every stored instant is a punch of the unit's memory, or one at which an
\* administrator has entered a row.
StoredArePressed == LogTimes(logs) \subseteq pressed \cup LogTimes(ManualRows(logs))

\* The instants of the rows a classification leaves are old or labelled ones.
LEMMA StoreAllTimes ==
    ASSUME NEW rows, rows \subseteq LogRows, NEW labels, NEW T, T \subseteq Clock,
           WellLabelled(labels, T)
    PROVE  LogTimes(StoreAll(rows, labels)) \subseteq LogTimes(rows) \cup T
<1> SUFFICES ASSUME NEW r \in StoreAll(rows, labels) PROVE r.at \in LogTimes(rows) \cup T
  BY DEF LogTimes
<1>1. CASE r \in rows
  BY <1>1 DEF LogTimes
<1>2. ASSUME NEW l \in labels, r \in StoreLog(RowsAt(rows, l.at), l)
      PROVE  r.at \in T
  <2>1. l.at \in Clock /\ l.type \in LogTypes /\ l.at \in T
    BY DEF WellLabelled
  <2>2. RowsAt(rows, l.at) \subseteq LogRows /\ \A u \in RowsAt(rows, l.at) : u.at = l.at
    BY DEF RowsAt
  <2>3. r.at = l.at
    BY <1>2, <2>1, <2>2, StoreLogRows
  <2>4. QED
    BY <2>1, <2>3
<1>3. QED
  BY <1>1, <1>2 DEF StoreAll

LEMMA IngestedTimes ==
    ASSUME TypeOK, NEW times, times \subseteq Clock
    PROVE  LogTimes(Ingested(times)) \subseteq LogTimes(logs) \cup times
<1>1. LogTimes(logs) \subseteq Clock
  BY LogRowsRecord DEF TypeOK, LogTimes
<1>2. times \cup LogTimes(logs) \subseteq Clock
  BY <1>1
<1>3. WellLabelled(Classify(times \cup LogTimes(logs), auth), times \cup LogTimes(logs))
  BY <1>2, ClassifyLabels
<1>4. LogTimes(Ingested(times)) \subseteq LogTimes(logs) \cup (times \cup LogTimes(logs))
  BY <1>2, <1>3, StoreAllTimes DEF Ingested, TypeOK
<1>5. QED
  BY <1>4

LEMMA ReclassifiedTimes ==
    ASSUME TypeOK
    PROVE  LogTimes(Reclassified(logs)) \subseteq LogTimes(logs)
<1>1. \A r \in Reclassified(logs) : \E u \in logs : u.at = r.at
  BY LogFields DEF Reclassified, ManualRows, DeviceRows
<1>2. QED
  BY <1>1 DEF LogTimes

LEMMA NextStoredArePressed ==
    TypeOK /\ StoredArePressed /\ [Next]_vars => StoredArePressed'
<1> SUFFICES ASSUME TypeOK, StoredArePressed, [Next]_vars PROVE StoredArePressed'
  OBVIOUS
<1>1. pressed \subseteq pressed'
  BY DEF Next, Tick, Press, ListenerIngest, ListenerRestart, SyncTask, AuthorizeOT, RevokeOT,
         SetHoliday, ManualPunch, Regenerate, vars
<1>2. ASSUME ManualRows(logs) \subseteq ManualRows(logs'), NEW times, times \subseteq pressed,
             LogTimes(logs') \subseteq LogTimes(logs) \cup times
      PROVE  StoredArePressed'
  <2>1. LogTimes(ManualRows(logs)) \subseteq LogTimes(ManualRows(logs'))
    BY <1>2 DEF LogTimes
  <2>2. QED
    BY <1>1, <1>2, <2>1 DEF StoredArePressed
<1>3. CASE ListenerIngest
  <2>1. stream \subseteq 0..Horizon /\ stream # {}
    BY <1>3, ClockBounds DEF TypeOK, ListenerIngest
  <2>2. Earliest(stream) \in stream
    BY <2>1, ClockBounds, EarliestLatest
  <2>3. {Earliest(stream)} \subseteq pressed /\ {Earliest(stream)} \subseteq Clock
    BY <2>2 DEF TypeOK
  <2>4. logs' = Ingested({Earliest(stream)})
    BY <1>3 DEF ListenerIngest, Ingest
  <2>5. LogTimes(logs') \subseteq LogTimes(logs) \cup {Earliest(stream)}
    BY <2>3, <2>4, IngestedTimes
  <2>6. ManualRows(logs) \subseteq ManualRows(logs')
    BY <1>3, ListenerIngestType
  <2>7. QED
    BY <1>2, <2>3, <2>5, <2>6
<1>4. ASSUME NEW reached \in BOOLEAN, SyncTask(reached) PROVE StoredArePressed'
  <2> DEFINE pulled == IF reached THEN {t \in pressed : t >= now - DaySeconds} ELSE {}
  <2>1. pulled \subseteq pressed /\ pulled \subseteq Clock
    BY DEF TypeOK
  <2>2. logs' = IF pulled = {} THEN logs ELSE Ingested(pulled)
    BY <1>4 DEF SyncTask
  <2> HIDE DEF pulled
  <2>3. LogTimes(logs') \subseteq LogTimes(logs) \cup pulled
    BY <2>1, <2>2, IngestedTimes
  <2>4. ManualRows(logs) \subseteq ManualRows(logs')
    BY <1>4, SyncTaskType
  <2>5. QED
    BY <1>2, <2>1, <2>3, <2>4
<1>5. ASSUME NEW type \in ManualTypes, ManualPunch(type) PROVE StoredArePressed'
  <2>1. ManualRows(logs) \subseteq ManualRows(logs')
    BY <1>5, ManualPunchType
  <2>2. logs' = {r \in logs : ~(r.at = now /\ r.type = type)} \cup {Log(now, type, "MANUAL")}
    BY <1>5 DEF ManualPunch
  <2>3. Log(now, type, "MANUAL") \in ManualRows(logs') /\ Log(now, type, "MANUAL").at = now
    BY <2>2, LogFields DEF ManualRows
  <2>4. LogTimes(ManualRows(logs)) \cup {now} \subseteq LogTimes(ManualRows(logs'))
    BY <2>1, <2>3 DEF LogTimes
  <2>5. LogTimes(logs') \subseteq LogTimes(logs) \cup {now}
    BY <2>2, <2>3 DEF LogTimes
  <2>6. QED
    BY <1>1, <2>4, <2>5 DEF StoredArePressed
<1>6. CASE Regenerate
  <2>1. LogTimes(logs') \subseteq LogTimes(logs) \cup {}
    BY <1>6, ReclassifiedTimes DEF Regenerate
  <2>2. ManualRows(logs) \subseteq ManualRows(logs')
    BY <1>6, ReclassifiedType DEF Regenerate
  <2>3. QED
    BY <1>2, <2>1, <2>2
<1>7. CASE logs' = logs
  BY <1>1, <1>7 DEF StoredArePressed
<1>8. \/ ListenerIngest
      \/ \E reached \in BOOLEAN : SyncTask(reached)
      \/ \E type \in ManualTypes : ManualPunch(type)
      \/ Regenerate
      \/ logs' = logs
  BY DEF Next, Tick, Press, ListenerRestart, AuthorizeOT, RevokeOT, SetHoliday, vars
<1>9. QED
  BY <1>3, <1>4, <1>5, <1>6, <1>7, <1>8

\* A day without manual rows, all of whose used punches are stored, is
\* re-classified into the labels of its punches.
LEMMA ReclassifiedIsClassified ==
    ASSUME TypeOK, StoredArePressed, ManualRows(logs) = {},
           {l.at : l \in Classify(pressed, auth)} \subseteq LogTimes(logs)
    PROVE  DayLogs(Reclassified(logs)) = DayLogs(Classify(pressed, auth))
<1> DEFINE labels == Classify(pressed, auth)
           device == {Log(l.at, l.type, "DEVICE") : l \in labels}
<1>1. LogTimes(logs) \in SUBSET pressed /\ pressed \in SUBSET (0..Horizon)
  BY ClockBounds DEF StoredArePressed, TypeOK, LogTimes
<1>2. Within(labels, LogTimes(logs))
  BY DEF Within
<1>3. Classify(LogTimes(logs), auth) = labels
  <2> DEFINE stored == LogTimes(logs)
  <2>1. stored \in SUBSET pressed /\ Within(Classify(pressed, auth), stored)
        /\ pressed \in SUBSET Clock
    BY <1>1, <1>2 DEF TypeOK
  <2> HIDE DEF stored
  <2>2. Classify(stored, auth) = Classify(pressed, auth)
    BY <2>1, ClassifyIgnoresUnused
  <2>3. QED
    BY <2>2 DEF stored
<1>4. WellLabelled(labels, pressed)
  BY ClassifyLabels DEF TypeOK
<1> HIDE DEF labels
<1>5. \A l \in labels : l.at \in 0..Horizon
  BY <1>1, <1>4 DEF WellLabelled
<1>6. DeviceRows(logs) = logs
  BY DEF DeviceRows, ManualRows
<1>7. CASE logs = {}
  <2>1. LogTimes(logs) = {}
    BY <1>7 DEF LogTimes
  <2>2. labels = {}
    BY <1>2, <2>1 DEF Within
  <2>3. Reclassified(logs) = {}
    BY <1>6, <1>7 DEF Reclassified
  <2>4. QED
    BY <2>2, <2>3 DEF labels
<1>8. CASE logs # {}
  <2>1. \A l \in labels : \E r \in logs : r.at = l.at
    BY <1>2 DEF Within, LogTimes
  <2>2. Reclassified(logs) = device
    BY <1>3, <1>6, <1>8, <2>1 DEF Reclassified
  <2>3. Covers(device, labels)
    <3>1. \A t \in 0..Horizon : t <= t
      OBVIOUS
    <3>2. QED
      BY <1>5, <3>1, LogFields DEF Covers
  <2>4. \A r \in device : r.at \in 0..Horizon
    BY <1>5, LogFields
  <2> HIDE DEF device
  <2>5. DayLogs(device) = DayLogs(labels)
    BY <1>5, <2>3, <2>4, ClockBounds, CoveringDayLogs
  <2>6. QED
    BY <2>2, <2>5 DEF labels
<1>9. QED
  BY <1>7, <1>8

\* regenerate_attendance brings a day back to what its punches say, whatever
\* stale labels, missing rows and leftovers of races it starts from: the
\* punches the rules use decide their own meaning, and the others, stored or
\* not, change nothing.
THEOREM RegenerationRepairs == Spec => RegenerateRepairs
<1>1. Init => StoredArePressed
  BY DEF Init, StoredArePressed, LogTimes
<1>2. TypeOK /\ StoredArePressed /\ [Next]_vars
        => [Regenerate /\ ManualRows(logs) = {}
            /\ {l.at : l \in Classify(pressed, auth)} \subseteq LogTimes(logs)
              => DayLogs(logs') = DayLogs(Classify(pressed, auth))]_vars
  BY ReclassifiedIsClassified DEF Regenerate
<1>3. QED
  BY <1>1, <1>2, NextStoredArePressed, TypeCorrect, PTL DEF Spec, RegenerateRepairs

----------------------------------------------------------------------------
(* One punch at a time, or all at once.                                    *)

\* The instance in which capture has nothing to go wrong: a listener that is
\* told of every punch, no authorised overtime, no manual entry.
NothingElse == ~LossyListener /\ OTStarts = {} /\ ManualTypes = {}

\* The listener never falls a whole day behind the device.
KeepsUp == \A u \in stream : u >= now - DaySeconds

\* The ledger rows stand for the first punches P of those held in the device:
\* they give every label of P, and what else they hold has been superseded; the
\* listener still has to ingest all the others.
UpTo(P, held, waiting, rows) ==
    /\ Continues(P, held)
    /\ held \ P \subseteq waiting
    /\ LogTimes(rows) \subseteq P
    /\ Covers(rows, Classify(P, NoTime))

\* What live capture keeps true: the rows stand for a first part of the day.
CapturedSoFar ==
    /\ \A t \in pressed : t <= now
    /\ ManualRows(logs) = {}
    /\ OneDeviceRow(logs)
    /\ \E P \in SUBSET pressed : UpTo(P, pressed, stream, logs)

\* Storing a label where only one device row can be leaves that label's row.
LEMMA StoreLogLabels ==
    ASSUME NEW rows, rows \subseteq LogRows, NEW l, l.at \in Clock, l.type \in LogTypes,
           \A r \in rows : r.at = l.at, OneDeviceRow(rows), ManualRows(rows) = {}
    PROVE  /\ \A r \in StoreLog(rows, l) : r.type = l.type /\ r.source # "MANUAL"
           /\ StoreLog(rows, l) # {}
<1>1. DeviceRows(RowsAt(rows, l.at)) = rows /\ RowsAt(rows, l.at) = rows
  BY DEF DeviceRows, RowsAt, ManualRows
<1>2. \A r, u \in rows : r = u
  BY <1>1 DEF OneDeviceRow
<1>3. CASE StoreLog(rows, l) = rows
  <2>1. \E r \in rows : r.type = l.type
    <3>1. SUFFICES ASSUME ~\E r \in rows : r.type = l.type PROVE FALSE
      OBVIOUS
    <3>2. CASE rows = {}
      <4>1. StoreOutcomes(rows, l) = {{Log(l.at, l.type, "DEVICE")}}
        BY <1>1, <3>1, <3>2 DEF StoreOutcomes
      <4>2. QED
        BY <1>3, <3>2, <4>1 DEF StoreLog
    <3>3. CASE rows # {}
      <4>1. StoreOutcomes(rows, l)
              = {(rows \ {stale}) \cup {[stale EXCEPT !.type = l.type]} : stale \in rows}
        BY <1>1, <3>1, <3>3 DEF StoreOutcomes
      <4>2. StoreLog(rows, l) \in StoreOutcomes(rows, l)
        BY <3>3, <4>1 DEF StoreLog
      <4>3. PICK stale \in rows : rows = (rows \ {stale}) \cup {[stale EXCEPT !.type = l.type]}
        BY <1>3, <4>1, <4>2
      <4>4. [stale EXCEPT !.type = l.type].type = l.type
        BY DEF LogRows
      <4>5. QED
        BY <3>1, <4>3, <4>4
    <3>4. QED
      BY <3>2, <3>3
  <2>2. QED
    BY <1>2, <1>3, <2>1 DEF ManualRows
<1>4. ASSUME NEW stale \in DeviceRows(RowsAt(rows, l.at)),
             StoreLog(rows, l) = (rows \ {stale}) \cup {Log(l.at, l.type, stale.source)}
      PROVE  /\ \A r \in StoreLog(rows, l) : r.type = l.type /\ r.source # "MANUAL"
             /\ StoreLog(rows, l) # {}
  <2>1. stale \in rows /\ stale.source # "MANUAL"
    BY <1>1 DEF ManualRows
  <2>2. StoreLog(rows, l) = {Log(l.at, l.type, stale.source)}
    BY <1>2, <1>4, <2>1
  <2>3. QED
    BY <2>1, <2>2, LogFields
<1>5. CASE /\ DeviceRows(RowsAt(rows, l.at)) = {}
           /\ StoreLog(rows, l) = rows \cup {Log(l.at, l.type, "DEVICE")}
  <2>1. StoreLog(rows, l) = {Log(l.at, l.type, "DEVICE")}
    BY <1>1, <1>5
  <2>2. QED
    BY <2>1, LogFields
<1>6. QED
  BY <1>3, <1>4, <1>5, StoreLogCases

\* Rows that stand for some labels stand, once the labels those have grown into
\* are stored, for these.
LEMMA StoreAllCovers ==
    ASSUME NEW rows, rows \subseteq LogRows, OneDeviceRow(rows), ManualRows(rows) = {},
           NEW labels, NEW T, T \subseteq Clock, WellLabelled(labels, T),
           NEW old, Covers(rows, old), NEW new, Grows(old, labels, new), Within(old, Clock)
    PROVE  Covers(StoreAll(rows, labels), labels) /\ ManualRows(StoreAll(rows, labels)) = {}
<1> DEFINE after == StoreAll(rows, labels)
           stored(l) == StoreLog(RowsAt(rows, l.at), l)
<1>1. ASSUME NEW l \in labels
      PROVE  /\ stored(l) # {}
             /\ \A r \in stored(l) : r.type = l.type /\ r.at = l.at /\ r.source # "MANUAL"
  <2>1. l.at \in Clock /\ l.type \in LogTypes
    BY DEF WellLabelled
  <2>2. RowsAt(rows, l.at) \subseteq LogRows /\ \A r \in RowsAt(rows, l.at) : r.at = l.at
    BY DEF RowsAt
  <2>3. OneDeviceRow(RowsAt(rows, l.at)) /\ ManualRows(RowsAt(rows, l.at)) = {}
    BY DEF OneDeviceRow, RowsAt, DeviceRows, ManualRows
  <2>4. QED
    BY <2>1, <2>2, <2>3, StoreLogRows, StoreLogLabels
<1>2. \A r \in after : \/ r \in rows /\ \A l \in labels : l.at # r.at
                       \/ \E l \in labels : r \in stored(l)
  BY DEF StoreAll
<1>3. \A l \in labels : stored(l) \subseteq after
  BY DEF StoreAll
<1>4. \A t \in Clock : t <= t
  BY ClockBounds
<1>5. \A l \in labels : l.at \in Clock
  BY DEF WellLabelled
<1>6. \A r \in rows : r.at \in Clock /\ r.source # "MANUAL"
  BY LogRowsRecord DEF ManualRows
<1> HIDE DEF after, stored
<1>7. \A l \in labels : \E r \in after : r.type = l.type /\ r.at = l.at
  BY <1>1, <1>3
<1>8. ASSUME NEW r \in after
      PROVE  \E l \in labels :
                l.type = r.type /\ (IF r.type \in OutTypes THEN r.at <= l.at ELSE l.at <= r.at)
  <2>1. CASE \E l \in labels : r \in stored(l)
    BY <1>1, <1>4, <1>5, <2>1
  <2>2. CASE r \in rows
    <3>1. PICK l \in old :
            l.type = r.type /\ (IF r.type \in OutTypes THEN r.at <= l.at ELSE l.at <= r.at)
      BY <2>2 DEF Covers
    <3>2. CASE l \in labels
      BY <3>1, <3>2
    <3>3. CASE l \notin labels
      <4>1. PICK k \in labels : l.type \in OutTypes /\ k.type = l.type /\ l.at <= k.at
        BY <3>3 DEF Grows
      <4>2. r.at \in Int /\ l.at \in Int /\ k.at \in Int
        BY <1>5, <1>6, <2>2, ClockBounds DEF Within
      <4>3. r.at <= k.at
        BY <3>1, <4>1, <4>2
      <4>4. QED
        BY <3>1, <4>1, <4>3
    <3>4. QED
      BY <3>2, <3>3
  <2>3. QED
    BY <1>2, <2>1, <2>2
<1>9. ManualRows(after) = {}
  BY <1>1, <1>2, <1>6 DEF ManualRows
<1>10. QED
  BY <1>7, <1>8, <1>9 DEF Covers, after

\* Some of the day's first punches.
FirstOf(P, held) == Continues(P, held) /\ held \subseteq Clock

LEMMA ClassifyGrowsHere ==
    ASSUME NEW P, NEW Q, FirstOf(P, Q), NEW otStart
    PROVE  Grows(Classify(P, otStart), Classify(Q, otStart), Q \ P)
<1>1. Punches(Q) /\ Continues(P, Q)
  BY ClockBounds DEF Punches, FirstOf
<1>2. IsSchedule(Sched)
  BY ScheduleAssumption DEF IsSchedule
<1>3. QED
  BY <1>1, <1>2, ClassifyGrows DEF Classify

\* Ingesting punches that follow those the rows stand for makes the rows stand
\* for all of these; the new ones need be given, the old ones may.
LEMMA IngestedCovers ==
    ASSUME TypeOK, CapturedSoFar, auth = NoTime,
           NEW P, FirstOf(P, pressed), UpTo(P, pressed, stream, logs),
           NEW Q, FirstOf(P, Q), FirstOf(Q, pressed),
           NEW times, Q \ P \subseteq times, times \subseteq Q
    PROVE  /\ Covers(Ingested(times), Classify(Q, NoTime))
           /\ LogTimes(Ingested(times)) \subseteq Q
           /\ ManualRows(Ingested(times)) = {}
           /\ OneDeviceRow(Ingested(times))
<1> DEFINE known == times \cup LogTimes(logs)
           old == Classify(P, NoTime)
           labels == Classify(Q, NoTime)
<1>1. P \subseteq Q /\ Q \subseteq Clock /\ Q \subseteq pressed /\ P \subseteq Clock
  BY DEF FirstOf, Continues
<1>2. LogTimes(logs) \subseteq P /\ Covers(logs, old)
  BY DEF UpTo
<1>3. known \subseteq Q
  BY <1>1, <1>2
<1>4. Grows(old, labels, Q \ P)
  BY ClassifyGrowsHere
<1>5. WellLabelled(old, P) /\ WellLabelled(labels, Q)
  BY <1>1, ClassifyLabels
<1>6. Within(labels, known)
  <2>1. \A l \in old : l.at \in LogTimes(logs)
    BY <1>2 DEF Covers, LogTimes
  <2> HIDE DEF old, labels
  <2>2. QED
    BY <1>4, <2>1 DEF Grows, Within
<1>7. Classify(known, NoTime) = labels
  <2> HIDE DEF known
  <2>1. QED
    BY <1>1, <1>3, <1>6, ClassifyIgnoresUnused
<1>8. Ingested(times) = StoreAll(logs, labels)
  BY <1>7 DEF Ingested
<1>9. Within(old, Clock)
  BY <1>1, <1>5 DEF WellLabelled, Within
<1>10. logs \subseteq LogRows /\ OneDeviceRow(logs) /\ ManualRows(logs) = {}
  BY DEF TypeOK, CapturedSoFar
<1> HIDE DEF old, labels, known
<1>11. /\ Covers(StoreAll(logs, labels), labels)
       /\ ManualRows(StoreAll(logs, labels)) = {}
  BY <1>1, <1>2, <1>4, <1>5, <1>9, <1>10, StoreAllCovers
<1>12. LogTimes(StoreAll(logs, labels)) \subseteq LogTimes(logs) \cup Q
  BY <1>1, <1>5, <1>10, StoreAllTimes
<1>13. OneDeviceRow(StoreAll(logs, labels))
  BY <1>1, <1>5, <1>10, StoreAllOneDeviceRow
<1>14. QED
  BY <1>1, <1>2, <1>8, <1>11, <1>12, <1>13 DEF labels

\* A sync that reaches the device makes the rows stand for every punch it holds.
LEMMA SyncCovers ==
    ASSUME TypeOK, CapturedSoFar, auth = NoTime, KeepsUp, SyncTask(TRUE)
    PROVE  UpTo(pressed, pressed, stream, logs') /\ ManualRows(logs') = {} /\ OneDeviceRow(logs')
<1> DEFINE pulled == {t \in pressed : t >= now - DaySeconds}
<1>1. PICK P \in SUBSET pressed : UpTo(P, pressed, stream, logs)
  BY DEF CapturedSoFar
<1>2. pressed \ P \subseteq pulled
  BY <1>1 DEF KeepsUp, UpTo, TypeOK
<1>3. logs' = IF pulled = {} THEN logs ELSE Ingested(pulled)
  BY DEF SyncTask
<1>4. Continues(pressed, pressed)
  BY DEF Continues
<1>5. CASE pulled = {}
  <2>1. P = pressed
    BY <1>1, <1>2, <1>5
  <2>2. QED
    BY <1>1, <1>3, <1>5, <2>1 DEF CapturedSoFar
<1>6. CASE pulled # {}
  <2>1. FirstOf(P, pressed) /\ FirstOf(pressed, pressed)
    BY <1>1, <1>4 DEF FirstOf, UpTo, TypeOK
  <2>2. pulled \subseteq pressed
    OBVIOUS
  <2> HIDE DEF pulled
  <2>3. /\ Covers(Ingested(pulled), Classify(pressed, NoTime))
        /\ LogTimes(Ingested(pulled)) \subseteq pressed
        /\ ManualRows(Ingested(pulled)) = {}
        /\ OneDeviceRow(Ingested(pulled))
    BY <1>1, <1>2, <2>1, <2>2, IngestedCovers
  <2>4. QED
    BY <1>3, <1>4, <1>6, <2>3 DEF UpTo
<1>7. QED
  BY <1>5, <1>6

\* The listener's next punch is the next the rows do not stand for, or one of
\* those they do.
LEMMA ListenerCovers ==
    ASSUME TypeOK, CapturedSoFar, auth = NoTime, ListenerIngest
    PROVE  /\ \E P \in SUBSET pressed : UpTo(P, pressed, stream', logs')
           /\ ManualRows(logs') = {} /\ OneDeviceRow(logs')
<1> DEFINE next == Earliest(stream)
<1>1. PICK P \in SUBSET pressed : UpTo(P, pressed, stream, logs)
  BY DEF CapturedSoFar
<1> DEFINE Q == P \cup {next}
<1>2. stream \subseteq 0..Horizon /\ stream # {}
  BY ClockBounds DEF TypeOK, ListenerIngest
<1>3. next \in stream /\ \A t \in stream : next <= t
  BY <1>2, ClockBounds, EarliestLatest
<1>4. next \in pressed /\ \A t \in pressed : t \in Int
  BY <1>3, ClockBounds DEF TypeOK
<1>5. logs' = Ingested({next}) /\ stream' = stream \ {next}
  BY DEF ListenerIngest, Ingest
<1> HIDE DEF next
<1>6. Continues(P, pressed) /\ pressed \ P \subseteq stream
  BY <1>1 DEF UpTo
<1>7. Continues(P, Q)
  BY <1>4, <1>6 DEF Continues
<1>8. Continues(Q, pressed)
  <2>1. ASSUME NEW t \in pressed \ Q PROVE next < t
    BY <1>3, <1>4, <1>6, <2>1
  <2>2. QED
    BY <1>4, <1>6, <2>1 DEF Continues
<1>9. FirstOf(P, pressed) /\ FirstOf(Q, pressed) /\ FirstOf(P, Q)
  BY <1>4, <1>6, <1>7, <1>8 DEF FirstOf, TypeOK
<1>10. Q \ P \subseteq {next} /\ {next} \subseteq Q
  OBVIOUS
<1> HIDE DEF Q
<1>11. /\ Covers(Ingested({next}), Classify(Q, NoTime))
       /\ LogTimes(Ingested({next})) \subseteq Q
       /\ ManualRows(Ingested({next})) = {}
       /\ OneDeviceRow(Ingested({next}))
  BY <1>1, <1>9, <1>10, IngestedCovers
<1>12. UpTo(Q, pressed, stream', logs')
  BY <1>5, <1>6, <1>8, <1>11 DEF UpTo, Q
<1>13. QED
  BY <1>4, <1>5, <1>11, <1>12 DEF Q

\* Re-classifying rows that stand for some punches leaves them standing for these.
LEMMA RegenerateCovers ==
    ASSUME TypeOK, CapturedSoFar, auth = NoTime,
           NEW P, FirstOf(P, pressed), UpTo(P, pressed, stream, logs)
    PROVE  /\ Covers(Reclassified(logs), Classify(P, NoTime))
           /\ LogTimes(Reclassified(logs)) \subseteq P
           /\ ManualRows(Reclassified(logs)) = {}
           /\ OneDeviceRow(Reclassified(logs))
<1> DEFINE labels == Classify(P, NoTime)
           stored == LogTimes(logs)
           device == {Log(l.at, l.type, "DEVICE") : l \in labels}
<1>1. P \subseteq Clock /\ stored \subseteq P /\ Covers(logs, labels)
  BY DEF FirstOf, UpTo, Continues
<1>2. \A l \in labels : \E r \in logs : r.at = l.at
  BY <1>1 DEF Covers
<1>3. Within(labels, stored)
  BY <1>2 DEF Within, LogTimes
<1>4. Classify(stored, NoTime) = labels
  <2> HIDE DEF stored
  <2>1. QED
    BY <1>1, <1>3, ClassifyIgnoresUnused
<1>5. \A l \in labels : l.at \in Clock
  BY <1>1, ClassifyLabels DEF WellLabelled
<1>6. DeviceRows(logs) = logs /\ ManualRows(logs) = {}
  BY DEF DeviceRows, ManualRows, CapturedSoFar
<1>7. Reclassified(logs) = IF logs = {} THEN logs ELSE device
  <2> HIDE DEF labels
  <2>1. Classify(LogTimes(logs), auth) = labels
    BY <1>4
  <2>2. QED
    BY <1>2, <1>6, <2>1 DEF Reclassified
<1>8. CASE logs = {}
  BY <1>1, <1>6, <1>7, <1>8 DEF CapturedSoFar
<1>9. CASE logs # {}
  <2> HIDE DEF labels
  <2>1. Covers(device, labels)
    <3>1. \A t \in Clock : t <= t
      BY ClockBounds
    <3>2. QED
      BY <1>5, <3>1, LogFields DEF Covers
  <2>2. LogTimes(device) \subseteq stored
    BY <1>2, LogFields DEF LogTimes
  <2>3. ManualRows(device) = {}
    BY LogFields DEF ManualRows
  <2>4. OneDeviceRow(Reclassified(logs))
    BY ReclassifiedType DEF CapturedSoFar
  <2>5. QED
    BY <1>1, <1>7, <1>9, <2>1, <2>2, <2>3, <2>4 DEF labels
<1>10. QED
  BY <1>8, <1>9

LEMMA NextCapturedSoFar ==
    ASSUME NothingElse
    PROVE  TypeOK /\ CapturedSoFar /\ KeepsUp /\ [Next]_vars => CapturedSoFar'
<1> SUFFICES ASSUME TypeOK, CapturedSoFar, KeepsUp, [Next]_vars PROVE CapturedSoFar'
  OBVIOUS
<1>1. auth = NoTime
  BY DEF TypeOK, NothingElse
<1>2. now \in Int /\ now' \in Int /\ now <= now'
  BY TimeAdvances
<1>3. \A t \in pressed : t <= now /\ t \in Int
  BY ClockBounds DEF CapturedSoFar, TypeOK
<1>4. \A t \in pressed : t <= now'
  BY <1>2, <1>3
<1>5. PICK P \in SUBSET pressed : UpTo(P, pressed, stream, logs)
  BY DEF CapturedSoFar
<1>6. ASSUME pressed' = pressed, stream' = stream, logs' = logs
      PROVE  CapturedSoFar'
  BY <1>4, <1>6 DEF CapturedSoFar
<1>7. ASSUME NEW heard \in BOOLEAN, Press(heard) PROVE CapturedSoFar'
  <2>1. /\ pressed' = pressed \cup {now} /\ stream' = stream \cup {now}
        /\ now \notin pressed /\ now' = now /\ logs' = logs
    BY <1>7 DEF Press, NothingElse
  <2>2. \A t \in pressed : t < now
    BY <1>2, <1>3, <2>1
  <2>3. UpTo(P, pressed', stream', logs')
    BY <1>5, <2>1, <2>2 DEF UpTo, Continues
  <2>4. \A t \in pressed' : t <= now'
    BY <1>2, <1>4, <2>1
  <2>5. QED
    BY <2>1, <2>3, <2>4 DEF CapturedSoFar
<1>8. CASE ListenerIngest
  <2>1. pressed' = pressed
    BY <1>8 DEF ListenerIngest
  <2>2. QED
    BY <1>1, <1>4, <1>8, <2>1, ListenerCovers DEF CapturedSoFar
<1>9. CASE SyncTask(TRUE)
  <2>1. pressed' = pressed /\ stream' = stream
    BY <1>9 DEF SyncTask
  <2>2. QED
    BY <1>1, <1>4, <1>9, <2>1, SyncCovers DEF CapturedSoFar
<1>10. CASE SyncTask(FALSE)
  BY <1>6, <1>10 DEF SyncTask
<1>11. CASE Regenerate
  <2>1. pressed' = pressed /\ stream' = stream /\ logs' = Reclassified(logs)
    BY <1>11 DEF Regenerate
  <2>2. FirstOf(P, pressed)
    BY <1>5 DEF FirstOf, UpTo, TypeOK
  <2>3. /\ Covers(Reclassified(logs), Classify(P, NoTime))
        /\ LogTimes(Reclassified(logs)) \subseteq P
        /\ ManualRows(Reclassified(logs)) = {}
        /\ OneDeviceRow(Reclassified(logs))
    BY <1>1, <1>5, <2>2, RegenerateCovers
  <2>4. UpTo(P, pressed', stream', logs')
    BY <1>5, <2>1, <2>3 DEF UpTo
  <2>5. QED
    BY <1>4, <2>1, <2>3, <2>4 DEF CapturedSoFar
<1>12. \/ pressed' = pressed /\ stream' = stream /\ logs' = logs
       \/ \E heard \in BOOLEAN : Press(heard)
       \/ ListenerIngest \/ SyncTask(TRUE) \/ SyncTask(FALSE) \/ Regenerate
  BY DEF Next, Tick, ListenerRestart, RevokeOT, SetHoliday, NothingElse, vars
<1>13. QED
  BY <1>6, <1>7, <1>8, <1>9, <1>10, <1>11, <1>12

LEMMA InitCapturedSoFar == Init => CapturedSoFar
<1> SUFFICES ASSUME Init PROVE CapturedSoFar
  OBVIOUS
<1>1. pressed = {} /\ logs = {}
  BY DEF Init
<1>2. Classify({}, NoTime) = {}
  <2>1. {} \subseteq Clock
    OBVIOUS
  <2>2. WellLabelled(Classify({}, NoTime), {})
    BY <2>1, ClassifyLabels
  <2>3. QED
    BY <2>2 DEF WellLabelled
<1>3. UpTo({}, {}, stream, {})
  BY <1>2 DEF UpTo, Continues, LogTimes, Covers
<1>4. QED
  BY <1>1, <1>3 DEF CapturedSoFar, ManualRows, OneDeviceRow, DeviceRows

\* Rows that stand for all of the day's punches give it their IN and OUT times.
LEMMA CoversAgree ==
    ASSUME NEW rows, rows \subseteq LogRows, NEW S, S \subseteq Clock,
           Covers(rows, Classify(S, NoTime))
    PROVE  DayLogs(rows) = DayLogs(Classify(S, NoTime))
<1> DEFINE labels == Classify(S, NoTime)
<1>1. \A l \in labels : l.at \in 0..Horizon
  BY ClockBounds, ClassifyLabels DEF WellLabelled
<1>2. \A r \in rows : r.at \in 0..Horizon
  BY ClockBounds, LogRowsRecord
<1> HIDE DEF labels
<1>3. Covers(rows, labels)
  BY DEF labels
<1>4. DayLogs(rows) = DayLogs(labels)
  BY <1>1, <1>2, <1>3, ClockBounds, CoveringDayLogs
<1>5. QED
  BY <1>4 DEF labels

\* Capturing a day one punch at a time gives it the IN and OUT times that
\* classifying all of its punches together gives, whatever syncs and
\* regenerations come between, as long as the listener is never a whole day
\* behind: past that, the sync task reads a day's last punches without its first.
THEOREM LiveCaptureAgrees ==
    ASSUME NothingElse
    PROVE  Spec /\ []KeepsUp => []LiveAgreesWithBatch
<1>1. TypeOK /\ CapturedSoFar => LiveAgreesWithBatch
  <2> SUFFICES ASSUME TypeOK, CapturedSoFar, stream = {}
               PROVE  DayLogs(logs) = DayLogs(Classify(pressed, auth))
    BY DEF LiveAgreesWithBatch
  <2>1. PICK P \in SUBSET pressed : UpTo(P, pressed, stream, logs)
    BY DEF CapturedSoFar
  <2>2. P = pressed /\ auth = NoTime
    BY <2>1 DEF UpTo, TypeOK, NothingElse
  <2>3. Covers(logs, Classify(pressed, NoTime))
    BY <2>1, <2>2 DEF UpTo
  <2>4. QED
    BY <2>2, <2>3, CoversAgree DEF TypeOK
<1>2. TypeOK /\ CapturedSoFar /\ KeepsUp /\ [Next]_vars => CapturedSoFar'
  BY NextCapturedSoFar
<1>3. QED
  BY <1>1, <1>2, InitCapturedSoFar, TypeCorrect, PTL DEF Spec

\* A sync of the day's punches leaves the day with the IN and OUT times the
\* classifier gives them, whatever live capture has stored before.
THEOREM SyncAgrees ==
    ASSUME NothingElse
    PROVE  Spec => SyncAgreesWithRules
<1> DEFINE Today == now < DaySeconds
           Inv == Today => CapturedSoFar
<1>1. TypeOK /\ Today => KeepsUp
  <2> SUFFICES ASSUME TypeOK, Today, NEW u \in stream PROVE u >= now - DaySeconds
    BY DEF KeepsUp
  <2>1. u \in Nat /\ now \in Int
    <3>1. \A t \in 0..Horizon : t \in Nat
      OBVIOUS
    <3>2. QED
      BY <3>1, ClockBounds DEF TypeOK
  <2>2. DaySeconds \in Int
    BY DEF DaySeconds
  <2>3. QED
    BY <2>1, <2>2
<1>2. Init => Inv
  BY InitCapturedSoFar
<1>3. TypeOK /\ Inv /\ [Next]_vars => Inv'
  <2> SUFFICES ASSUME TypeOK, Inv, [Next]_vars, Today' PROVE CapturedSoFar'
    OBVIOUS
  <2>1. Today
    <3>1. DaySeconds \in Int
      BY DEF DaySeconds
    <3>2. QED
      BY <3>1, TimeAdvances
  <2>2. QED
    BY <1>1, <2>1, NextCapturedSoFar
<1>4. TypeOK /\ TypeOK' /\ Inv /\ [Next]_vars
        => [SyncTask(TRUE) /\ now < DaySeconds /\ pressed # {}
              => DayLogs(logs') = DayLogs(Classify(pressed, auth))]_vars
  <2> SUFFICES ASSUME TypeOK, TypeOK', CapturedSoFar, KeepsUp, SyncTask(TRUE)
               PROVE  DayLogs(logs') = DayLogs(Classify(pressed, auth))
    BY <1>1
  <2>1. auth = NoTime
    BY DEF TypeOK, NothingElse
  <2>2. UpTo(pressed, pressed, stream, logs')
    BY <2>1, SyncCovers
  <2>3. Covers(logs', Classify(pressed, NoTime))
    BY <2>2 DEF UpTo
  <2>4. QED
    BY <2>1, <2>3, CoversAgree DEF TypeOK
<1> HIDE DEF Inv
<1>5. QED
  BY <1>2, <1>3, <1>4, TypeCorrect, PTL DEF Spec, SyncAgreesWithRules
=============================================================================
