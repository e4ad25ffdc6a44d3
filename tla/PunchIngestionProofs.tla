------------------------- MODULE PunchIngestionProofs -------------------------
(***************************************************************************)
(* Proofs about PunchIngestion, for every schedule, clock and any number   *)
(* of sync tasks and faults: type correctness, that no race loses a punch, *)
(* that one undisturbed process_day repairs the derived rows, that each    *)
(* fault loses one notification at most, and that an undisturbed handler   *)
(* leaves the log AttendanceDay's atomic step leaves.                      *)
(***************************************************************************)
EXTENDS PunchIngestion, PunchRulesProofs, FiniteSetTheorems

----------------------------------------------------------------------------
(* Labels, rows and derived rows.                                          *)

Horizon == DaySeconds - 1

LEMMA ClockBounds == Horizon \in Nat /\ Clock \subseteq 0..Horizon /\ Clock \subseteq Nat
<1>1. Horizon = 86399
  BY DEF Horizon, DaySeconds
<1>2. Clock \subseteq 0..Horizon
  BY ClockAssumption DEF Horizon
<1>3. \A t \in 0..Horizon : t \in Nat
  OBVIOUS
<1>4. Clock \subseteq Nat
  BY <1>2, <1>3
<1>5. Horizon \in Nat
  BY <1>1
<1> QED BY <1>2, <1>4, <1>5

LEMMA ClassifyType ==
    ASSUME NEW times, times \subseteq Clock
    PROVE  ClassifyDay(times, TRUE, Sched, NoTime) \subseteq LabelSet
<1>1. times \subseteq 0..Horizon
  BY ClockBounds
<1>2. WellLabelled(ClassifyDay(times, TRUE, Sched, NoTime), times)
  BY <1>1, ClockBounds, ClassifyDayLabels
<1>3. ASSUME NEW l \in ClassifyDay(times, TRUE, Sched, NoTime) PROVE l \in LabelSet
  <2>1. l.at \in Clock /\ l.type \in LogTypes /\ l = Label(l.type, l.at)
    BY <1>2 DEF WellLabelled
  <2>2. Label(l.type, l.at) \in LabelSet
    BY <2>1 DEF Label, LabelSet
  <2> QED BY <2>1, <2>2
<1> QED BY <1>3

LEMMA RowFields ==
    ASSUME NEW pk \in Nat, NEW l \in LabelSet
    PROVE  /\ Row(pk, l) \in RowSet /\ Row(pk, l).pk = pk
           /\ Row(pk, l).at = l.at /\ Row(pk, l).type = l.type
BY DEF Row, RowSet, LabelSet

LEMMA LedgerType ==
    ASSUME NEW R, R \subseteq RowSet
    PROVE  Ledger(R) \subseteq LabelSet /\ LogTimes(R) \subseteq Clock
<1>1. ASSUME NEW r \in R PROVE Label(r.type, r.at) \in LabelSet /\ r.at \in Clock
  BY DEF RowSet, LabelSet, Label
<1> QED BY <1>1 DEF Ledger, LogTimes

LEMMA DeriveType ==
    ASSUME NEW labels, labels \subseteq LabelSet
    PROVE  Derive(labels) \subseteq DerivedSet
<1> DEFINE day == DayLogs(labels)
           t == ProcessFulltime(day, Sched, NoTime, Now)
<1>1. \A l \in labels : l.at \in 0..Horizon
  BY ClockBounds DEF LabelSet
<1>2. day \in [LogTypes -> (0..Horizon) \cup {NoTime}]
  BY <1>1, ClockBounds, DayLogsType
<1>3. t \in Tables
  BY <1>2, ClockBounds, ScheduleAssumption, ProcessFulltimeType
<1> HIDE DEF t
<1>4. \A s \in Sessions : /\ t.late[s] \in Nat /\ t.under[s] \in Nat
                          /\ t.absent[s] \in Reasons \cup {NotAbsent}
  BY <1>3 DEF Tables
<1>5. {Derived("late", s, t.late[s]) : s \in {x \in Sessions : t.late[x] > 0}} \subseteq DerivedSet
  BY <1>4 DEF Derived, DerivedSet
<1>6. {Derived("under", s, t.under[s]) : s \in {x \in Sessions : t.under[x] > 0}}
        \subseteq DerivedSet
  BY <1>4 DEF Derived, DerivedSet
<1>7. {Derived(t.absent[s], s, 0) : s \in {x \in Sessions : t.absent[x] # NotAbsent}}
        \subseteq DerivedSet
  BY <1>4 DEF Derived, DerivedSet
<1>8. Derive(labels) =
        {Derived("late", s, t.late[s]) : s \in {x \in Sessions : t.late[x] > 0}}
        \cup {Derived("under", s, t.under[s]) : s \in {x \in Sessions : t.under[x] > 0}}
        \cup {Derived(t.absent[s], s, 0) : s \in {x \in Sessions : t.absent[x] # NotAbsent}}
  BY DEF Derive, t
<1> QED BY <1>5, <1>6, <1>7, <1>8

----------------------------------------------------------------------------
(* Tasks.  The phases a task goes through fix what it holds.               *)

TaskSet == [phase: Phases, base: SUBSET LabelSet, wanted: SUBSET LabelSet,
            labels: SUBSET LabelSet, pk: Nat, rounds: 0..2, snapshot: SUBSET LabelSet,
            deleted: SUBSET DerivedSet]

Pks == {r.pk : r \in rows}

\* What a task in each phase may rely on, of these rows and derived rows.
TaskRight(t, pks, D) ==
    /\ t.labels \subseteq t.wanted
    /\ t.deleted \subseteq D
    /\ t.phase = "found" => t.labels # {}
    /\ t.phase = "created" => t.pk \in pks
    /\ t.phase \in {"again", "judging"} => t.labels = {}
    /\ t.deleted # {} => t.phase = "judging"

\* One open transaction at most has deleted rows: the others wait.
OneDeletes ==
    \A h, k \in Handlers : task[h].deleted # {} /\ task[k].deleted # {} => h = k

TypeInv ==
    /\ pressed \subseteq Clock /\ stream \subseteq pressed
    /\ rows \subseteq RowSet /\ IsFiniteSet(rows)
    /\ notified \subseteq Pks
    /\ derived \subseteq DerivedSet
    /\ task \in [Handlers -> TaskSet]
    /\ \A h \in Handlers : TaskRight(task[h], Pks, derived)
    /\ OneDeletes
    /\ alone \subseteq Handlers /\ disturbed \in BOOLEAN /\ faults \in 0..Faults

LEMMA IdleRight ==
    /\ Idle \in TaskSet /\ Idle.phase = "idle" /\ Idle.deleted = {} /\ Idle.labels = {}
    /\ Idle.wanted = {}
<1>1. 0 \in Nat /\ 0 \in 0..2
  OBVIOUS
<1> QED BY <1>1 DEF Idle, TaskSet, Phases

LEMMA TaskFields ==
    ASSUME NEW t \in TaskSet
    PROVE  /\ t.phase \in Phases /\ t.base \subseteq LabelSet /\ t.wanted \subseteq LabelSet
           /\ t.labels \subseteq LabelSet /\ t.pk \in Nat /\ t.rounds \in 0..2
           /\ t.snapshot \subseteq LabelSet /\ t.deleted \subseteq DerivedSet
BY DEF TaskSet

\* The label a task is at is one of those it has left: the earliest.
LEMMA CurrentIsOne ==
    ASSUME NEW h \in Handlers, TypeInv, task[h].labels # {}
    PROVE  Current(h) \in task[h].labels /\ Current(h) \in LabelSet
<1> DEFINE L == task[h].labels
           times == {l.at : l \in L}
<1>1. L \subseteq LabelSet
  BY TaskFields DEF TypeInv
<1>2. times \subseteq Nat /\ times # {}
  BY <1>1, ClockBounds DEF LabelSet
<1> HIDE DEF times
<1>3. PICK m \in times : \A n \in times : m <= n
  BY <1>2, LeastNatural
<1>4. PICK l \in L : l.at = m
  BY <1>3 DEF times
<1>5. \A k \in L : l.at <= k.at
  BY <1>3, <1>4 DEF times
<1> QED BY <1>1, <1>4, <1>5 DEF Current

\* A step of one task that leaves the derived rows alone and loses no log row.
LEMMA TaskMoves ==
    ASSUME TypeInv, NEW h \in Handlers, NEW t \in TaskSet, TaskRight(t, Pks', derived'),
           t.deleted = {}, task' = [task EXCEPT ![h] = t],
           rows' \subseteq RowSet, IsFiniteSet(rows'), Pks \subseteq Pks', notified' \subseteq Pks',
           UNCHANGED <<pressed, derived>>, stream' \subseteq stream,
           alone' \subseteq Handlers, disturbed' \in BOOLEAN, faults' \in 0..Faults
    PROVE  TypeInv'
<1>1. task' \in [Handlers -> TaskSet]
  BY DEF TypeInv
<1>2. task'[h] = t /\ \A k \in Handlers \ {h} : task'[k] = task[k]
  BY DEF TypeInv
<1>3. ASSUME NEW k \in Handlers PROVE TaskRight(task'[k], Pks', derived')
  <2>1. CASE k = h
    BY <1>2, <2>1
  <2>2. CASE k # h
    <3>1. TaskRight(task[k], Pks, derived) /\ task'[k] = task[k]
      BY <1>2, <2>2 DEF TypeInv
    <3> QED BY <3>1 DEF TaskRight
  <2> QED BY <2>1, <2>2
<1>4. OneDeletes'
  BY <1>2 DEF OneDeletes, TypeInv
<1>5. stream' \subseteq pressed'
  BY DEF TypeInv
<1> QED BY <1>1, <1>3, <1>4, <1>5 DEF TypeInv

\* The same without writing a log row.
LEMMA TaskMovesQuietly ==
    ASSUME TypeInv, NEW h \in Handlers, NEW t \in TaskSet, TaskRight(t, Pks, derived),
           t.deleted = {}, task' = [task EXCEPT ![h] = t],
           UNCHANGED <<pressed, rows, derived>>, stream' \subseteq stream,
           notified' \subseteq Pks,
           alone' \subseteq Handlers, disturbed' \in BOOLEAN, faults' \in 0..Faults
    PROVE  TypeInv'
<1>1. Pks' = Pks /\ rows' \subseteq RowSet /\ IsFiniteSet(rows')
  BY DEF Pks, TypeInv
<1> QED BY <1>1, TaskMoves

LEMMA BeginType ==
    ASSUME TypeInv, NEW h \in Handlers, NEW batch, batch \subseteq Clock, NEW n \in 0..2,
           Begin(h, batch, n), stream' \subseteq stream
    PROVE  TypeInv'
<1> DEFINE labels == ClassifyDay(batch \cup LogTimes(rows), TRUE, Sched, NoTime)
           t == [Idle EXCEPT !.phase = "storing", !.base = Ledger(rows),
                             !.wanted = labels, !.labels = labels, !.rounds = n]
<1>1. task' = [task EXCEPT ![h] = t]
  BY DEF Begin
<1>2. labels \subseteq LabelSet /\ Ledger(rows) \subseteq LabelSet
  BY LedgerType, ClassifyType DEF TypeInv
<1> HIDE DEF labels
<1>3. /\ t \in TaskSet /\ t.phase = "storing" /\ t.labels = t.wanted /\ t.deleted = {}
  BY <1>2, IdleRight DEF TaskSet, Phases
<1> HIDE DEF t
<1>4. TaskRight(t, Pks, derived)
  BY <1>3 DEF TaskRight
<1> QED BY <1>1, <1>3, <1>4, TaskMovesQuietly DEF Begin, TypeInv

LEMMA LookType ==
    ASSUME TypeInv, NEW h \in Handlers, Look(h)
    PROVE  TypeInv'
<1> DEFINE q == task[h]
           same == SameInstant(Current(h))
<1>1. q \in TaskSet /\ q.phase = "storing" /\ q.labels # {} /\ TaskRight(q, Pks, derived)
  BY DEF Look, TypeInv
<1>2. \A r \in rows : r.pk \in Nat
  BY DEF TypeInv, RowSet
<1>3. PICK pk \in IF \E r \in same : r.type = Current(h).type THEN {0}
                  ELSE IF same = {} THEN {0} ELSE {r.pk : r \in same} :
         task' = [task EXCEPT ![h] = [q EXCEPT !.phase = "found", !.pk = pk]]
  BY DEF Look
<1>4. pk \in Nat
  BY <1>2, <1>3 DEF SameInstant
<1> DEFINE t == [q EXCEPT !.phase = "found", !.pk = pk]
<1>5. /\ t \in TaskSet /\ t.phase = "found" /\ t.labels = q.labels /\ t.wanted = q.wanted
      /\ t.deleted = q.deleted
  BY <1>1, <1>4 DEF TaskSet, Phases
<1>6. task' = [task EXCEPT ![h] = t]
  BY <1>3
<1> HIDE DEF t
<1>7. TaskRight(t, Pks, derived) /\ t.deleted = {}
  BY <1>1, <1>5 DEF TaskRight
<1> QED BY <1>5, <1>6, <1>7, TaskMovesQuietly DEF Look, TypeInv

\* The task goes on with one label less.
Stored(q, l) == [q EXCEPT !.phase = "storing", !.labels = @ \ {l}, !.pk = 0]

LEMMA StoredType ==
    ASSUME NEW q \in TaskSet, NEW l, NEW P, NEW D, NEW P2, TaskRight(q, P, D),
           q.phase \in {"found", "created"}
    PROVE  /\ Stored(q, l) \in TaskSet /\ TaskRight(Stored(q, l), P2, D)
           /\ Stored(q, l).deleted = {} /\ Stored(q, l).phase = "storing"
           /\ Stored(q, l).labels = q.labels \ {l} /\ Stored(q, l).wanted = q.wanted
<1>1. /\ Stored(q, l) \in TaskSet /\ Stored(q, l).phase = "storing"
      /\ Stored(q, l).labels = q.labels \ {l} /\ Stored(q, l).wanted = q.wanted
      /\ Stored(q, l).deleted = q.deleted
  BY DEF TaskSet, Phases, Stored
<1>2. q.labels \subseteq q.wanted /\ q.deleted = {}
  BY DEF TaskRight
<1>3. TaskRight(Stored(q, l), P2, D)
  BY <1>1, <1>2 DEF TaskRight
<1> QED BY <1>1, <1>2, <1>3

\* Counting the rows gives the next primary key.
LEMMA CountType == TypeInv => Cardinality(rows) + 1 \in Nat
<1>1. TypeInv => Cardinality(rows) \in Nat
  BY FS_CardinalityType DEF TypeInv
<1> QED BY <1>1

\* The row re-labelled keeps its instant and key: so do all the others.
LEMMA RelabelKeeps ==
    ASSUME TypeInv, NEW h \in Handlers, Relabel(h)
    PROVE  /\ Current(h) \in LabelSet
           /\ rows' \subseteq RowSet /\ IsFiniteSet(rows')
           /\ \A r \in rows : \E s \in rows' : s.pk = r.pk /\ s.at = r.at
           /\ \A s \in rows' : \E r \in rows : s.pk = r.pk /\ s.at = r.at
           /\ Pks' = Pks /\ LogTimes(rows') = LogTimes(rows)
<1> DEFINE label == Current(h)
           own == {r \in rows : r.pk = task[h].pk}
           other == {r \in rows : r.pk # task[h].pk}
           moved == {[r EXCEPT !.type = label.type] : r \in own}
<1>1. task[h].labels # {} /\ task[h].phase = "found"
  BY DEF Relabel, TypeInv, TaskRight
<1>2. label \in LabelSet
  BY <1>1, CurrentIsOne
<1> HIDE DEF label
<1>3. label.type \in LogTypes
  BY <1>2 DEF LabelSet
<1>4. ASSUME NEW r \in rows
      PROVE  /\ [r EXCEPT !.type = label.type] \in RowSet
             /\ [r EXCEPT !.type = label.type].pk = r.pk
             /\ [r EXCEPT !.type = label.type].at = r.at
  <2>1. r \in RowSet
    BY DEF TypeInv
  <2> QED BY <2>1, <1>3 DEF RowSet
<1>5. rows' = rows \/ rows' = other \cup moved
  BY DEF Relabel, label
<1>6. IsFiniteSet(other) /\ IsFiniteSet(own)
  <2>1. other \subseteq rows /\ own \subseteq rows /\ IsFiniteSet(rows)
    BY DEF TypeInv
  <2> HIDE DEF other, own
  <2> QED BY <2>1, FS_Subset
<1>7. IsFiniteSet(moved)
  <2> DEFINE f == [r \in own |-> [r EXCEPT !.type = label.type]]
  <2>1. f \in [own -> moved] /\ \A s \in moved : \E r \in own : f[r] = s
    OBVIOUS
  <2>2. f \in Surjection(own, moved)
    BY <2>1 DEF Surjection
  <2> HIDE DEF f, own, moved
  <2> QED BY <1>6, <2>2, FS_Surjection
<1>8. IsFiniteSet(rows')
  <2> HIDE DEF other, moved
  <2>1. IsFiniteSet(other \cup moved) /\ IsFiniteSet(rows)
    BY <1>6, <1>7, FS_Union DEF TypeInv
  <2> QED BY <1>5, <2>1
<1>9. rows' \subseteq RowSet
  BY <1>4, <1>5 DEF TypeInv
<1>10. ASSUME NEW r \in rows PROVE \E s \in rows' : s.pk = r.pk /\ s.at = r.at
  <2>1. CASE r \in rows'
    BY <2>1
  <2>2. CASE r \notin rows'
    <3>1. r \in own /\ rows' = other \cup moved
      BY <1>5, <2>2
    <3>2. [r EXCEPT !.type = label.type] \in rows'
      BY <3>1
    <3> QED BY <3>2, <1>4
  <2> QED BY <2>1, <2>2
<1>11. ASSUME NEW s \in rows' PROVE \E r \in rows : s.pk = r.pk /\ s.at = r.at
  <2>1. CASE s \in rows
    BY <2>1
  <2>2. CASE s \in moved
    <3>1. PICK r \in own : s = [r EXCEPT !.type = label.type]
      BY <2>2
    <3> QED BY <3>1, <1>4
  <2> QED BY <1>5, <2>1, <2>2
<1>12. Pks' = Pks
  BY <1>10, <1>11 DEF Pks
<1>13. LogTimes(rows') = LogTimes(rows)
  BY <1>10, <1>11 DEF LogTimes
<1> QED BY <1>2, <1>8, <1>9, <1>10, <1>11, <1>12, <1>13 DEF label
LEMMA RelabelType ==
    ASSUME TypeInv, NEW h \in Handlers, Relabel(h)
    PROVE  TypeInv'
<1> DEFINE q == task[h]
           t == Stored(q, Current(h))
<1>1. q \in TaskSet /\ q.phase = "found" /\ TaskRight(q, Pks, derived)
  BY DEF Relabel, TypeInv
<1>2. t \in TaskSet /\ TaskRight(t, Pks', derived) /\ t.deleted = {}
  BY <1>1, StoredType
<1>3. task' = [task EXCEPT ![h] = t]
  BY DEF Relabel, Stored, Without
<1> HIDE DEF t
<1>4. alone' \subseteq Handlers
  BY DEF Relabel, Undisturbed, TypeInv
<1> QED BY <1>2, <1>3, <1>4, RelabelKeeps, TaskMoves DEF Relabel, TypeInv

\* Either the label's row is there, or it is inserted.
LEMMA CreateKeeps ==
    ASSUME TypeInv, NEW h \in Handlers, GetOrCreate(h)
    PROVE  /\ rows' \subseteq RowSet /\ IsFiniteSet(rows') /\ rows \subseteq rows'
           /\ \E r \in rows' : r.at = Current(h).at /\ r.type = Current(h).type
           /\ Pks \subseteq Pks' /\ LogTimes(rows) \subseteq LogTimes(rows')
           /\ Cardinality(rows) + 1 \in Nat
           /\ \/ rows' = rows
              \/ Cardinality(rows) + 1 \in Pks'
<1> DEFINE pk == Cardinality(rows) + 1
           new == Row(pk, Current(h))
           there == \E r \in rows : r.at = Current(h).at /\ r.type = Current(h).type
<1>1. task[h].labels # {}
  BY DEF GetOrCreate, TypeInv, TaskRight
<1>2. pk \in Nat
  BY CountType
<1> HIDE DEF pk
<1>3. new \in RowSet /\ new.pk = pk /\ new.at = Current(h).at /\ new.type = Current(h).type
  BY <1>1, <1>2, CurrentIsOne, RowFields
<1> HIDE DEF new
<1>4. rows' = IF there THEN rows ELSE rows \cup {new}
  BY DEF GetOrCreate, new, pk
<1>5. CASE there
  BY <1>2, <1>4, <1>5 DEF TypeInv, Pks, pk
<1>6. CASE ~there
  <2>1. rows' = rows \cup {new}
    BY <1>4, <1>6
  <2>2. IsFiniteSet(rows')
    BY <2>1, FS_AddElement DEF TypeInv
  <2>3. rows' \subseteq RowSet /\ rows \subseteq rows'
    BY <2>1, <1>3 DEF TypeInv
  <2>4. pk \in Pks' /\ Pks \subseteq Pks' /\ LogTimes(rows) \subseteq LogTimes(rows')
    BY <2>1, <1>3 DEF Pks, LogTimes
  <2> QED BY <1>2, <1>3, <2>1, <2>2, <2>3, <2>4 DEF pk
<1> QED BY <1>5, <1>6

\* The task goes on, or has a notification to create first.
Created(q, l, pk) == [q EXCEPT !.phase = "created", !.labels = @ \ {l}, !.pk = pk]
Skipped(q, l) == [q EXCEPT !.phase = "storing", !.labels = @ \ {l}]

LEMMA CreatedType ==
    ASSUME NEW q \in TaskSet, NEW l, NEW P, NEW D, NEW P2, TaskRight(q, P, D), q.phase = "found",
           NEW pk \in Nat
    PROVE  /\ Skipped(q, l) \in TaskSet /\ TaskRight(Skipped(q, l), P2, D)
           /\ Skipped(q, l).deleted = {} /\ Skipped(q, l).phase = "storing"
           /\ Skipped(q, l).labels = q.labels \ {l} /\ Skipped(q, l).wanted = q.wanted
           /\ Created(q, l, pk) \in TaskSet /\ (pk \in P2 => TaskRight(Created(q, l, pk), P2, D))
           /\ Created(q, l, pk).deleted = {} /\ Created(q, l, pk).phase = "created"
           /\ Created(q, l, pk).labels = q.labels \ {l} /\ Created(q, l, pk).wanted = q.wanted
<1>1. /\ Skipped(q, l) \in TaskSet /\ Skipped(q, l).phase = "storing"
      /\ Skipped(q, l).labels = q.labels \ {l} /\ Skipped(q, l).wanted = q.wanted
      /\ Skipped(q, l).deleted = q.deleted
  BY DEF TaskSet, Phases, Skipped
<1>2. /\ Created(q, l, pk) \in TaskSet /\ Created(q, l, pk).phase = "created"
      /\ Created(q, l, pk).labels = q.labels \ {l} /\ Created(q, l, pk).wanted = q.wanted
      /\ Created(q, l, pk).deleted = q.deleted /\ Created(q, l, pk).pk = pk
  BY DEF TaskSet, Phases, Created
<1>3. q.labels \subseteq q.wanted /\ q.deleted = {}
  BY DEF TaskRight
<1>4. TaskRight(Skipped(q, l), P2, D)
  BY <1>1, <1>3 DEF TaskRight
<1>5. pk \in P2 => TaskRight(Created(q, l, pk), P2, D)
  BY <1>2, <1>3 DEF TaskRight
<1> QED BY <1>1, <1>2, <1>3, <1>4, <1>5

\* Which of the two, and what the row's fate was.
LEMMA CreateMoves ==
    ASSUME TypeInv, NEW h \in Handlers, GetOrCreate(h)
    PROVE  \/ /\ task' = [task EXCEPT ![h] = Skipped(task[h], Current(h))]
              /\ rows' = rows /\ alone' = alone
           \/ /\ task' = [task EXCEPT ![h] = Created(task[h], Current(h), Cardinality(rows) + 1)]
              /\ Cardinality(rows) + 1 \in Pks' /\ alone' = Undisturbed(h)
<1> DEFINE there == \E r \in rows : r.at = Current(h).at /\ r.type = Current(h).type
           new == Row(Cardinality(rows) + 1, Current(h))
<1>1. CASE there
  BY <1>1 DEF GetOrCreate, Skipped, Without
<1>2. CASE ~there
  <2>1. new.pk = Cardinality(rows) + 1
    BY DEF Row
  <2>2. rows' = rows \cup {new}
    BY <1>2 DEF GetOrCreate
  <2> HIDE DEF new
  <2>3. Cardinality(rows) + 1 \in Pks'
    BY <2>1, <2>2 DEF Pks
  <2>4. /\ task' = [task EXCEPT ![h] = Created(task[h], Current(h), Cardinality(rows) + 1)]
        /\ alone' = Undisturbed(h)
    BY <1>2 DEF GetOrCreate, Created, Without
  <2> QED BY <2>3, <2>4
<1> QED BY <1>1, <1>2

LEMMA GetOrCreateType ==
    ASSUME TypeInv, NEW h \in Handlers, GetOrCreate(h)
    PROVE  TypeInv'
<1> DEFINE q == task[h]
           pk == Cardinality(rows) + 1
<1>1. q \in TaskSet /\ q.phase = "found" /\ TaskRight(q, Pks, derived)
  BY DEF GetOrCreate, TypeInv
<1>2. pk \in Nat
  BY CountType
<1>3. UNCHANGED <<pressed, stream, notified, derived, disturbed, faults>>
  BY DEF GetOrCreate
<1>4. /\ rows' \subseteq RowSet /\ IsFiniteSet(rows') /\ Pks \subseteq Pks'
      /\ notified' \subseteq Pks'
  BY <1>3, CreateKeeps DEF TypeInv
<1>5. alone' \subseteq Handlers
  BY CreateMoves DEF Undisturbed, TypeInv
<1>6. disturbed' \in BOOLEAN /\ faults' \in 0..Faults
  BY <1>3 DEF TypeInv
<1> HIDE DEF pk
<1>7. CASE task' = [task EXCEPT ![h] = Skipped(q, Current(h))]
  <2> DEFINE t == Skipped(q, Current(h))
  <2>1. t \in TaskSet /\ TaskRight(t, Pks', derived) /\ t.deleted = {}
    BY <1>1, <1>2, CreatedType
  <2> HIDE DEF t
  <2>2. task' = [task EXCEPT ![h] = t]
    BY <1>7 DEF t
  <2> QED BY <2>1, <2>2, <1>3, <1>4, <1>5, <1>6, TaskMoves
<1>8. CASE task' = [task EXCEPT ![h] = Created(q, Current(h), pk)] /\ pk \in Pks'
  <2> DEFINE t == Created(q, Current(h), pk)
  <2>1. t \in TaskSet /\ TaskRight(t, Pks', derived) /\ t.deleted = {}
    BY <1>1, <1>2, <1>8, CreatedType
  <2> HIDE DEF t
  <2>2. task' = [task EXCEPT ![h] = t]
    BY <1>8 DEF t
  <2> QED BY <2>1, <2>2, <1>3, <1>4, <1>5, <1>6, TaskMoves
<1> QED BY <1>7, <1>8, CreateMoves DEF pk

\* Whether or not it has been notified, the task goes on to the next label.
Told(q) == [q EXCEPT !.phase = "storing", !.pk = 0]

LEMMA ToldType ==
    ASSUME NEW q \in TaskSet, NEW P, NEW D, TaskRight(q, P, D), q.phase = "created"
    PROVE  /\ Told(q) \in TaskSet /\ TaskRight(Told(q), P, D) /\ Told(q).deleted = {}
           /\ Told(q).phase = "storing" /\ Told(q).labels = q.labels /\ Told(q).wanted = q.wanted
<1>1. /\ Told(q) \in TaskSet /\ Told(q).phase = "storing" /\ Told(q).labels = q.labels
      /\ Told(q).wanted = q.wanted /\ Told(q).deleted = q.deleted
  BY DEF TaskSet, Phases, Told
<1>2. q.deleted = {} /\ q.labels \subseteq q.wanted
  BY DEF TaskRight
<1>3. TaskRight(Told(q), P, D)
  BY <1>1, <1>2 DEF TaskRight
<1> QED BY <1>1, <1>2, <1>3

LEMMA NotifyType ==
    ASSUME TypeInv, NEW h \in Handlers, Notify(h) \/ NotifyFails(h)
    PROVE  TypeInv'
<1> DEFINE t == Told(task[h])
<1>1. task[h] \in TaskSet /\ task[h].phase = "created" /\ TaskRight(task[h], Pks, derived)
  BY DEF Notify, NotifyFails, TypeInv
<1>2. t \in TaskSet /\ TaskRight(t, Pks, derived) /\ t.deleted = {}
  BY <1>1, ToldType
<1>3. task[h].pk \in Pks
  BY <1>1 DEF TaskRight
<1>4. task' = [task EXCEPT ![h] = t]
  BY DEF Notify, NotifyFails, Told
<1> HIDE DEF t
<1>5. notified' \subseteq Pks
  BY <1>3 DEF Notify, NotifyFails, TypeInv
<1>6. faults' \in 0..Faults
  BY HandlersAssumption DEF Notify, NotifyFails, TypeInv
<1>7. UNCHANGED <<pressed, stream, rows, derived, alone, disturbed>>
  BY DEF Notify, NotifyFails
<1>8. alone' \subseteq Handlers /\ disturbed' \in BOOLEAN
  BY <1>7 DEF TypeInv
<1> QED BY <1>2, <1>4, <1>5, <1>6, <1>7, <1>8, TaskMovesQuietly
----------------------------------------------------------------------------
(* process_day.                                                            *)

\* A step of one task, seen from each task.
LEMMA OneMoves ==
    ASSUME TypeInv, NEW h \in Handlers, NEW t, task' = [task EXCEPT ![h] = t]
    PROVE  task'[h] = t /\ \A k \in Handlers \ {h} : task'[k] = task[k]
BY DEF TypeInv

Judge(q, labels, D) == [q EXCEPT !.phase = "judging", !.snapshot = labels, !.deleted = D]

LEMMA JudgeType ==
    ASSUME NEW q \in TaskSet, NEW labels, labels \subseteq LabelSet, NEW D, D \subseteq DerivedSet
    PROVE  LET t == Judge(q, labels, D)
           IN  /\ t \in TaskSet /\ t.phase = "judging" /\ t.snapshot = labels /\ t.deleted = D
               /\ t.labels = q.labels /\ t.wanted = q.wanted
BY DEF TaskSet, Phases, Judge

LEMMA StartMoves ==
    ASSUME TypeInv, NEW h \in Handlers, StartDay(h)
    PROVE  /\ task' = [task EXCEPT ![h] = Judge(task[h], Ledger(rows), derived)]
           /\ task[h].labels = {}
           /\ task'[h] \in TaskSet /\ task'[h].phase = "judging"
           /\ task'[h].snapshot = Ledger(rows) /\ task'[h].deleted = derived
           /\ task'[h].labels = {} /\ task'[h].wanted = task[h].wanted
           /\ \A k \in Handlers \ {h} : task'[k] = task[k] /\ task[k].deleted = {}
<1> DEFINE t == Judge(task[h], Ledger(rows), derived)
<1>1. task' = [task EXCEPT ![h] = t]
  BY DEF StartDay, Judge
<1>2. task[h].labels = {} /\ task[h] \in TaskSet
  BY DEF StartDay, ReadyToJudge, TypeInv, TaskRight
<1>3. Ledger(rows) \subseteq LabelSet /\ derived \subseteq DerivedSet
  BY LedgerType DEF TypeInv
<1>4. /\ t \in TaskSet /\ t.phase = "judging" /\ t.snapshot = Ledger(rows)
      /\ t.deleted = derived /\ t.labels = task[h].labels /\ t.wanted = task[h].wanted
  BY <1>2, <1>3, JudgeType
<1> HIDE DEF t
<1>5. task'[h] = t /\ \A k \in Handlers \ {h} : task'[k] = task[k]
  BY <1>1, OneMoves
<1>6. \A k \in Handlers \ {h} : task[k].deleted = {}
  BY DEF StartDay, Judging, TypeInv, TaskRight
<1> QED BY <1>1, <1>2, <1>4, <1>5, <1>6 DEF t

LEMMA StartDayType ==
    ASSUME TypeInv, NEW h \in Handlers, StartDay(h)
    PROVE  TypeInv'
<1>1. UNCHANGED <<pressed, stream, rows, notified, derived, disturbed, faults>> /\ Pks' = Pks
  BY DEF StartDay, Pks
<1>2. task' \in [Handlers -> TaskSet]
  BY StartMoves DEF TypeInv
<1>3. ASSUME NEW k \in Handlers PROVE TaskRight(task'[k], Pks', derived')
  <2>1. CASE k = h
    BY <1>1, <2>1, StartMoves DEF TaskRight
  <2>2. CASE k # h
    BY <1>1, <2>2, StartMoves DEF TypeInv
  <2> QED BY <2>1, <2>2
<1>4. OneDeletes'
  BY StartMoves DEF OneDeletes
<1>5. alone' \subseteq Handlers
  BY DEF StartDay, Judging, TypeInv
<1> QED BY <1>1, <1>2, <1>3, <1>4, <1>5 DEF TypeInv

After(q) == IF q.rounds = 2 THEN [Idle EXCEPT !.phase = "again", !.rounds = 1] ELSE Idle

LEMMA AfterType ==
    ASSUME NEW q
    PROVE  /\ After(q) \in TaskSet /\ After(q).phase \in {"idle", "again"}
           /\ After(q).deleted = {} /\ After(q).labels = {} /\ After(q).wanted = {}
           /\ \A P, D : TaskRight(After(q), P, D)
<1> DEFINE u == [Idle EXCEPT !.phase = "again", !.rounds = 1]
<1>1. 1 \in 0..2
  OBVIOUS
<1>2. u \in TaskSet /\ u.phase = "again" /\ u.deleted = {} /\ u.labels = {} /\ u.wanted = {}
  BY <1>1, IdleRight DEF TaskSet, Phases
<1> HIDE DEF u
<1>3. After(q) = u \/ After(q) = Idle
  BY DEF After, u
<1>4. /\ After(q) \in TaskSet /\ After(q).phase \in {"idle", "again"}
      /\ After(q).deleted = {} /\ After(q).labels = {} /\ After(q).wanted = {}
  BY <1>2, <1>3, IdleRight
<1>5. ASSUME NEW P, NEW D PROVE TaskRight(After(q), P, D)
  BY <1>4 DEF TaskRight
<1> QED BY <1>4, <1>5

\* What the others have deleted is still there after a commit: they deleted nothing.
LEMMA CommitDayType ==
    ASSUME TypeInv, NEW h \in Handlers, CommitDay(h)
    PROVE  TypeInv'
<1>1. UNCHANGED <<pressed, stream, rows, notified, faults>> /\ Pks' = Pks
  BY DEF CommitDay, Pks
<1>2. task' = [task EXCEPT ![h] = After(task[h])]
  BY DEF CommitDay, After
<1>3. task'[h] = After(task[h]) /\ \A k \in Handlers \ {h} : task'[k] = task[k]
  BY <1>2, OneMoves
<1>4. task' \in [Handlers -> TaskSet]
  BY <1>2, AfterType DEF TypeInv
<1>5. derived' = (derived \ task[h].deleted) \cup Derive(task[h].snapshot)
  BY DEF CommitDay
<1>6. derived' \subseteq DerivedSet
  <2>1. task[h].snapshot \subseteq LabelSet
    BY TaskFields DEF TypeInv
  <2> QED BY <1>5, <2>1, DeriveType DEF TypeInv
<1>7. ASSUME NEW k \in Handlers PROVE TaskRight(task'[k], Pks', derived')
  <2>1. CASE k = h
    BY <1>3, <2>1, AfterType
  <2>2. CASE k # h
    <3>1. TaskRight(task[k], Pks, derived) /\ task'[k] = task[k]
      BY <1>3, <2>2 DEF TypeInv
    <3>2. task[k].deleted = {} \/ task[h].deleted = {}
      BY <2>2 DEF TypeInv, OneDeletes
    <3>3. task[k].deleted \subseteq derived'
      BY <3>1, <3>2, <1>5 DEF TaskRight
    <3> QED BY <3>1, <3>3, <1>1 DEF TaskRight
  <2> QED BY <2>1, <2>2
<1>8. OneDeletes'
  BY <1>3, AfterType DEF OneDeletes, TypeInv
<1>9. alone' \subseteq Handlers /\ disturbed' \in BOOLEAN
  BY DEF CommitDay, TypeInv
<1> QED BY <1>1, <1>4, <1>6, <1>7, <1>8, <1>9 DEF TypeInv

LEMMA DiesType ==
    ASSUME TypeInv, NEW h \in Handlers, Dies(h), faults' \in 0..Faults
    PROVE  TypeInv'
<1>1. Idle \in TaskSet /\ Idle.deleted = {} /\ TaskRight(Idle, Pks, derived)
  BY IdleRight DEF TaskRight
<1>2. task' = [task EXCEPT ![h] = Idle] /\ stream' \subseteq stream
  BY DEF Dies
<1>3. UNCHANGED <<pressed, rows, notified, derived>>
  BY DEF Dies
<1>4. notified' \subseteq Pks /\ alone' \subseteq Handlers /\ disturbed' \in BOOLEAN
  BY DEF Dies, TypeInv
<1> HIDE DEF Idle
<1> QED BY <1>1, <1>2, <1>3, <1>4, TaskMovesQuietly

LEMMA CrashType ==
    ASSUME TypeInv, NEW h \in Handlers, Clash(h) \/ Crash(h)
    PROVE  TypeInv'
<1>1. Dies(h)
  BY DEF Clash, Crash
<1>2. faults' \in 0..Faults
  BY HandlersAssumption DEF Clash, Crash, TypeInv
<1> QED BY <1>1, <1>2, DiesType

----------------------------------------------------------------------------
(* Starting, and every step together.                                      *)

LEMMA PressType ==
    ASSUME TypeInv, NEW t \in Clock, NEW heard \in BOOLEAN, Press(t, heard)
    PROVE  TypeInv'
<1>1. UNCHANGED <<rows, notified, derived, task, alone, disturbed, faults>> /\ Pks' = Pks
  BY DEF Press, Pks
<1>2. pressed' \subseteq Clock /\ stream' \subseteq pressed'
  BY DEF Press, TypeInv
<1>3. OneDeletes'
  BY <1>1 DEF OneDeletes, TypeInv
<1> QED BY <1>1, <1>2, <1>3 DEF TypeInv

LEMMA EarliestPressed ==
    ASSUME NEW S, S \subseteq Clock, S # {}
    PROVE  Earliest(S) \in S
<1>1. S \subseteq Nat
  BY ClockBounds
<1> QED BY <1>1, LeastNatural DEF Earliest

\* Begin is some task's first step, of this or that batch.
LEMMA Begins ==
    ASSUME TypeInv,
           \/ ListenerBegin
           \/ \E h \in SyncTasks : SyncBegin(h)
    PROVE  \E h \in Handlers, batch \in SUBSET Clock, n \in 0..2 :
               Begin(h, batch, n) /\ stream' \subseteq stream
<1>1. CASE ListenerBegin
  <2>1. Earliest(stream) \in stream /\ stream \subseteq Clock
    BY <1>1, EarliestPressed DEF ListenerBegin, TypeInv
  <2>2. {Earliest(stream)} \in SUBSET Clock /\ 1 \in 0..2 /\ Listener \in Handlers
    BY <2>1 DEF Handlers
  <2>3. Begin(Listener, {Earliest(stream)}, 1) /\ stream' \subseteq stream
    BY <1>1 DEF ListenerBegin
  <2> QED BY <2>2, <2>3
<1>2. CASE \E h \in SyncTasks : SyncBegin(h)
  <2>1. PICK h \in SyncTasks : SyncBegin(h)
    BY <1>2
  <2> DEFINE n == IF pressed = {} THEN 1 ELSE 2
  <2>2. h \in Handlers /\ n \in 0..2 /\ pressed \in SUBSET Clock
    BY DEF Handlers, TypeInv
  <2>3. Begin(h, pressed, n) /\ stream' \subseteq stream
    BY <2>1 DEF SyncBegin
  <2> QED BY <2>2, <2>3
<1> QED BY <1>1, <1>2

LEMMA InitType == Init => TypeInv
<1> SUFFICES ASSUME Init PROVE TypeInv
  OBVIOUS
<1>1. task = [h \in Handlers |-> Idle] /\ rows = {} /\ derived = {}
  BY DEF Init
<1> HIDE DEF Idle
<1>2. task \in [Handlers -> TaskSet]
  BY <1>1, IdleRight
<1>3. \A h \in Handlers : TaskRight(task[h], Pks, derived)
  BY <1>1, IdleRight DEF TaskRight
<1>4. OneDeletes
  BY <1>1, IdleRight DEF OneDeletes
<1>5. IsFiniteSet(rows)
  BY <1>1, FS_EmptySet
<1>6. 0 \in 0..Faults
  BY HandlersAssumption
<1> QED BY <1>1, <1>2, <1>3, <1>4, <1>5, <1>6 DEF Init, TypeInv

LEMMA TypePreserved == TypeInv /\ [Next]_vars => TypeInv'
<1> SUFFICES ASSUME TypeInv, [Next]_vars PROVE TypeInv'
  OBVIOUS
<1>1. ASSUME NEW t \in Clock, NEW heard \in BOOLEAN, Press(t, heard) PROVE TypeInv'
  BY <1>1, PressType
<1>2. CASE ListenerBegin \/ \E h \in SyncTasks : SyncBegin(h)
  <2>1. PICK h \in Handlers, batch \in SUBSET Clock, n \in 0..2 :
             Begin(h, batch, n) /\ stream' \subseteq stream
    BY <1>2, Begins
  <2> QED BY <2>1, BeginType
<1>3. ASSUME NEW h \in Handlers, Step(h) \/ NotifyFails(h) \/ Crash(h) PROVE TypeInv'
  BY <1>3, LookType, RelabelType, GetOrCreateType, NotifyType, StartDayType, CommitDayType,
     CrashType DEF Step
<1>4. CASE UNCHANGED vars
  BY <1>4 DEF vars, TypeInv, OneDeletes, Pks
<1> QED BY <1>1, <1>2, <1>3, <1>4 DEF Next

LEMMA TypeInvariant == Spec => []TypeInv
BY InitType, TypePreserved, PTL DEF Spec

\* The type invariant of the runs, for every clock, schedule and handlers.
THEOREM TypeCorrect == Spec => []TypeOK
<1>1. TypeInv => TypeOK
  <2> SUFFICES ASSUME TypeInv PROVE TypeOK
    OBVIOUS
  <2>1. ASSUME NEW h \in Handlers
        PROVE  /\ task[h].phase \in Phases
               /\ task[h].base \subseteq LabelSet /\ task[h].snapshot \subseteq LabelSet
               /\ task[h].labels \subseteq task[h].wanted /\ task[h].wanted \subseteq LabelSet
               /\ task[h].pk \in Nat /\ task[h].rounds \in 0..2
               /\ task[h].deleted \subseteq derived
    <3>1. task[h] \in TaskSet /\ TaskRight(task[h], Pks, derived)
      BY DEF TypeInv
    <3> QED BY <3>1, TaskFields DEF TaskRight
  <2> QED BY <2>1 DEF TypeInv, TypeOK, Pks
<1> QED BY <1>1, TypeInvariant, PTL
----------------------------------------------------------------------------
(* No race loses a punch.  A label a task has done with is in the log, and *)
(* the row a task is about to re-label is still at the label's instant:    *)
(* nobody deletes a row or moves it.                                       *)

InLog(t, R) ==
    /\ \A l \in t.wanted \ t.labels : \E r \in R : r.at = l.at
    /\ t.phase = "found" /\ t.pk # 0 =>
          \A l \in t.labels : (\A k \in t.labels : l.at <= k.at) =>
              \E r \in R : r.pk = t.pk /\ r.at = l.at

StoredInv == \A h \in Handlers : InLog(task[h], rows)

\* Each row is still there with its instant.
NoRowMoves(R, S) == \A r \in R : \E s \in S : s.pk = r.pk /\ s.at = r.at

LEMMA InLogStands ==
    ASSUME NEW t, NEW R, NEW S, InLog(t, R), NoRowMoves(R, S)
    PROVE  InLog(t, S)
BY DEF InLog, NoRowMoves

\* So only the task that moves has something to show.
LEMMA StoredMoves ==
    ASSUME TypeInv, StoredInv, NEW h \in Handlers, NEW t, task' = [task EXCEPT ![h] = t],
           NoRowMoves(rows, rows'), InLog(t, rows')
    PROVE  StoredInv'
<1>1. task'[h] = t /\ \A k \in Handlers \ {h} : task'[k] = task[k]
  BY OneMoves
<1>2. ASSUME NEW k \in Handlers PROVE InLog(task'[k], rows')
  <2>1. CASE k = h
    BY <1>1, <2>1
  <2>2. CASE k # h
    BY <1>1, <2>2, InLogStands DEF StoredInv
  <2> QED BY <2>1, <2>2
<1> QED BY <1>2 DEF StoredInv

LEMMA SameRows == rows' = rows => NoRowMoves(rows, rows')
BY DEF NoRowMoves

\* The label a task is at is the only earliest one: two of an instant cannot be
\* told apart by the order, but both are at the same instant.
LEMMA CurrentIsEarliest ==
    ASSUME NEW h \in Handlers, TypeInv, task[h].labels # {}
    PROVE  /\ Current(h) \in task[h].labels
           /\ \A k \in task[h].labels : Current(h).at <= k.at
           /\ \A l \in task[h].labels :
                 (\A k \in task[h].labels : l.at <= k.at) => l.at = Current(h).at
<1> DEFINE L == task[h].labels
           times == {l.at : l \in L}
<1>1. L \subseteq LabelSet
  BY TaskFields DEF TypeInv
<1>2. times \subseteq Nat /\ times # {} /\ \A l \in L : l.at \in Nat
  BY <1>1, ClockBounds DEF LabelSet
<1> HIDE DEF times
<1>3. PICK m \in times : \A n \in times : m <= n
  BY <1>2, LeastNatural
<1>4. PICK l \in L : l.at = m
  BY <1>3 DEF times
<1>5. \A k \in L : l.at <= k.at
  BY <1>3, <1>4 DEF times
<1>6. Current(h) \in L /\ \A k \in L : Current(h).at <= k.at
  BY <1>4, <1>5 DEF Current
<1>7. ASSUME NEW x \in L, \A k \in L : x.at <= k.at PROVE x.at = Current(h).at
  <2>1. x.at <= Current(h).at /\ Current(h).at <= x.at /\ x.at \in Nat /\ Current(h).at \in Nat
    BY <1>2, <1>6, <1>7
  <2> QED BY <2>1
<1> QED BY <1>6, <1>7

LEMMA LookStores ==
    ASSUME TypeInv, StoredInv, NEW h \in Handlers, Look(h)
    PROVE  StoredInv'
<1> DEFINE q == task[h]
           same == SameInstant(Current(h))
<1>1. q \in TaskSet /\ q.labels # {} /\ rows' = rows /\ InLog(q, rows)
  BY DEF Look, TypeInv, StoredInv
<1>2. PICK pk \in IF \E r \in same : r.type = Current(h).type THEN {0}
                  ELSE IF same = {} THEN {0} ELSE {r.pk : r \in same} :
         task' = [task EXCEPT ![h] = [q EXCEPT !.phase = "found", !.pk = pk]]
  BY DEF Look
<1>3. pk # 0 => \E r \in rows : r.pk = pk /\ r.at = Current(h).at
  BY <1>2 DEF SameInstant
<1> DEFINE t == [q EXCEPT !.phase = "found", !.pk = pk]
<1>4. t.labels = q.labels /\ t.wanted = q.wanted /\ t.pk = pk
  BY <1>1 DEF TaskSet
<1>5. task' = [task EXCEPT ![h] = t]
  BY <1>2
<1> HIDE DEF t
<1>6. \A l \in q.labels : (\A k \in q.labels : l.at <= k.at) => l.at = Current(h).at
  BY <1>1, CurrentIsEarliest
<1>7. InLog(t, rows)
  <2>1. \A l \in t.wanted \ t.labels : \E r \in rows : r.at = l.at
    BY <1>1, <1>4 DEF InLog
  <2> HIDE DEF q
  <2>2. ASSUME t.pk # 0, NEW l \in t.labels, \A k \in t.labels : l.at <= k.at
        PROVE  \E r \in rows : r.pk = t.pk /\ r.at = l.at
    <3>1. l \in q.labels /\ \A k \in q.labels : l.at <= k.at
      BY <1>4, <2>2
    <3>2. l.at = Current(h).at
      BY <3>1, <1>6
    <3> QED BY <3>2, <1>3, <1>4, <2>2
  <2> QED BY <2>1, <2>2 DEF InLog
<1> QED BY <1>1, <1>5, <1>7, StoredMoves, SameRows

\* The current label leaves the list once a row has its instant.
LEMMA OneLess ==
    ASSUME NEW q, NEW l, NEW t, NEW R, NEW S, InLog(q, R), NoRowMoves(R, S),
           \E s \in S : s.at = l.at,
           t.labels = q.labels \ {l}, t.wanted = q.wanted, t.phase # "found"
    PROVE  InLog(t, S)
BY DEF InLog, NoRowMoves

LEMMA RelabelStores ==
    ASSUME TypeInv, StoredInv, NEW h \in Handlers, Relabel(h)
    PROVE  StoredInv'
<1> DEFINE q == task[h]
           t == Stored(q, Current(h))
<1>1. q \in TaskSet /\ q.phase = "found" /\ q.pk # 0 /\ TaskRight(q, Pks, derived) /\ InLog(q, rows)
  BY DEF Relabel, TypeInv, StoredInv
<1>2. q.labels # {}
  BY <1>1 DEF TaskRight
<1>3. /\ t.phase = "storing" /\ t.labels = q.labels \ {Current(h)} /\ t.wanted = q.wanted
  BY <1>1, StoredType
<1>4. task' = [task EXCEPT ![h] = t]
  BY DEF Relabel, Stored, Without
<1> HIDE DEF t
<1>5. NoRowMoves(rows, rows')
  BY RelabelKeeps DEF NoRowMoves
<1>6. \E r \in rows : r.at = Current(h).at
  BY <1>1, <1>2, CurrentIsEarliest DEF InLog
<1>7. \E s \in rows' : s.at = Current(h).at
  BY <1>5, <1>6 DEF NoRowMoves
<1>8. InLog(t, rows')
  BY <1>1, <1>3, <1>5, <1>7, OneLess
<1> QED BY <1>4, <1>5, <1>8, StoredMoves

LEMMA CreateStores ==
    ASSUME TypeInv, StoredInv, NEW h \in Handlers, GetOrCreate(h)
    PROVE  StoredInv'
<1> DEFINE q == task[h]
           pk == Cardinality(rows) + 1
<1>1. q \in TaskSet /\ q.phase = "found" /\ TaskRight(q, Pks, derived) /\ InLog(q, rows)
  BY DEF GetOrCreate, TypeInv, StoredInv
<1>2. pk \in Nat /\ NoRowMoves(rows, rows') /\ \E s \in rows' : s.at = Current(h).at
  BY CreateKeeps DEF NoRowMoves
<1> HIDE DEF pk
<1>3. PICK t \in {Skipped(q, Current(h)), Created(q, Current(h), pk)} :
         task' = [task EXCEPT ![h] = t]
  BY CreateMoves DEF pk
<1>4. t.phase # "found" /\ t.labels = q.labels \ {Current(h)} /\ t.wanted = q.wanted
  <2> HIDE DEF q
  <2>1. ASSUME NEW l
        PROVE  /\ Skipped(q, l).phase = "storing" /\ Skipped(q, l).labels = q.labels \ {l}
               /\ Skipped(q, l).wanted = q.wanted
               /\ Created(q, l, pk).phase = "created" /\ Created(q, l, pk).labels = q.labels \ {l}
               /\ Created(q, l, pk).wanted = q.wanted
    BY <1>1, <1>2 DEF Skipped, Created, TaskSet
  <2> QED BY <1>3, <2>1
<1>5. InLog(t, rows')
  BY <1>1, <1>2, <1>4, OneLess
<1> QED BY <1>2, <1>3, <1>5, StoredMoves

LEMMA NothingLeft ==
    ASSUME NEW t, NEW R, t.wanted = t.labels, t.phase # "found"
    PROVE  InLog(t, R)
BY DEF InLog

LEMMA BeginStores ==
    ASSUME TypeInv, StoredInv, NEW h \in Handlers, NEW batch, NEW n, Begin(h, batch, n)
    PROVE  StoredInv'
<1> DEFINE labels == ClassifyDay(batch \cup LogTimes(rows), TRUE, Sched, NoTime)
           t == [Idle EXCEPT !.phase = "storing", !.base = Ledger(rows),
                             !.wanted = labels, !.labels = labels, !.rounds = n]
<1>1. task' = [task EXCEPT ![h] = t] /\ rows' = rows
  BY DEF Begin
<1> HIDE DEF labels
<1>2. t.phase = "storing" /\ t.labels = t.wanted
  BY DEF Idle
<1> HIDE DEF t
<1> QED BY <1>1, <1>2, NothingLeft, StoredMoves, SameRows

LEMMA NotifyStores ==
    ASSUME TypeInv, StoredInv, NEW h \in Handlers, Notify(h) \/ NotifyFails(h)
    PROVE  StoredInv'
<1> DEFINE t == Told(task[h])
<1>1. /\ task[h] \in TaskSet /\ task[h].phase = "created" /\ TaskRight(task[h], Pks, derived)
      /\ InLog(task[h], rows) /\ rows' = rows
  BY DEF Notify, NotifyFails, TypeInv, StoredInv
<1>2. t.phase = "storing" /\ t.labels = task[h].labels /\ t.wanted = task[h].wanted
  BY <1>1, ToldType
<1>3. task' = [task EXCEPT ![h] = t]
  BY DEF Notify, NotifyFails, Told
<1> HIDE DEF t
<1>4. InLog(t, rows)
  BY <1>1, <1>2 DEF InLog
<1> QED BY <1>1, <1>3, <1>4, StoredMoves, SameRows

LEMMA StartDayStores ==
    ASSUME TypeInv, StoredInv, NEW h \in Handlers, StartDay(h)
    PROVE  StoredInv'
<1> DEFINE t == task'[h]
<1>1. /\ t.labels = task[h].labels /\ t.wanted = task[h].wanted /\ t.phase = "judging"
      /\ task' \in [Handlers -> TaskSet]
      /\ \A k \in Handlers \ {h} : task'[k] = task[k]
  BY StartMoves DEF TypeInv
<1>2. rows' = rows
  BY DEF StartDay
<1>3. ASSUME NEW k \in Handlers PROVE InLog(task'[k], rows')
  BY <1>1, <1>2, <1>3 DEF InLog, StoredInv
<1> QED BY <1>3 DEF StoredInv

LEMMA EndStores ==
    ASSUME TypeInv, StoredInv, NEW h \in Handlers, CommitDay(h) \/ Clash(h) \/ Crash(h)
    PROVE  StoredInv'
<1>1. PICK t \in {After(task[h]), Idle} : task' = [task EXCEPT ![h] = t]
  BY DEF CommitDay, Clash, Crash, Dies, After
<1>2. t.wanted = t.labels /\ t.phase # "found"
  BY <1>1, AfterType, IdleRight
<1>3. rows' = rows
  BY DEF CommitDay, Clash, Crash, Dies
<1> QED BY <1>1, <1>2, <1>3, NothingLeft, StoredMoves, SameRows

LEMMA StoredInit == Init => StoredInv
<1> SUFFICES ASSUME Init PROVE StoredInv
  OBVIOUS
<1>1. Idle.wanted = Idle.labels /\ Idle.phase # "found"
  BY IdleRight
<1>2. task = [h \in Handlers |-> Idle]
  BY DEF Init
<1> HIDE DEF Idle
<1> QED BY <1>1, <1>2, NothingLeft DEF StoredInv

LEMMA StoredPreserved == TypeInv /\ StoredInv /\ [Next]_vars => StoredInv'
<1> SUFFICES ASSUME TypeInv, StoredInv, [Next]_vars PROVE StoredInv'
  OBVIOUS
<1>1. ASSUME NEW t \in Clock, NEW heard \in BOOLEAN, Press(t, heard) PROVE StoredInv'
  BY <1>1 DEF Press, StoredInv
<1>2. CASE ListenerBegin \/ \E h \in SyncTasks : SyncBegin(h)
  BY <1>2, Begins, BeginStores
<1>3. ASSUME NEW h \in Handlers, Step(h) \/ NotifyFails(h) \/ Crash(h) PROVE StoredInv'
  BY <1>3, LookStores, RelabelStores, CreateStores, NotifyStores, StartDayStores, EndStores
     DEF Step
<1>4. CASE UNCHANGED vars
  BY <1>4 DEF vars, StoredInv
<1> QED BY <1>1, <1>2, <1>3, <1>4 DEF Next

\* When a handler comes to judge the day, every instant it classified is in the
\* log, however many other handlers stored, re-labelled or died meanwhile.
THEOREM NoRaceLosesAPunch == Spec => []BatchIsStored
<1>1. TypeInv /\ StoredInv => BatchIsStored
  <2> SUFFICES ASSUME TypeInv, StoredInv, NEW h \in Handlers,
                      ReadyToJudge(h) \/ task[h].phase = "judging",
                      NEW l \in task[h].wanted
               PROVE  l.at \in LogTimes(rows)
    BY DEF BatchIsStored
  <2>1. task[h].labels = {}
    BY DEF ReadyToJudge, TypeInv, TaskRight
  <2>2. \E r \in rows : r.at = l.at
    BY <2>1 DEF StoredInv, InLog
  <2> QED BY <2>2 DEF LogTimes
<1> QED BY <1>1, TypeInvariant, StoredInit, StoredPreserved, PTL DEF Spec
----------------------------------------------------------------------------
(* One clean run heals.  A process_day nobody disturbs still has the log   *)
(* it read and has deleted every derived row, so what it commits is what   *)
(* the log says; any other commit, and any death, leaves disturbed set.    *)

\* What an undisturbed transaction relies on.
CleanRun(h) ==
    /\ Judging = {h}
    /\ task[h].snapshot = Ledger(rows)
    /\ task[h].deleted = derived

HealInv ==
    /\ \A h \in alone : task[h].phase = "judging" => CleanRun(h)
    /\ OneCleanRunHeals

\* A step that leaves a handler running has no healing to show.
LEMMA StillRunning ==
    ASSUME NEW h \in Handlers, task'[h].phase # "idle"
    PROVE  OneCleanRunHeals'
BY DEF OneCleanRunHeals

LEMMA HandlersAlone == TypeInv => alone \subseteq Handlers
BY DEF TypeInv

\* A step outside process_day that writes no row disturbs no clean run.
LEMMA QuietHeals ==
    ASSUME TypeInv, HealInv, NEW h \in Handlers, NEW t, task' = [task EXCEPT ![h] = t],
           task[h].phase # "judging", t.phase \notin {"judging", "idle"},
           UNCHANGED <<rows, derived>>, alone' \subseteq alone \cup {h}
    PROVE  HealInv'
<1>1. task'[h] = t /\ \A k \in Handlers \ {h} : task'[k] = task[k]
  BY OneMoves
<1>2. Judging' = Judging
  BY <1>1 DEF Judging
<1>3. ASSUME NEW k \in alone', task'[k].phase = "judging" PROVE CleanRun(k)'
  <2>1. k # h /\ k \in alone /\ k \in Handlers
    BY <1>1, <1>3, HandlersAlone
  <2>2. task'[k] = task[k] /\ CleanRun(k)
    BY <1>1, <1>3, <2>1 DEF HealInv
  <2> QED BY <1>2, <2>2 DEF CleanRun, Ledger
<1>4. OneCleanRunHeals'
  BY <1>1, StillRunning
<1> QED BY <1>3, <1>4 DEF HealInv

\* A step that writes a row leaves no other handler alone.
LEMMA WriteHeals ==
    ASSUME TypeInv, NEW h \in Handlers, NEW t, task' = [task EXCEPT ![h] = t],
           t.phase \notin {"judging", "idle"}, alone' = Undisturbed(h)
    PROVE  HealInv'
<1>1. task'[h] = t
  BY OneMoves
<1>2. \A k \in alone' : k = h
  BY DEF Undisturbed
<1>3. OneCleanRunHeals'
  BY <1>1, StillRunning
<1> QED BY <1>1, <1>2, <1>3 DEF HealInv

LEMMA BeginHeals ==
    ASSUME TypeInv, HealInv, NEW h \in Handlers, NEW batch, NEW n, Begin(h, batch, n)
    PROVE  HealInv'
<1> DEFINE labels == ClassifyDay(batch \cup LogTimes(rows), TRUE, Sched, NoTime)
           t == [Idle EXCEPT !.phase = "storing", !.base = Ledger(rows),
                             !.wanted = labels, !.labels = labels, !.rounds = n]
<1>1. task' = [task EXCEPT ![h] = t]
  BY DEF Begin
<1> HIDE DEF labels
<1>2. t.phase = "storing"
  BY DEF Idle
<1> HIDE DEF t
<1> QED BY <1>1, <1>2, QuietHeals DEF Begin

LEMMA LookHeals ==
    ASSUME TypeInv, HealInv, NEW h \in Handlers, Look(h)
    PROVE  HealInv'
<1>1. PICK pk : task' = [task EXCEPT ![h] = [task[h] EXCEPT !.phase = "found", !.pk = pk]]
  BY DEF Look
<1> DEFINE t == [task[h] EXCEPT !.phase = "found", !.pk = pk]
<1>2. t.phase = "found"
  BY DEF TypeInv, TaskSet
<1>3. task' = [task EXCEPT ![h] = t]
  BY <1>1
<1> HIDE DEF t
<1> QED BY <1>2, <1>3, QuietHeals DEF Look

LEMMA RelabelHeals ==
    ASSUME TypeInv, HealInv, NEW h \in Handlers, Relabel(h)
    PROVE  HealInv'
<1> DEFINE t == Stored(task[h], Current(h))
<1>1. task[h] \in TaskSet /\ task[h].phase = "found"
  BY DEF Relabel, TypeInv
<1>2. t.phase = "storing"
  BY <1>1 DEF Stored, TaskSet
<1>3. task' = [task EXCEPT ![h] = t] /\ derived' = derived
  BY DEF Relabel, Stored, Without
<1> HIDE DEF t
<1>4. CASE rows' = rows
  <2>1. alone' = alone
    BY <1>4 DEF Relabel
  <2> QED BY <2>1, <1>1, <1>2, <1>3, <1>4, QuietHeals
<1>5. CASE rows' # rows
  <2>1. alone' = Undisturbed(h)
    BY <1>5 DEF Relabel
  <2> QED BY <2>1, <1>2, <1>3, WriteHeals
<1> QED BY <1>4, <1>5

LEMMA CreateHeals ==
    ASSUME TypeInv, HealInv, NEW h \in Handlers, GetOrCreate(h)
    PROVE  HealInv'
<1> DEFINE q == task[h]
           pk == Cardinality(rows) + 1
<1>1. q \in TaskSet /\ q.phase = "found" /\ derived' = derived
  BY DEF GetOrCreate, TypeInv
<1>2. Skipped(q, Current(h)).phase = "storing" /\ Created(q, Current(h), pk).phase = "created"
  BY <1>1 DEF Skipped, Created, TaskSet
<1> HIDE DEF pk
<1>3. CASE task' = [task EXCEPT ![h] = Skipped(q, Current(h))] /\ rows' = rows /\ alone' = alone
  BY <1>1, <1>2, <1>3, QuietHeals
<1>4. CASE task' = [task EXCEPT ![h] = Created(q, Current(h), pk)] /\ alone' = Undisturbed(h)
  BY <1>2, <1>4, WriteHeals
<1> QED BY <1>3, <1>4, CreateMoves DEF pk

LEMMA NotifyHeals ==
    ASSUME TypeInv, HealInv, NEW h \in Handlers, Notify(h) \/ NotifyFails(h)
    PROVE  HealInv'
<1> DEFINE t == Told(task[h])
<1>1. task[h] \in TaskSet /\ task[h].phase = "created"
  BY DEF Notify, NotifyFails, TypeInv
<1>2. t.phase = "storing"
  BY <1>1 DEF Told, TaskSet
<1>3. task' = [task EXCEPT ![h] = t] /\ UNCHANGED <<rows, derived, alone>>
  BY DEF Notify, NotifyFails, Told
<1> HIDE DEF t
<1> QED BY <1>1, <1>2, <1>3, QuietHeals

\* Whoever starts judging while another is judging has disturbed them both.
LEMMA StartDayHeals ==
    ASSUME TypeInv, HealInv, NEW h \in Handlers, StartDay(h)
    PROVE  HealInv'
<1>1. UNCHANGED <<rows, derived>>
  BY DEF StartDay
<1>2. Judging' = Judging \cup {h}
  BY StartMoves DEF Judging
<1>3. ASSUME NEW k \in alone', task'[k].phase = "judging" PROVE CleanRun(k)'
  <2>1. k \in Handlers
    BY <1>3, HandlersAlone DEF StartDay
  <2>2. k \in Judging'
    BY <1>3, <2>1 DEF Judging
  <2>3. Judging = {} /\ k = h
    BY <1>2, <1>3, <2>2 DEF StartDay
  <2>4. Judging' = {h}
    BY <1>2, <2>3
  <2>5. task'[h].snapshot = Ledger(rows') /\ task'[h].deleted = derived'
    BY <1>1, StartMoves
  <2> QED BY <2>3, <2>4, <2>5 DEF CleanRun
<1>4. OneCleanRunHeals'
  BY StartMoves, StillRunning
<1> QED BY <1>3, <1>4 DEF HealInv

\* A commit of a clean run puts what the log says in place of every row.
LEMMA CommitDayHeals ==
    ASSUME TypeInv, HealInv, NEW h \in Handlers, CommitDay(h)
    PROVE  HealInv'
<1>1. UNCHANGED rows /\ task[h].phase = "judging" /\ alone' = alone \ {h}
  BY DEF CommitDay
<1>2. ASSUME NEW k \in alone', task'[k].phase = "judging" PROVE FALSE
  <2>1. k # h /\ k \in alone /\ k \in Handlers
    BY <1>1, <1>2, HandlersAlone
  <2>2. task' = [task EXCEPT ![h] = After(task[h])]
    BY DEF CommitDay, After
  <2>3. task'[k] = task[k]
    BY <2>1, <2>2, OneMoves
  <2>4. Judging = {k}
    BY <1>2, <2>1, <2>3 DEF HealInv, CleanRun
  <2>5. h \in Judging
    BY <1>1 DEF Judging
  <2> QED BY <2>1, <2>4, <2>5
<1>3. OneCleanRunHeals'
  <2>1. CASE h \notin alone
    BY <2>1 DEF CommitDay, OneCleanRunHeals
  <2>2. CASE h \in alone
    <3>1. task[h].snapshot = Ledger(rows) /\ task[h].deleted = derived
      BY <1>1, <2>2 DEF HealInv, CleanRun
    <3>2. derived' = Derive(Ledger(rows))
      BY <3>1 DEF CommitDay
    <3>3. Consistent'
      BY <1>1, <3>2 DEF Consistent
    <3> QED BY <3>3 DEF OneCleanRunHeals
  <2> QED BY <2>1, <2>2
<1> QED BY <1>2, <1>3 DEF HealInv

LEMMA DiesHeals ==
    ASSUME TypeInv, HealInv, NEW h \in Handlers, Dies(h)
    PROVE  HealInv'
<1>1. UNCHANGED <<rows, derived>> /\ alone' = alone \ {h} /\ disturbed' = TRUE
  BY DEF Dies
<1>2. task'[h] = Idle /\ \A k \in Handlers \ {h} : task'[k] = task[k]
  BY OneMoves DEF Dies
<1>3. Judging' = Judging \ {h}
  BY <1>2, IdleRight DEF Judging
<1>4. ASSUME NEW k \in alone', task'[k].phase = "judging" PROVE CleanRun(k)'
  <2>1. k # h /\ k \in alone /\ k \in Handlers
    BY <1>1, <1>4, HandlersAlone
  <2>2. task'[k] = task[k] /\ CleanRun(k)
    BY <1>2, <1>4, <2>1 DEF HealInv
  <2>3. Judging' = {k}
    BY <1>3, <2>1, <2>2 DEF CleanRun
  <2> QED BY <1>1, <2>2, <2>3 DEF CleanRun
<1>5. OneCleanRunHeals'
  BY <1>1 DEF OneCleanRunHeals
<1> QED BY <1>4, <1>5 DEF HealInv

LEMMA HealInit == Init => HealInv
BY DEF Init, HealInv, OneCleanRunHeals

LEMMA HealPreserved == TypeInv /\ HealInv /\ [Next]_vars => HealInv'
<1> SUFFICES ASSUME TypeInv, HealInv, [Next]_vars PROVE HealInv'
  OBVIOUS
<1>1. CASE UNCHANGED <<rows, derived, task, alone, disturbed>>
  BY <1>1 DEF HealInv, CleanRun, Judging, OneCleanRunHeals, Consistent
<1>2. ASSUME NEW t \in Clock, NEW heard \in BOOLEAN, Press(t, heard) PROVE HealInv'
  BY <1>1, <1>2 DEF Press
<1>3. CASE ListenerBegin \/ \E h \in SyncTasks : SyncBegin(h)
  BY <1>3, Begins, BeginHeals
<1>4. ASSUME NEW h \in Handlers, Clash(h) \/ Crash(h) PROVE HealInv'
  <2>1. Dies(h)
    BY <1>4 DEF Clash, Crash
  <2> QED BY <2>1, DiesHeals
<1>5. ASSUME NEW h \in Handlers, Step(h) \/ NotifyFails(h) \/ Crash(h) PROVE HealInv'
  BY <1>4, <1>5, LookHeals, RelabelHeals, CreateHeals, NotifyHeals, StartDayHeals, CommitDayHeals
     DEF Step
<1>6. CASE UNCHANGED vars
  BY <1>1, <1>6 DEF vars
<1> QED BY <1>2, <1>3, <1>5, <1>6 DEF Next

\* Once nothing runs, the derived rows follow the log unless handlers overlapped
\* or one died since process_day last ran undisturbed: no other way of getting
\* them out of step exists, and every clean run puts them right.
THEOREM CleanRunHeals == Spec => []OneCleanRunHeals
<1>1. HealInv => OneCleanRunHeals
  BY DEF HealInv
<1> QED BY <1>1, TypeInvariant, HealInit, HealPreserved, PTL DEF Spec
----------------------------------------------------------------------------
(* Each fault loses one notification.  Keys are numbered as rows are       *)
(* inserted, so a new row's key is new, and each handler that has created  *)
(* a row holds the key of a notification of its own.                       *)

Creators == {h \in Handlers : task[h].phase = "created"}
Missed == Pks \ notified

KeysInv ==
    /\ \A r, s \in rows : r.pk = s.pk => r = s
    /\ \A r \in rows : r.pk <= Cardinality(rows)

CountInv ==
    /\ KeysInv
    /\ Cardinality(Missed) <= faults + Cardinality(Creators)
    /\ \A h \in Creators : task[h].pk \notin notified
    /\ \A h, k \in Creators : task[h].pk = task[k].pk => h = k

LEMMA FiniteHandlers ==
    /\ IsFiniteSet(Creators) /\ Cardinality(Creators) \in Nat
    /\ IsFiniteSet(Creators') /\ Cardinality(Creators') \in Nat
<1>1. Handlers = SyncTasks \cup {Listener}
  BY DEF Handlers
<1>2. IsFiniteSet(SyncTasks)
  BY HandlersAssumption
<1>3. IsFiniteSet(Handlers)
  BY <1>1, <1>2, FS_AddElement
<1>4. Creators \subseteq Handlers /\ Creators' \subseteq Handlers
  BY DEF Creators
<1> HIDE DEF Creators
<1>5. IsFiniteSet(Creators) /\ IsFiniteSet(Creators')
  BY <1>3, <1>4, FS_Subset
<1> QED BY <1>5, FS_CardinalityType

LEMMA FiniteKeys ==
    ASSUME TypeInv
    PROVE  IsFiniteSet(Pks) /\ IsFiniteSet(Missed) /\ Cardinality(Missed) \in Nat
<1> DEFINE f == [r \in rows |-> r.pk]
<1>1. f \in [rows -> Pks] /\ \A k \in Pks : \E r \in rows : f[r] = k
  BY DEF Pks
<1>2. f \in Surjection(rows, Pks) /\ IsFiniteSet(rows)
  BY <1>1 DEF Surjection, TypeInv
<1> HIDE DEF f
<1>3. IsFiniteSet(Pks)
  BY <1>2, FS_Surjection
<1>4. IsFiniteSet(Missed)
  BY <1>3, FS_Subset DEF Missed
<1> QED BY <1>3, <1>4, FS_CardinalityType

\* The property counts rows, the invariant their keys: no two have the same.
LEMMA CountsRows ==
    ASSUME TypeInv, CountInv
    PROVE  EachFaultLosesOneNotification
<1> DEFINE U == {r \in rows : r.pk \notin notified}
           f == [r \in U |-> r.pk]
<1>1. f \in [U -> Missed] /\ \A r, s \in U : f[r] = f[s] => r = s
  BY DEF Missed, Pks, CountInv, KeysInv
<1>2. f \in Injection(U, Missed)
  BY <1>1 DEF Injection, IsInjective
<1>3. U \subseteq rows /\ IsFiniteSet(rows)
  BY DEF TypeInv
<1> HIDE DEF U, f
<1>4. Cardinality(U) <= Cardinality(Missed)
  BY <1>2, FiniteKeys, FS_Injection
<1>5. IsFiniteSet(U)
  BY <1>3, FS_Subset
<1>6. Cardinality(U) \in Nat
  BY <1>5, FS_CardinalityType
<1>7. faults \in Nat
  BY HandlersAssumption DEF TypeInv
<1>8. Cardinality(U) <= faults + Cardinality(Creators)
  BY <1>4, <1>6, <1>7, FiniteKeys, FiniteHandlers DEF CountInv
<1> QED BY <1>8 DEF EachFaultLosesOneNotification, U, Creators

\* A step of one task that leaves rows' keys and notifications as they were.
LEMMA QuietCounts ==
    ASSUME TypeInv, CountInv, NEW h \in Handlers, NEW t, task' = [task EXCEPT ![h] = t],
           task[h].phase # "created", t.phase # "created",
           KeysInv', Pks' = Pks, UNCHANGED <<notified, faults>>
    PROVE  CountInv'
<1>1. task'[h] = t /\ \A k \in Handlers \ {h} : task'[k] = task[k]
  BY OneMoves
<1>2. Creators' = Creators /\ Missed' = Missed
  BY <1>1 DEF Creators, Missed
<1>3. \A k \in Creators : task'[k] = task[k]
  BY <1>1 DEF Creators
<1> QED BY <1>2, <1>3 DEF CountInv

\* A handler is through with its notification: it was created, or a fault lost it.
LEMMA ThroughCounts ==
    ASSUME TypeInv, CountInv, NEW h \in Handlers, NEW t, task' = [task EXCEPT ![h] = t],
           t.phase # "created", UNCHANGED rows,
           \/ faults' = faults + 1 /\ notified' = notified
           \/ h \in Creators /\ faults' = faults /\ notified' = notified \cup {task[h].pk}
    PROVE  CountInv'
<1>1. task'[h] = t /\ \A k \in Handlers \ {h} : task'[k] = task[k]
  BY OneMoves
<1>2. Creators' = Creators \ {h} /\ \A k \in Creators' : task'[k] = task[k] /\ k # h
  BY <1>1 DEF Creators
<1>3. KeysInv' /\ Pks' = Pks
  BY DEF CountInv, KeysInv, Pks
<1>4. faults \in Nat
  BY HandlersAssumption DEF TypeInv
<1>5. Cardinality(Creators') = IF h \in Creators THEN Cardinality(Creators) - 1
                               ELSE Cardinality(Creators)
  BY <1>2, FiniteHandlers, FS_RemoveElement
<1>6. CASE faults' = faults + 1 /\ notified' = notified
  <2>1. Missed' = Missed
    BY <1>3, <1>6 DEF Missed
  <2>2. Cardinality(Missed') <= faults' + Cardinality(Creators')
    BY <1>4, <1>5, <1>6, <2>1, FiniteKeys, FiniteHandlers DEF CountInv
  <2> QED BY <1>2, <1>3, <1>6, <2>2 DEF CountInv
<1>7. CASE h \in Creators /\ faults' = faults /\ notified' = notified \cup {task[h].pk}
  <2>1. task[h].pk \in Missed
    BY <1>7 DEF TypeInv, TaskRight, CountInv, Missed, Creators
  <2>2. Missed' = Missed \ {task[h].pk}
    BY <1>3, <1>7 DEF Missed
  <2>3. Cardinality(Missed') = Cardinality(Missed) - 1
    BY <2>1, <2>2, FiniteKeys, FS_RemoveElement
  <2>4. Cardinality(Missed') <= faults' + Cardinality(Creators')
    BY <1>4, <1>5, <1>7, <2>3, FiniteKeys, FiniteHandlers DEF CountInv
  <2>5. \A k \in Creators' : task'[k].pk \notin notified'
    BY <1>2, <1>7 DEF CountInv
  <2> QED BY <1>2, <1>3, <2>4, <2>5 DEF CountInv
<1> QED BY <1>6, <1>7

\* Re-labelling keeps the keys, and the number of rows they are below.
LEMMA RelabelKeys ==
    ASSUME TypeInv, KeysInv, NEW h \in Handlers, Relabel(h)
    PROVE  KeysInv'
<1> DEFINE label == Current(h)
           own == {r \in rows : r.pk = task[h].pk}
           other == {r \in rows : r.pk # task[h].pk}
           moved == {[r EXCEPT !.type = label.type] : r \in own}
<1>1. rows' = rows \/ rows' = other \cup moved
  BY DEF Relabel
<1> HIDE DEF label
<1>2. ASSUME NEW s \in moved PROVE s.pk = task[h].pk
  <2>1. PICK r \in own : s = [r EXCEPT !.type = label.type]
    BY <1>2
  <2>2. r \in RowSet
    BY DEF TypeInv
  <2> QED BY <2>1, <2>2 DEF RowSet
<1>3. ASSUME NEW r \in moved, NEW s \in moved PROVE r = s
  <2>1. PICK x \in own, y \in own : /\ r = [x EXCEPT !.type = label.type]
                                    /\ s = [y EXCEPT !.type = label.type]
    BY <1>3
  <2>2. x = y
    BY <2>1 DEF KeysInv
  <2> QED BY <2>1, <2>2
<1> HIDE DEF moved
<1>4. ASSUME NEW r \in rows', NEW s \in rows', r.pk = s.pk PROVE r = s
  BY <1>1, <1>2, <1>3, <1>4 DEF KeysInv
<1> DEFINE g == [s \in rows' |-> CHOOSE r \in rows : r.pk = s.pk]
<1>5. \A s \in rows' : g[s] \in rows /\ g[s].pk = s.pk
  BY RelabelKeeps
<1>6. ASSUME NEW r \in rows PROVE \E s \in rows' : g[s] = r
  <2>1. PICK s \in rows' : s.pk = r.pk
    BY RelabelKeeps
  <2>2. g[s] = r
    BY <2>1, <1>5 DEF KeysInv
  <2> QED BY <2>2
<1>7. g \in Surjection(rows', rows)
  BY <1>5, <1>6 DEF Surjection
<1> HIDE DEF g
<1>8. IsFiniteSet(rows') /\ IsFiniteSet(rows)
  BY RelabelKeeps DEF TypeInv
<1>9. /\ Cardinality(rows) <= Cardinality(rows')
      /\ Cardinality(rows) \in Nat /\ Cardinality(rows') \in Nat
  BY <1>7, <1>8, FS_Surjection, FS_CardinalityType
<1>10. ASSUME NEW s \in rows' PROVE s.pk <= Cardinality(rows')
  <2>1. g[s] \in rows /\ g[s].pk = s.pk
    BY <1>5
  <2>2. s.pk \in Nat /\ s.pk <= Cardinality(rows)
    BY <2>1 DEF KeysInv, TypeInv, RowSet
  <2> QED BY <2>2, <1>9
<1> QED BY <1>4, <1>10 DEF KeysInv

LEMMA RelabelCounts ==
    ASSUME TypeInv, CountInv, NEW h \in Handlers, Relabel(h)
    PROVE  CountInv'
<1> DEFINE t == Stored(task[h], Current(h))
<1>1. task[h] \in TaskSet /\ task[h].phase = "found"
  BY DEF Relabel, TypeInv
<1>2. t.phase = "storing"
  BY <1>1 DEF Stored, TaskSet
<1>3. task' = [task EXCEPT ![h] = t] /\ UNCHANGED <<notified, faults>>
  BY DEF Relabel, Stored, Without
<1> HIDE DEF t
<1>4. KeysInv' /\ Pks' = Pks
  BY RelabelKeys, RelabelKeeps DEF CountInv
<1> QED BY <1>1, <1>2, <1>3, <1>4, QuietCounts

\* A new row has a new key.
LEMMA InsertCounts ==
    ASSUME TypeInv, CountInv, NEW h \in Handlers, GetOrCreate(h),
           ~\E r \in rows : r.at = Current(h).at /\ r.type = Current(h).type
    PROVE  CountInv'
<1> DEFINE n == Cardinality(rows)
           new == Row(n + 1, Current(h))
           t == Created(task[h], Current(h), n + 1)
<1>1. n \in Nat /\ IsFiniteSet(rows) /\ task[h] \in TaskSet /\ task[h].phase = "found"
  BY FS_CardinalityType DEF GetOrCreate, TypeInv
<1>2. new.pk = n + 1 /\ rows' = rows \cup {new}
  BY DEF GetOrCreate, Row
<1>3. t.phase = "created" /\ t.pk = n + 1
  BY <1>1 DEF Created, TaskSet
<1>4. task' = [task EXCEPT ![h] = t] /\ UNCHANGED <<notified, faults>>
  BY DEF GetOrCreate, Created, Without
<1>5. \A r \in rows : r.pk \in Nat /\ r.pk <= n
  BY DEF CountInv, KeysInv, TypeInv, RowSet
<1>6. n + 1 \notin Pks
  BY <1>1, <1>5 DEF Pks
<1> HIDE DEF new, t
<1>7. new \notin rows
  BY <1>2, <1>6 DEF Pks
<1>8. Cardinality(rows') = n + 1
  BY <1>1, <1>2, <1>7, FS_AddElement
<1> HIDE DEF n
<1>9. KeysInv'
  <2>1. ASSUME NEW r \in rows', NEW s \in rows', r.pk = s.pk PROVE r = s
    BY <1>2, <1>6, <2>1 DEF Pks, CountInv, KeysInv
  <2>2. ASSUME NEW r \in rows' PROVE r.pk <= n + 1
    BY <1>1, <1>2, <1>5
  <2> QED BY <1>8, <2>1, <2>2 DEF KeysInv
<1>10. Pks' = Pks \cup {n + 1}
  BY <1>2 DEF Pks
<1>11. n + 1 \notin notified
  BY <1>6 DEF TypeInv
<1>12. Missed' = Missed \cup {n + 1} /\ n + 1 \notin Missed
  BY <1>4, <1>6, <1>10, <1>11 DEF Missed
<1>13. Cardinality(Missed') = Cardinality(Missed) + 1
  BY <1>12, FiniteKeys, FS_AddElement
<1>14. task'[h] = t /\ \A k \in Handlers \ {h} : task'[k] = task[k]
  BY <1>4, OneMoves
<1>15. /\ Creators' = Creators \cup {h} /\ h \notin Creators
       /\ \A k \in Creators : task'[k] = task[k] /\ k # h
  BY <1>1, <1>3, <1>14 DEF Creators
<1>16. Cardinality(Creators') = Cardinality(Creators) + 1
  BY <1>15, FiniteHandlers, FS_AddElement
<1>17. Cardinality(Missed') <= faults' + Cardinality(Creators')
  <2>1. faults \in Nat
    BY HandlersAssumption DEF TypeInv
  <2> QED BY <1>4, <1>13, <1>16, <2>1, FiniteKeys, FiniteHandlers DEF CountInv
<1>18. \A k \in Creators : task[k].pk \in Pks
  BY DEF Creators, TypeInv, TaskRight
<1>19. \A k \in Creators' : task'[k].pk \notin notified'
  BY <1>3, <1>4, <1>11, <1>14, <1>15 DEF CountInv
<1>20. ASSUME NEW k \in Creators', NEW m \in Creators', task'[k].pk = task'[m].pk PROVE k = m
  BY <1>3, <1>6, <1>14, <1>15, <1>18, <1>20 DEF CountInv
<1> QED BY <1>9, <1>17, <1>19, <1>20 DEF CountInv

LEMMA SameKeys == CountInv /\ rows' = rows => KeysInv' /\ Pks' = Pks
BY DEF CountInv, KeysInv, Pks

LEMMA CreateCounts ==
    ASSUME TypeInv, CountInv, NEW h \in Handlers, GetOrCreate(h)
    PROVE  CountInv'
<1> DEFINE there == \E r \in rows : r.at = Current(h).at /\ r.type = Current(h).type
           t == Skipped(task[h], Current(h))
<1>1. CASE there
  <2>1. task[h] \in TaskSet /\ task[h].phase = "found" /\ UNCHANGED <<notified, faults>>
    BY DEF GetOrCreate, TypeInv
  <2>2. t.phase = "storing"
    BY <2>1 DEF Skipped, TaskSet
  <2>3. task' = [task EXCEPT ![h] = t] /\ rows' = rows
    BY <1>1 DEF GetOrCreate, Skipped, Without
  <2> HIDE DEF t
  <2> QED BY <2>1, <2>2, <2>3, SameKeys, QuietCounts
<1>2. CASE ~there
  BY <1>2, InsertCounts
<1> QED BY <1>1, <1>2

LEMMA BeginCounts ==
    ASSUME TypeInv, CountInv, NEW h \in Handlers, NEW batch, NEW n, Begin(h, batch, n),
           UNCHANGED <<rows, notified, faults>>
    PROVE  CountInv'
<1> DEFINE labels == ClassifyDay(batch \cup LogTimes(rows), TRUE, Sched, NoTime)
           t == [Idle EXCEPT !.phase = "storing", !.base = Ledger(rows),
                             !.wanted = labels, !.labels = labels, !.rounds = n]
<1>1. task' = [task EXCEPT ![h] = t] /\ task[h].phase = "idle"
  BY DEF Begin
<1> HIDE DEF labels
<1>2. t.phase = "storing"
  BY DEF Idle
<1> HIDE DEF t
<1> QED BY <1>1, <1>2, SameKeys, QuietCounts

LEMMA LookCounts ==
    ASSUME TypeInv, CountInv, NEW h \in Handlers, Look(h)
    PROVE  CountInv'
<1>1. PICK pk : task' = [task EXCEPT ![h] = [task[h] EXCEPT !.phase = "found", !.pk = pk]]
  BY DEF Look
<1> DEFINE t == [task[h] EXCEPT !.phase = "found", !.pk = pk]
<1>2. t.phase = "found"
  BY DEF TypeInv, TaskSet
<1>3. task' = [task EXCEPT ![h] = t]
  BY <1>1
<1> HIDE DEF t
<1> QED BY <1>2, <1>3, SameKeys, QuietCounts DEF Look

LEMMA NotifyCounts ==
    ASSUME TypeInv, CountInv, NEW h \in Handlers, Notify(h) \/ NotifyFails(h)
    PROVE  CountInv'
<1> DEFINE t == Told(task[h])
<1>1. task[h] \in TaskSet /\ h \in Creators
  BY DEF Notify, NotifyFails, TypeInv, Creators
<1>2. t.phase = "storing"
  BY <1>1 DEF Told, TaskSet
<1>3. task' = [task EXCEPT ![h] = t] /\ UNCHANGED rows
  BY DEF Notify, NotifyFails, Told
<1> HIDE DEF t
<1>4. \/ faults' = faults + 1 /\ notified' = notified
      \/ faults' = faults /\ notified' = notified \cup {task[h].pk}
  BY DEF Notify, NotifyFails
<1> QED BY <1>1, <1>2, <1>3, <1>4, ThroughCounts

LEMMA StartDayCounts ==
    ASSUME TypeInv, CountInv, NEW h \in Handlers, StartDay(h)
    PROVE  CountInv'
<1> DEFINE t == Judge(task[h], Ledger(rows), derived)
<1>1. task' = [task EXCEPT ![h] = t] /\ task'[h].phase = "judging"
  BY StartMoves
<1> HIDE DEF t
<1>2. t.phase = "judging"
  BY <1>1, OneMoves
<1>3. task[h].phase # "created" /\ UNCHANGED <<rows, notified, faults>>
  BY DEF StartDay, ReadyToJudge
<1> QED BY <1>1, <1>2, <1>3, SameKeys, QuietCounts

LEMMA CommitDayCounts ==
    ASSUME TypeInv, CountInv, NEW h \in Handlers, CommitDay(h)
    PROVE  CountInv'
<1> DEFINE t == After(task[h])
<1>1. task' = [task EXCEPT ![h] = t] /\ task[h].phase = "judging"
  BY DEF CommitDay, After
<1>2. t.phase # "created"
  BY AfterType
<1> HIDE DEF t
<1> QED BY <1>1, <1>2, SameKeys, QuietCounts DEF CommitDay

LEMMA CrashCounts ==
    ASSUME TypeInv, CountInv, NEW h \in Handlers, Clash(h) \/ Crash(h)
    PROVE  CountInv'
<1>1. task' = [task EXCEPT ![h] = Idle] /\ UNCHANGED <<rows, notified>>
  BY DEF Clash, Crash, Dies
<1>2. Idle.phase # "created"
  BY IdleRight
<1> HIDE DEF Idle
<1>3. CASE Clash(h)
  BY <1>1, <1>2, <1>3, SameKeys, QuietCounts DEF Clash
<1>4. CASE Crash(h)
  BY <1>1, <1>2, <1>4, ThroughCounts DEF Crash
<1> QED BY <1>3, <1>4

LEMMA CountInit == Init => CountInv
<1> SUFFICES ASSUME Init PROVE CountInv
  OBVIOUS
<1>1. rows = {} /\ faults = 0 /\ task = [h \in Handlers |-> Idle]
  BY DEF Init
<1> HIDE DEF Idle
<1>2. Creators = {}
  BY <1>1, IdleRight DEF Creators
<1>3. Missed = {}
  BY <1>1 DEF Missed, Pks
<1>4. Cardinality(Missed) <= faults + Cardinality(Creators)
  BY <1>1, <1>2, <1>3, FS_EmptySet
<1> QED BY <1>1, <1>2, <1>4 DEF CountInv, KeysInv

LEMMA CountPreserved == TypeInv /\ CountInv /\ [Next]_vars => CountInv'
<1> SUFFICES ASSUME TypeInv, CountInv, [Next]_vars PROVE CountInv'
  OBVIOUS
<1>1. CASE UNCHANGED <<rows, notified, task, faults>>
  BY <1>1 DEF CountInv, KeysInv, Creators, Missed, Pks
<1>2. ASSUME NEW t \in Clock, NEW heard \in BOOLEAN, Press(t, heard) PROVE CountInv'
  BY <1>1, <1>2 DEF Press
<1>3. CASE ListenerBegin \/ \E h \in SyncTasks : SyncBegin(h)
  <2>1. PICK h \in Handlers, batch \in SUBSET Clock, n \in 0..2 :
             Begin(h, batch, n) /\ stream' \subseteq stream
    BY <1>3, Begins
  <2>2. UNCHANGED <<rows, notified, faults>>
    BY <2>1 DEF Begin
  <2> QED BY <2>1, <2>2, BeginCounts
<1>4. ASSUME NEW h \in Handlers, Step(h) \/ NotifyFails(h) \/ Crash(h) PROVE CountInv'
  BY <1>4, LookCounts, RelabelCounts, CreateCounts, NotifyCounts, StartDayCounts, CommitDayCounts,
     CrashCounts DEF Step
<1>5. CASE UNCHANGED vars
  BY <1>1, <1>5 DEF vars
<1> QED BY <1>2, <1>3, <1>4, <1>5 DEF Next

\* However handlers race for the rows of a day, no more notifications are ever
\* missing than there were faults, but for those a handler is about to create.
THEOREM FaultsBoundLosses == Spec => []EachFaultLosesOneNotification
BY TypeInvariant, CountInit, CountPreserved, CountsRows, PTL DEF Spec

----------------------------------------------------------------------------
(* Alone is atomic.  What a handler has stored so far, when nobody else    *)
(* has written since it read the ledger, is what storing those labels may  *)
(* make of the rows it read; the rest of the ledger is as it read it.      *)

At(labels, t) == {l \in labels : l.at = t}

\* What storing label l may make of the labels A stored at its instant.
MayBecome(A, l, B) ==
    \/ l \in A /\ B = A
    \/ l \notin A /\ A = {} /\ B = {l}
    \/ l \notin A /\ \E s \in A : B = (A \ {s}) \cup {l}

\* The unique constraint of AttendanceLog holds, and a primary key is not 0.
UniqueRows ==
    /\ \A r \in rows : r.pk # 0
    /\ \A r, s \in rows : r.at = s.at /\ r.type = s.type => r = s

OneAnInstant(labels) == \A l, k \in labels : l.at = k.at => l = k

\* What an undisturbed handler has done to the ledger it read, and what it has
\* found of its current label.
DoneSoFar(t, L) ==
    /\ OneAnInstant(t.wanted)
    /\ \A i \in Clock : (\A l \in t.wanted \ t.labels : l.at # i) => At(L, i) = At(t.base, i)
    /\ \A l \in t.wanted \ t.labels : MayBecome(At(t.base, l.at), l, At(L, l.at))

HasFound(t, R) ==
    t.phase = "found" =>
        \A l \in t.labels : (\A k \in t.labels : l.at <= k.at) =>
            IF t.pk = 0 THEN l \in Ledger(R) \/ At(Ledger(R), l.at) = {}
            ELSE l \notin Ledger(R) /\ \E r \in R : r.pk = t.pk /\ r.at = l.at

DoneAlone(t, R) ==
    t.phase \in {"storing", "found", "created"} => DoneSoFar(t, Ledger(R)) /\ HasFound(t, R)

AloneInv == UniqueRows /\ \A h \in alone : DoneAlone(task[h], rows)

\* A step disturbs the others when it writes, and its own handler's account of
\* what it did has to be shown.
LEMMA AloneMoves ==
    ASSUME TypeInv, AloneInv, UniqueRows', NEW h \in Handlers, NEW t,
           task' = [task EXCEPT ![h] = t], alone' \subseteq alone \cup {h},
           rows' = rows \/ alone' \subseteq {h}, h \in alone' => DoneAlone(t, rows')
    PROVE  AloneInv'
<1>1. task'[h] = t /\ \A k \in Handlers \ {h} : task'[k] = task[k]
  BY OneMoves
<1>2. ASSUME NEW k \in alone' PROVE DoneAlone(task'[k], rows')
  <2>1. CASE k = h
    BY <1>1, <2>1
  <2>2. CASE k # h
    <3>1. k \in alone /\ rows' = rows /\ task'[k] = task[k]
      BY <1>1, <2>2 DEF TypeInv
    <3>2. QED
      BY <3>1 DEF AloneInv
  <2>3. QED
    BY <2>1, <2>2
<1>3. QED
  BY <1>2 DEF AloneInv

\* A label of the ledger is the label of one row.
LEMMA InLedger ==
    ASSUME NEW R, R \subseteq RowSet, NEW l \in LabelSet
    PROVE  l \in Ledger(R) <=> \E r \in R : r.at = l.at /\ r.type = l.type
<1>1. l = Label(l.type, l.at)
  BY DEF LabelSet, Label
<1>2. \A r \in R : Label(r.type, r.at).type = r.type /\ Label(r.type, r.at).at = r.at
  BY DEF Label
<1>3. QED
  BY <1>1, <1>2 DEF Ledger

LEMMA BeginAlone ==
    ASSUME TypeInv, AloneInv, NEW h \in Handlers, NEW batch \in SUBSET Clock, NEW n,
           Begin(h, batch, n)
    PROVE  AloneInv'
<1> DEFINE times == batch \cup LogTimes(rows)
           labels == ClassifyDay(times, TRUE, Sched, NoTime)
           t == [Idle EXCEPT !.phase = "storing", !.base = Ledger(rows),
                             !.wanted = labels, !.labels = labels, !.rounds = n]
<1>1. /\ task' = [task EXCEPT ![h] = t] /\ rows' = rows /\ alone' = alone \cup {h}
  BY DEF Begin
<1>2. times \subseteq 0..Horizon
  <2>1. LogTimes(rows) \subseteq Clock
    BY LedgerType DEF TypeInv
  <2>2. QED
    BY <2>1, ClockBounds
<1> HIDE DEF times
<1>3. WellLabelled(labels, times)
  BY <1>2, ClockBounds, ClassifyDayLabels
<1>4. OneAnInstant(labels)
  BY <1>3 DEF WellLabelled, OneAnInstant
<1> HIDE DEF labels
<1>5. t.phase = "storing" /\ t.base = Ledger(rows) /\ t.wanted = labels /\ t.labels = labels
  BY DEF Idle
<1> HIDE DEF t
<1>6. DoneAlone(t, rows)
  BY <1>4, <1>5 DEF DoneAlone, DoneSoFar, HasFound
<1>7. UniqueRows'
  BY <1>1 DEF AloneInv, UniqueRows
<1>8. QED
  BY <1>1, <1>6, <1>7, AloneMoves

LEMMA LookAlone ==
    ASSUME TypeInv, AloneInv, NEW h \in Handlers, Look(h)
    PROVE  AloneInv'
<1> DEFINE q == task[h]
           c == Current(h)
           same == SameInstant(c)
<1>1. q \in TaskSet /\ q.phase = "storing" /\ q.labels # {} /\ rows' = rows /\ alone' = alone
  BY DEF Look, TypeInv
<1>2. PICK pk \in IF \E r \in same : r.type = c.type THEN {0}
                  ELSE IF same = {} THEN {0} ELSE {r.pk : r \in same} :
         task' = [task EXCEPT ![h] = [q EXCEPT !.phase = "found", !.pk = pk]]
  BY DEF Look
<1> DEFINE t == [q EXCEPT !.phase = "found", !.pk = pk]
<1>3. /\ t.labels = q.labels /\ t.wanted = q.wanted /\ t.base = q.base /\ t.pk = pk
      /\ t.phase = "found"
  BY <1>1 DEF TaskSet
<1>4. task' = [task EXCEPT ![h] = t]
  BY <1>2
<1>5. /\ c \in q.labels /\ \A k \in q.labels : c.at <= k.at
      /\ \A l \in q.labels : (\A k \in q.labels : l.at <= k.at) => l.at = c.at
  BY <1>1, CurrentIsEarliest
<1>6. c \in LabelSet
  BY <1>1, CurrentIsOne
<1>7. rows \subseteq RowSet
  BY DEF TypeInv
<1> HIDE DEF t, c
<1>8. IF pk = 0 THEN c \in Ledger(rows) \/ At(Ledger(rows), c.at) = {}
      ELSE c \notin Ledger(rows) /\ \E r \in rows : r.pk = pk /\ r.at = c.at
  <2>1. CASE \E r \in same : r.type = c.type
    <3>1. c \in Ledger(rows)
      BY <1>6, <1>7, <2>1, InLedger DEF SameInstant
    <3>2. QED
      BY <1>2, <2>1, <3>1
  <2>2. CASE same = {}
    <3>1. \A l \in Ledger(rows) : l.at # c.at
      BY <2>2 DEF SameInstant, Ledger, Label
    <3>2. QED
      BY <1>2, <2>2, <3>1 DEF At
  <2>3. CASE same # {} /\ ~\E r \in same : r.type = c.type
    <3>1. c \notin Ledger(rows)
      BY <1>6, <1>7, <2>3, InLedger DEF SameInstant
    <3>2. PICK r \in same : pk = r.pk
      BY <1>2, <2>3
    <3>3. r \in rows /\ r.at = c.at /\ pk # 0
      BY <3>2 DEF SameInstant, AloneInv, UniqueRows
    <3>4. QED
      BY <3>1, <3>2, <3>3
  <2>4. QED
    BY <2>1, <2>2, <2>3
<1>9. ASSUME h \in alone PROVE DoneAlone(t, rows)
  <2>1. DoneSoFar(q, Ledger(rows))
    BY <1>1, <1>9 DEF AloneInv, DoneAlone
  <2>2. OneAnInstant(q.wanted) /\ q.labels \subseteq q.wanted
    BY <2>1 DEF DoneSoFar, TypeInv, TaskRight
  <2>3. \A l \in q.labels : (\A k \in q.labels : l.at <= k.at) => l = c
    BY <1>5, <2>2 DEF OneAnInstant
  <2> HIDE DEF q
  <2>4. HasFound(t, rows)
    BY <1>3, <1>8, <2>3 DEF HasFound
  <2>5. DoneSoFar(t, Ledger(rows))
    BY <1>3, <2>1 DEF DoneSoFar
  <2>6. QED
    BY <2>4, <2>5 DEF DoneAlone
<1>10. UniqueRows'
  BY <1>1 DEF AloneInv, UniqueRows
<1>11. QED
  BY <1>1, <1>4, <1>9, <1>10, AloneMoves

\* One label more is stored, and the other instants are left alone.
LEMMA OneMoreDone ==
    ASSUME NEW q, NEW t, NEW L, NEW M, NEW c \in q.labels, q.labels \subseteq q.wanted,
           DoneSoFar(q, L), q.wanted \subseteq LabelSet,
           t.labels = q.labels \ {c}, t.wanted = q.wanted, t.base = q.base,
           \A i \in Clock : i # c.at => At(M, i) = At(L, i), MayBecome(At(L, c.at), c, At(M, c.at))
    PROVE  DoneSoFar(t, M)
<1>1. OneAnInstant(q.wanted) /\ \A l \in q.wanted : l.at \in Clock
  BY DEF DoneSoFar, LabelSet
<1>2. \A l \in q.wanted \ q.labels : l.at # c.at /\ l # c
  BY <1>1 DEF OneAnInstant
<1>3. At(L, c.at) = At(q.base, c.at)
  BY <1>1, <1>2 DEF DoneSoFar
<1>4. ASSUME NEW i \in Clock, \A l \in t.wanted \ t.labels : l.at # i
      PROVE  At(M, i) = At(t.base, i)
  <2>1. c \in t.wanted \ t.labels /\ q.wanted \ q.labels \subseteq t.wanted \ t.labels
    OBVIOUS
  <2>2. i # c.at /\ \A l \in q.wanted \ q.labels : l.at # i
    BY <1>4, <2>1
  <2>3. At(L, i) = At(q.base, i)
    BY <2>2 DEF DoneSoFar
  <2>4. QED
    BY <2>2, <2>3
<1>5. ASSUME NEW l \in t.wanted \ t.labels
      PROVE  MayBecome(At(t.base, l.at), l, At(M, l.at))
  <2>1. CASE l = c
    BY <1>3, <2>1
  <2>2. CASE l # c
    <3>1. l \in q.wanted \ q.labels
      BY <2>2
    <3>2. At(M, l.at) = At(L, l.at)
      BY <1>1, <1>2, <3>1
    <3>3. MayBecome(At(q.base, l.at), l, At(L, l.at))
      BY <3>1 DEF DoneSoFar
    <3>4. QED
      BY <3>2, <3>3
  <2>3. QED
    BY <2>1, <2>2
<1>6. QED
  BY <1>1, <1>4, <1>5 DEF DoneSoFar

LEMMA RelabelAlone ==
    ASSUME TypeInv, StoredInv, CountInv, AloneInv, NEW h \in Handlers, Relabel(h)
    PROVE  AloneInv'
<1> DEFINE q == task[h]
           c == Current(h)
           t == Stored(q, c)
           own == {r \in rows : r.pk = q.pk}
           other == {r \in rows : r.pk # q.pk}
           moved == {[r EXCEPT !.type = c.type] : r \in own}
           taken == \E r \in rows : r.pk # q.pk /\ r.at = c.at /\ r.type = c.type
<1>1. /\ q \in TaskSet /\ q.phase = "found" /\ q.pk # 0 /\ TaskRight(q, Pks, derived)
      /\ InLog(q, rows)
  BY DEF Relabel, TypeInv, StoredInv
<1>2. q.labels # {} /\ q.labels \subseteq q.wanted /\ q.wanted \subseteq LabelSet
  BY <1>1, TaskFields DEF TaskRight
<1>3. c \in q.labels /\ c \in LabelSet /\ \A k \in q.labels : c.at <= k.at
  BY <1>2, CurrentIsOne, CurrentIsEarliest
<1>4. /\ t.phase = "storing" /\ t.labels = q.labels \ {c} /\ t.wanted = q.wanted
      /\ t.base = q.base
  BY <1>1 DEF Stored, TaskSet
<1>5. task' = [task EXCEPT ![h] = t]
  BY DEF Relabel, Stored, Without
<1>6. rows' = IF taken THEN rows ELSE other \cup moved
  BY DEF Relabel
<1>7. alone' \subseteq alone \cup {h} /\ (rows' = rows \/ alone' \subseteq {h})
  BY DEF Relabel, Undisturbed
<1> HIDE DEF t, c
<1>8. \A r \in rows : /\ r \in RowSet /\ [r EXCEPT !.type = c.type].pk = r.pk
                      /\ [r EXCEPT !.type = c.type].at = r.at
                      /\ [r EXCEPT !.type = c.type].type = c.type
  BY DEF TypeInv, RowSet
<1>9. UniqueRows /\ \A r, s \in rows : r.pk = s.pk => r = s
  BY DEF AloneInv, CountInv, KeysInv
<1>10. PICK o \in rows : o.pk = q.pk /\ o.at = c.at
  BY <1>1, <1>3 DEF InLog
<1>11. own = {o}
  BY <1>9, <1>10
<1> DEFINE m == [o EXCEPT !.type = c.type]
<1>12. moved = {m} /\ m.pk = q.pk /\ m.at = c.at /\ m.type = c.type
  BY <1>8, <1>10, <1>11
<1> HIDE DEF own, moved, m
<1>13. UniqueRows'
  <2>1. CASE taken
    BY <1>6, <1>9, <2>1 DEF UniqueRows
  <2>2. CASE ~taken
    <3>1. rows' = other \cup {m}
      BY <1>6, <1>12, <2>2
    <3>2. \A r \in other : ~(r.at = m.at /\ r.type = m.type)
      BY <1>12, <2>2
    <3>3. QED
      BY <1>1, <1>9, <1>12, <3>1, <3>2 DEF UniqueRows
  <2>3. QED
    BY <2>1, <2>2
<1>14. ASSUME h \in alone' PROVE DoneAlone(t, rows')
  <2>1. h \in alone
    BY <1>14 DEF Relabel, Undisturbed
  <2>2. DoneSoFar(q, Ledger(rows)) /\ HasFound(q, rows)
    BY <1>1, <2>1 DEF AloneInv, DoneAlone
  <2>3. c \notin Ledger(rows)
    BY <1>1, <1>3, <2>2 DEF HasFound
  <2>4. rows \subseteq RowSet
    BY DEF TypeInv
  <2>5. ~taken
    BY <1>3, <2>3, <2>4, InLedger
  <2>6. rows' = other \cup {m}
    BY <1>6, <1>12, <2>5
  <2> DEFINE s == Label(o.type, o.at)
             L == Ledger(rows)
             M == Ledger(rows')
  <2>7. c = Label(c.type, c.at)
    BY <1>3 DEF LabelSet, Label
  <2>8. M = (L \ {s}) \cup {c}
    <3>1. \A r \in other : r # o /\ r \in rows
      BY <1>10
    <3>2. \A r \in other : Label(r.type, r.at) # s
      BY <1>9, <3>1 DEF Label, UniqueRows
    <3>3. Label(m.type, m.at) = c
      BY <1>12, <2>7
    <3>4. \A r \in rows : r = o \/ r \in other
      BY <1>9, <1>10
    <3>5. M = {Label(r.type, r.at) : r \in other} \cup {c}
      BY <2>6, <3>3 DEF Ledger
    <3>6. L = {Label(r.type, r.at) : r \in other} \cup {s}
      BY <1>10, <3>1, <3>4 DEF Ledger
    <3> DEFINE rest == {Label(r.type, r.at) : r \in other}
    <3>7. s \notin rest
      BY <3>2
    <3> HIDE DEF rest, s, L, M, other
    <3>8. M = rest \cup {c} /\ L = rest \cup {s}
      BY <3>5, <3>6 DEF rest
    <3>9. QED
      BY <3>7, <3>8
  <2>9. s \in L /\ s.at = c.at
    BY <1>10 DEF Ledger, Label
  <2> HIDE DEF s, L, M
  <2>10. \A i \in Clock : i # c.at => At(M, i) = At(L, i)
    BY <2>8, <2>9 DEF At
  <2>11. MayBecome(At(L, c.at), c, At(M, c.at))
    <3>1. At(M, c.at) = (At(L, c.at) \ {s}) \cup {c} /\ s \in At(L, c.at) /\ c \notin At(L, c.at)
      BY <2>3, <2>8, <2>9 DEF At, L
    <3>2. QED
      BY <3>1 DEF MayBecome
  <2> HIDE DEF q
  <2>12. DoneSoFar(q, L)
    BY <2>2 DEF L
  <2>13. DoneSoFar(t, M)
    BY <1>2, <1>3, <1>4, <2>10, <2>11, <2>12, OneMoreDone
  <2>14. HasFound(t, rows')
    BY <1>4 DEF HasFound
  <2>15. QED
    BY <2>13, <2>14 DEF DoneAlone, M
<1>15. QED
  BY <1>5, <1>7, <1>13, <1>14, AloneMoves

LEMMA CreateAlone ==
    ASSUME TypeInv, AloneInv, NEW h \in Handlers, GetOrCreate(h)
    PROVE  AloneInv'
<1> DEFINE q == task[h]
           c == Current(h)
           pk == Cardinality(rows) + 1
           new == Row(pk, c)
           there == \E r \in rows : r.at = c.at /\ r.type = c.type
<1>1. q \in TaskSet /\ q.phase = "found" /\ q.pk = 0 /\ TaskRight(q, Pks, derived)
  BY DEF GetOrCreate, TypeInv
<1>2. q.labels # {} /\ q.labels \subseteq q.wanted /\ q.wanted \subseteq LabelSet
  BY <1>1, TaskFields DEF TaskRight
<1>3. c \in q.labels /\ c \in LabelSet /\ \A k \in q.labels : c.at <= k.at
  BY <1>2, CurrentIsOne, CurrentIsEarliest
<1>4. rows' = IF there THEN rows ELSE rows \cup {new}
  BY DEF GetOrCreate
<1>5. alone' \subseteq alone \cup {h} /\ (rows' = rows \/ alone' \subseteq {h})
      /\ (h \in alone' => h \in alone)
  BY DEF GetOrCreate, Undisturbed
<1>6. pk \in Nat /\ pk # 0
  <2>1. Cardinality(rows) \in Nat
    BY FS_CardinalityType DEF TypeInv
  <2>2. QED
    BY <2>1
<1>7. PICK t \in {Skipped(q, c), Created(q, c, pk)} : task' = [task EXCEPT ![h] = t]
  BY CreateMoves
<1> HIDE DEF pk, c
<1>8. new.pk = pk /\ new.at = c.at /\ new.type = c.type
  BY <1>3, <1>6, RowFields
<1>9. /\ t.phase \in {"storing", "created"} /\ t.labels = q.labels \ {c} /\ t.wanted = q.wanted
      /\ t.base = q.base
  <2> HIDE DEF q
  <2>1. /\ Skipped(q, c).phase = "storing" /\ Skipped(q, c).labels = q.labels \ {c}
        /\ Skipped(q, c).wanted = q.wanted /\ Skipped(q, c).base = q.base
        /\ Created(q, c, pk).phase = "created" /\ Created(q, c, pk).labels = q.labels \ {c}
        /\ Created(q, c, pk).wanted = q.wanted /\ Created(q, c, pk).base = q.base
    BY <1>1, <1>6 DEF Skipped, Created, TaskSet
  <2>2. QED
    BY <1>7, <2>1
<1> HIDE DEF new
<1>10. UniqueRows'
  BY <1>4, <1>6, <1>8 DEF AloneInv, UniqueRows
<1>11. rows \subseteq RowSet
  BY DEF TypeInv
<1>12. ASSUME h \in alone' PROVE DoneAlone(t, rows')
  <2> DEFINE L == Ledger(rows)
             M == Ledger(rows')
  <2>1. DoneSoFar(q, L) /\ HasFound(q, rows)
    BY <1>1, <1>5, <1>12 DEF AloneInv, DoneAlone
  <2>2. c \in L \/ At(L, c.at) = {}
    BY <1>1, <1>3, <2>1 DEF HasFound
  <2>3. there <=> c \in L
    BY <1>3, <1>11, InLedger
  <2>4. (c \in L /\ M = L) \/ (c \notin L /\ M = L \cup {c})
    <3>1. CASE there
      BY <1>4, <2>3, <3>1
    <3>2. CASE ~there
      <4>1. c = Label(new.type, new.at)
        BY <1>3, <1>8 DEF LabelSet, Label
      <4>2. rows' = rows \cup {new}
        BY <1>4, <3>2
      <4>3. QED
        BY <2>3, <3>2, <4>1, <4>2 DEF Ledger
    <3>3. QED
      BY <3>1, <3>2
  <2> HIDE DEF L, M, q
  <2>5. \A i \in Clock : i # c.at => At(M, i) = At(L, i)
    BY <2>4 DEF At
  <2>6. MayBecome(At(L, c.at), c, At(M, c.at))
    BY <2>2, <2>4 DEF At, MayBecome
  <2>7. DoneSoFar(t, M)
    BY <1>2, <1>3, <1>9, <2>1, <2>5, <2>6, OneMoreDone
  <2>8. HasFound(t, rows')
    BY <1>9 DEF HasFound
  <2>9. QED
    BY <2>7, <2>8 DEF DoneAlone, M
<1>13. QED
  BY <1>5, <1>7, <1>10, <1>12, AloneMoves

LEMMA NotifyAlone ==
    ASSUME TypeInv, AloneInv, NEW h \in Handlers, Notify(h) \/ NotifyFails(h)
    PROVE  AloneInv'
<1> DEFINE t == Told(task[h])
<1>1. task[h] \in TaskSet /\ task[h].phase = "created" /\ rows' = rows /\ alone' = alone
  BY DEF Notify, NotifyFails, TypeInv
<1>2. /\ t.phase = "storing" /\ t.labels = task[h].labels /\ t.wanted = task[h].wanted
      /\ t.base = task[h].base
  BY <1>1 DEF Told, TaskSet
<1>3. task' = [task EXCEPT ![h] = t]
  BY DEF Notify, NotifyFails, Told
<1> HIDE DEF t
<1>4. h \in alone => DoneAlone(t, rows)
  BY <1>1, <1>2 DEF AloneInv, DoneAlone, DoneSoFar, HasFound
<1>5. UniqueRows'
  BY <1>1 DEF AloneInv, UniqueRows
<1>6. QED
  BY <1>1, <1>3, <1>4, <1>5, AloneMoves

LEMMA JudgeAlone ==
    ASSUME TypeInv, AloneInv, NEW h \in Handlers,
           StartDay(h) \/ CommitDay(h) \/ Clash(h) \/ Crash(h)
    PROVE  AloneInv'
<1>1. rows' = rows /\ alone' \subseteq alone \cup {h}
  BY DEF StartDay, CommitDay, Clash, Crash, Dies
<1>2. UniqueRows'
  BY <1>1 DEF AloneInv, UniqueRows
<1>3. CASE StartDay(h)
  <2> DEFINE t == Judge(task[h], Ledger(rows), derived)
  <2>1. task' = [task EXCEPT ![h] = t] /\ task'[h].phase = "judging"
    BY <1>3, StartMoves
  <2> HIDE DEF t
  <2>2. t.phase = "judging"
    BY <2>1, OneMoves
  <2>3. DoneAlone(t, rows')
    BY <2>2 DEF DoneAlone
  <2>4. QED
    BY <1>1, <1>2, <2>1, <2>3, AloneMoves
<1>4. CASE CommitDay(h) \/ Clash(h) \/ Crash(h)
  <2>1. PICK t : task' = [task EXCEPT ![h] = t]
    BY <1>4 DEF CommitDay, Clash, Crash, Dies
  <2>2. h \notin alone'
    BY <1>4 DEF CommitDay, Clash, Crash, Dies
  <2>3. QED
    BY <1>1, <1>2, <2>1, <2>2, AloneMoves
<1>5. QED
  BY <1>3, <1>4

LEMMA AlonePreserved ==
    TypeInv /\ StoredInv /\ CountInv /\ AloneInv /\ [Next]_vars => AloneInv'
<1> SUFFICES ASSUME TypeInv, StoredInv, CountInv, AloneInv, [Next]_vars PROVE AloneInv'
  OBVIOUS
<1>1. CASE UNCHANGED <<rows, task, alone>>
  BY <1>1 DEF AloneInv, UniqueRows
<1>2. ASSUME NEW t \in Clock, NEW heard \in BOOLEAN, Press(t, heard) PROVE AloneInv'
  BY <1>1, <1>2 DEF Press
<1>3. CASE ListenerBegin \/ \E h \in SyncTasks : SyncBegin(h)
  BY <1>3, Begins, BeginAlone
<1>4. ASSUME NEW h \in Handlers, Step(h) \/ NotifyFails(h) \/ Crash(h) PROVE AloneInv'
  BY <1>4, LookAlone, RelabelAlone, CreateAlone, NotifyAlone, JudgeAlone DEF Step
<1>5. CASE UNCHANGED vars
  BY <1>1, <1>5 DEF vars
<1>6. QED
  BY <1>2, <1>3, <1>4, <1>5 DEF Next

\* What a label may become in the ledger is what _store_log may leave of rows.
LEMMA StoringOutcome ==
    ASSUME NEW A, A \subseteq LabelSet, NEW B, NEW l \in LabelSet, \A a \in A : a.at = l.at,
           MayBecome(A, l, B)
    PROVE  AsLogs(B) \in Atomic!StoreOutcomes(AsLogs(A), l)
<1> DEFINE row(a) == Atomic!Log(a.at, a.type, "DEVICE")
           rowsA == AsLogs(A)
           same == Atomic!DeviceRows(Atomic!RowsAt(rowsA, l.at))
<1>1. \A a : row(a).at = a.at /\ row(a).type = a.type /\ row(a).source = "DEVICE"
  BY DEF Atomic!Log
<1>2. \A a \in A, b \in A \cup {l} : row(a) = row(b) => a = b
  <2>1. \A a \in A \cup {l} : a = Label(a.type, a.at)
    BY DEF LabelSet, Label
  <2> HIDE DEF row
  <2>2. QED
    BY <1>1, <2>1
<1>3. Atomic!RowsAt(rowsA, l.at) = rowsA /\ same = rowsA
  BY <1>1 DEF AsLogs, Atomic!RowsAt, Atomic!DeviceRows
<1>4. (\E r \in rowsA : r.type = l.type) <=> l \in A
  <2>1. \A a \in A : a.type = l.type => a = l
    BY DEF LabelSet
  <2>2. QED
    BY <1>1, <2>1 DEF AsLogs
<1>5. CASE l \in A /\ B = A
  BY <1>3, <1>4, <1>5 DEF Atomic!StoreOutcomes
<1>6. CASE l \notin A /\ A = {} /\ B = {l}
  <2>1. rowsA = {} /\ AsLogs(B) = {row(l)}
    BY <1>6 DEF AsLogs
  <2>2. QED
    BY <1>3, <1>4, <1>6, <2>1 DEF Atomic!StoreOutcomes
<1>7. CASE l \notin A /\ \E s \in A : B = (A \ {s}) \cup {l}
  <2>1. PICK s \in A : B = (A \ {s}) \cup {l}
    BY <1>7
  <2>2. row(s) \in rowsA
    BY DEF AsLogs
  <2>3. [row(s) EXCEPT !.type = l.type] = row(l)
    BY DEF Atomic!Log
  <2>4. AsLogs(B) = (rowsA \ {row(s)}) \cup {row(l)}
    BY <1>2, <2>1 DEF AsLogs
  <2>5. Atomic!StoreOutcomes(rowsA, l)
          = {(rowsA \ {stale}) \cup {[stale EXCEPT !.type = l.type]} : stale \in rowsA}
    <3> HIDE DEF rowsA
    <3>1. QED
      BY <1>3, <1>4, <1>7, <2>2 DEF Atomic!StoreOutcomes
  <2> HIDE DEF row, rowsA
  <2>6. AsLogs(B) \in {(rowsA \ {stale}) \cup {[stale EXCEPT !.type = l.type]} : stale \in rowsA}
    BY <2>2, <2>3, <2>4
  <2>7. QED
    BY <2>5, <2>6 DEF rowsA
<1>8. QED
  BY <1>5, <1>6, <1>7 DEF MayBecome

\* What a handler stores while no other one writes is what the day's ledger
\* module takes for one atomic step, in every state a race may have left.
THEOREM AloneHandlersAreAtomic == Spec => []AloneIsAtomic
<1>1. TypeInv /\ AloneInv => AloneIsAtomic
  <2> SUFFICES ASSUME TypeInv, AloneInv, NEW h \in alone, task[h].phase = "storing",
                      task[h].labels = {}, NEW i \in Clock
               PROVE  LET before == LogsAt(task[h].base, i)
                          after == LogsAt(Ledger(rows), i)
                          mine == {l \in task[h].wanted : l.at = i}
                      IN  IF mine = {} THEN after = before
                          ELSE \E l \in mine : after \in Atomic!StoreOutcomes(before, l)
    BY DEF AloneIsAtomic
  <2> DEFINE A == At(task[h].base, i)
             B == At(Ledger(rows), i)
             mine == {l \in task[h].wanted : l.at = i}
  <2>1. LogsAt(task[h].base, i) = AsLogs(A) /\ LogsAt(Ledger(rows), i) = AsLogs(B)
    BY DEF LogsAt, At
  <2>2. DoneSoFar(task[h], Ledger(rows))
    BY DEF AloneInv, DoneAlone
  <2>3. mine = {} => A = B
    BY <2>2 DEF DoneSoFar
  <2>4. ASSUME NEW l \in mine PROVE AsLogs(B) \in Atomic!StoreOutcomes(AsLogs(A), l)
    <3>1. MayBecome(A, l, B)
      BY <2>2 DEF DoneSoFar
    <3>2. h \in Handlers /\ task[h] \in TaskSet
      BY DEF TypeInv
    <3>3. A \subseteq LabelSet /\ l \in LabelSet /\ \A a \in A : a.at = l.at
      BY <3>2, TaskFields DEF At
    <3> HIDE DEF A, B
    <3>4. QED
      BY <3>1, <3>3, StoringOutcome
  <2> HIDE DEF A, B
  <2>5. QED
    BY <2>1, <2>3, <2>4
<1>2. Init => AloneInv
  BY DEF Init, AloneInv, UniqueRows
<1>3. QED
  BY <1>1, <1>2, TypeInvariant, StoredInit, StoredPreserved, CountInit, CountPreserved,
     AlonePreserved, PTL DEF Spec
=============================================================================
