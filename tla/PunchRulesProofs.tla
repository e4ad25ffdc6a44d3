-------------------------- MODULE PunchRulesProofs --------------------------
(***************************************************************************)
(* Lemmas about the operators of PunchRules, for every set of punches:     *)
(* what the labels are, that unused punches do not matter, and what more   *)
(* punches, in order or read late, may change.                             *)
(***************************************************************************)
EXTENDS PunchRules, WellFoundedInduction, TLAPS

\* A non-empty set of naturals has a least element.
LEMMA LeastNatural ==
    ASSUME NEW S, S \subseteq Nat, S # {}
    PROVE  \E m \in S : \A n \in S : m <= n
<1>1. \E m \in S : \A n \in S : <<n, m>> \notin OpToRel(<, Nat)
  BY NatLessThanWellFounded, WFMin
<1>2. PICK m \in S : \A n \in S : <<n, m>> \notin OpToRel(<, Nat)
  BY <1>1
<1>3. \A n \in S : ~(n < m)
  BY <1>2 DEF OpToRel
<1>4. QED
  BY <1>3

\* A non-empty set of naturals with an upper bound has a greatest element.
LEMMA GreatestNatural ==
    ASSUME NEW B \in Nat, NEW S, S \subseteq 0..B, S # {}
    PROVE  \E m \in S : \A n \in S : n <= m
<1> DEFINE T == {B - n : n \in S}
<1>1. T \subseteq Nat
  <2>1. \A n \in S : B - n \in Nat
    OBVIOUS
  <2>2. QED
    BY <2>1
<1>0. T # {}
  OBVIOUS
<1>2. PICK k \in T : \A j \in T : k <= j
  BY <1>1, <1>0, LeastNatural
<1>3. PICK m \in S : k = B - m
  BY <1>2
<1>4. \A n \in S : k <= B - n
  BY <1>2
<1>5. QED
  BY <1>3, <1>4

\* Earliest and Latest pick an element of the set they are applied to.
LEMMA EarliestLatest ==
    ASSUME NEW B \in Nat, NEW S, S \subseteq 0..B, S # {}
    PROVE  /\ Earliest(S) \in S /\ \A t \in S : Earliest(S) <= t
           /\ Latest(S) \in S /\ \A t \in S : t <= Latest(S)
<1> S \subseteq Nat
  OBVIOUS
<1>1. \E m \in S : \A n \in S : m <= n
  BY LeastNatural
<1>2. \E m \in S : \A n \in S : n <= m
  BY GreatestNatural
<1>3. QED
  BY <1>1, <1>2 DEF Earliest, Latest

\* Labels of distinct punches of T, with the log types of the system.
WellLabelled(labels, T) ==
    /\ \A l \in labels : l.at \in T /\ l.type \in LogTypes /\ l = Label(l.type, l.at)
    /\ \A l, k \in labels : l.at = k.at => l = k

\* Labels of disjoint sets of punches may be put together.
LEMMA WellLabelledUnion ==
    ASSUME NEW F, NEW G, NEW T, NEW U, WellLabelled(F, T), WellLabelled(G, U), T \cap U = {}
    PROVE  WellLabelled(F \cup G, T \cup U)
BY DEF WellLabelled

LEMMA WellLabelledSubset ==
    ASSUME NEW G, NEW T, NEW U, WellLabelled(G, T), T \subseteq U
    PROVE  WellLabelled(G, U)
BY DEF WellLabelled

\* A group labels only its own punches, with its own two types, and never one
\* punch with both.
LEMMA GroupInOutLabels ==
    ASSUME NEW B \in Nat, NEW S, S \subseteq 0..B,
           NEW inType \in LogTypes, NEW outType \in LogTypes, NEW closes
    PROVE  WellLabelled(GroupInOut(S, inType, outType, closes), S)
<1> DEFINE G == GroupInOut(S, inType, outType, closes)
           first == Label(inType, Earliest(S))
           last == Label(outType, Latest(S))
<1>1. CASE S = {}
  BY <1>1 DEF GroupInOut, WellLabelled
<1>2. CASE S # {}
  <2>0. Earliest(S) \in S /\ Latest(S) \in S
    BY <1>2, EarliestLatest
  <2> S \subseteq Int
    OBVIOUS
  <2> HIDE DEF G, first, last
  <2>1. /\ Earliest(S) \in S /\ Latest(S) \in S
        /\ Earliest(S) \in Int /\ Latest(S) \in Int
    BY <2>0
  <2>2. /\ first.at = Earliest(S) /\ first.type = inType /\ first = Label(first.type, first.at)
        /\ last.at = Latest(S) /\ last.type = outType /\ last = Label(last.type, last.at)
    BY DEF Label, first, last
  <2>3. CASE Latest(S) - Earliest(S) >= DUPLICATE_PUNCH_WINDOW
    <3>1. Earliest(S) # Latest(S)
      BY <2>1, <2>3 DEF DUPLICATE_PUNCH_WINDOW
    <3>2. G \subseteq {first, last}
      BY <1>2 DEF GroupInOut, G, first, last
    <3>3. QED
      BY <2>1, <2>2, <3>1, <3>2 DEF WellLabelled, G
  <2>4. CASE ~(Latest(S) - Earliest(S) >= DUPLICATE_PUNCH_WINDOW)
    <3>1. G = {first} \/ G = {last}
      BY <1>2, <2>4 DEF GroupInOut, G, first, last
    <3>2. QED
      BY <2>1, <2>2, <3>1 DEF WellLabelled, G
  <2>5. QED
    BY <2>3, <2>4
<1>3. QED
  BY <1>1, <1>2

\* The labels of a day name punches of the day, carry known types, and never
\* label one punch twice: what makes "one physical punch is one row" possible.
THEOREM ClassifyDayLabels ==
    ASSUME NEW B \in Nat, NEW S, S \subseteq 0..B,
           NEW isFulltime, NEW sched, NEW otStart
    PROVE  WellLabelled(ClassifyDay(S, isFulltime, sched, otStart), S)
<1> DEFINE am == {t \in S : t <= sched.midpoint}
           ot == {t \in S \ am : otStart # NoTime /\ t >= otStart}
           pm == S \ (am \cup ot)
           lunch == {t \in pm : t < sched.pm_in}
           afternoon == {t \in pm : t - Earliest(lunch) >= LUNCH_DUPLICATE_WINDOW}
           M == GroupInOut(am, "AM_IN", "AM_OUT", sched.am_out)
           L == {Label("AM_OUT", Earliest(lunch))}
           A == GroupInOut(afternoon, "PM_IN", "PM_OUT", sched.pm_out)
           P == GroupInOut(pm, "PM_IN", "PM_OUT", sched.pm_out)
           O == GroupInOut(ot, "OT_IN", "OT_OUT", NoTime)
<1>1. /\ am \subseteq 0..B /\ ot \subseteq 0..B /\ pm \subseteq 0..B
      /\ afternoon \subseteq 0..B /\ lunch \subseteq 0..B
  OBVIOUS
<1>2. FULLTIME_TYPES \subseteq LogTypes /\ PARTTIME_TYPES \subseteq LogTypes
  BY DEF LogTypes
<1> HIDE DEF am, ot, pm, lunch, afternoon
<1>3. WellLabelled(M, am)
  BY <1>1, <1>2, GroupInOutLabels DEF FULLTIME_TYPES
<1>4. WellLabelled(P, pm)
  BY <1>1, <1>2, GroupInOutLabels DEF FULLTIME_TYPES
<1>5. WellLabelled(A, afternoon)
  BY <1>1, <1>2, GroupInOutLabels DEF FULLTIME_TYPES
<1>6. WellLabelled(O, ot)
  BY <1>1, <1>2, GroupInOutLabels DEF FULLTIME_TYPES
<1> HIDE DEF M, P, A, O
<1>7. am \cap pm = {} /\ (am \cup pm) \cap ot = {} /\ (am \cup pm) \cup ot = S
  BY DEF am, pm, ot
<1>8. WellLabelled(M \cup P, am \cup pm)
  BY <1>3, <1>4, <1>7, WellLabelledUnion
<1>9. lunch # {} => WellLabelled(M \cup L \cup A, am \cup pm)
  <2> SUFFICES ASSUME lunch # {} PROVE WellLabelled((M \cup L) \cup A, am \cup pm)
    OBVIOUS
  <2>1. Earliest(lunch) \in lunch
    BY <1>1, EarliestLatest
  <2>2. WellLabelled(L, {Earliest(lunch)})
    BY <1>2 DEF WellLabelled, Label, FULLTIME_TYPES
  <2>3. am \cap {Earliest(lunch)} = {} /\ Earliest(lunch) \in pm
    BY <2>1, <1>7 DEF lunch
  <2>4. WellLabelled(M \cup L, am \cup {Earliest(lunch)})
    BY <1>3, <2>2, <2>3, WellLabelledUnion
  <2>5. Earliest(lunch) \notin afternoon
    BY <1>1, <2>1 DEF afternoon, LUNCH_DUPLICATE_WINDOW
  <2>6. afternoon \subseteq pm
    BY DEF afternoon
  <2>7. (am \cup {Earliest(lunch)}) \cap afternoon = {}
    BY <1>7, <2>5, <2>6
  <2>8. WellLabelled((M \cup L) \cup A, (am \cup {Earliest(lunch)}) \cup afternoon)
    BY <1>5, <2>4, <2>7, WellLabelledUnion
  <2>9. (am \cup {Earliest(lunch)}) \cup afternoon \subseteq am \cup pm
    BY <2>3, <2>6
  <2>10. QED
    BY <2>8, <2>9, WellLabelledSubset
<1>10. WellLabelled(AssignFulltimePunches(S, sched, otStart), S)
  <2>1. \/ AssignFulltimePunches(S, sched, otStart) = (M \cup P) \cup O
        \/ /\ AssignFulltimePunches(S, sched, otStart) = (M \cup L \cup A) \cup O
           /\ lunch # {}
    BY DEF AssignFulltimePunches, M, P, A, O, am, pm, ot, lunch, afternoon
  <2>2. CASE AssignFulltimePunches(S, sched, otStart) = (M \cup P) \cup O
    BY <1>6, <1>7, <1>8, <2>2, WellLabelledUnion
  <2>3. CASE /\ AssignFulltimePunches(S, sched, otStart) = (M \cup L \cup A) \cup O
             /\ lunch # {}
    BY <1>6, <1>7, <1>9, <2>3, WellLabelledUnion
  <2>4. QED
    BY <2>1, <2>2, <2>3
<1>11. WellLabelled(AssignParttimePunches(S), S)
  BY <1>2, GroupInOutLabels DEF AssignParttimePunches, PARTTIME_TYPES
<1>12. QED
  BY <1>10, <1>11 DEF ClassifyDay

\* A day's log of a type is the moment of one of its rows.
LEMMA DayLogsType ==
    ASSUME NEW B \in Nat, NEW rows, \A r \in rows : r.at \in 0..B
    PROVE  DayLogs(rows) \in [LogTypes -> (0..B) \cup {NoTime}]
<1> SUFFICES ASSUME NEW type \in LogTypes
             PROVE  DayLogs(rows)[type] \in (0..B) \cup {NoTime}
  BY DEF DayLogs
<1> DEFINE times == {l.at : l \in {k \in rows : k.type = type}}
<1>1. times \subseteq 0..B
  OBVIOUS
<1> HIDE DEF times
<1>2. times # {} => Earliest(times) \in 0..B /\ Latest(times) \in 0..B
  BY <1>1, EarliestLatest
<1>3. DayLogs(rows)[type] = IF times = {} THEN NoTime
                            ELSE IF type \in OutTypes THEN Latest(times) ELSE Earliest(times)
  BY DEF DayLogs, times
<1>4. QED
  BY <1>2, <1>3

\* process_day writes well-formed rows: no negative minutes, a known reason.
LEMMA ProcessFulltimeType ==
    ASSUME NEW B \in Nat, NEW day \in [LogTypes -> (0..B) \cup {NoTime}],
           NEW sched \in Schedules, NEW otStart \in Nat \cup {NoTime}, NEW t
    PROVE  /\ ProcessFulltime(day, sched, otStart, t) \in Tables
           /\ [NoRows EXCEPT !.overtime = ComputeOvertime(day, otStart)] \in Tables
<1>1. \A type \in LogTypes : day[type] \in Int
  BY DEF NoTime
<1>2. \A s \in Sessions : InType(s) \in LogTypes /\ OutType(s) \in LogTypes
  BY DEF Sessions, InType, OutType, LogTypes, FULLTIME_TYPES
<1>3. \A n \in Int : AtLeastZero(n) \in Nat
  BY DEF AtLeastZero
<1>4. \A n \in Int : MinuteOf(n) \in Int
  BY DEF MinuteOf
<1>5. \A s \in Sessions : SessionIn(sched, s) \in Nat /\ SessionOut(sched, s) \in Nat
  BY DEF Schedules, SessionIn, SessionOut
<1>6. sched.grace_period_minutes \in Nat
  BY DEF Schedules
<1>7. \A s \in Sessions :
        /\ MinutesLate(day[InType(s)], SessionIn(sched, s), sched.grace_period_minutes) \in Nat
        /\ MinutesUndertime(day[OutType(s)], SessionOut(sched, s)) \in Nat
  <2> TAKE s \in Sessions
  <2>1. day[InType(s)] \in Int /\ day[OutType(s)] \in Int
    BY <1>1, <1>2
  <2>2. /\ MinuteOf(day[InType(s)]) \in Int /\ MinuteOf(day[OutType(s)]) \in Int
        /\ MinuteOf(SessionIn(sched, s)) \in Int /\ MinuteOf(SessionOut(sched, s)) \in Int
    BY <1>4, <1>5, <2>1
  <2>3. QED
    BY <1>3, <1>6, <2>2 DEF MinutesLate, MinutesUndertime
<1>8. \A s \in Sessions : AbsenceOf(day, s, SessionOut(sched, s), t) \in Reasons \cup {NotAbsent}
  BY DEF AbsenceOf, Reasons, NotAbsent
<1>9. ComputeOvertime(day, otStart) \in Nat \cup {NoTime}
  <2>1. "OT_IN" \in LogTypes /\ "OT_OUT" \in LogTypes
    BY DEF LogTypes, FULLTIME_TYPES
  <2>2. \A a, b \in Int : (a - b) \div 60 \in Int
    OBVIOUS
  <2>3. day["OT_IN"] \in Int /\ day["OT_OUT"] \in Int /\ otStart \in Int
    BY <1>1, <2>1 DEF NoTime
  <2>4. QED
    BY <1>3, <2>2, <2>3 DEF ComputeOvertime
<1>10. QED
  BY <1>7, <1>8, <1>9 DEF ProcessFulltime, Tables, NoRows

----------------------------------------------------------------------------
(* The parts of a full-timer's day, as AssignFulltimePunches splits it.    *)

MorningOf(S, sched) == {t \in S : t <= sched.midpoint}
OvertimeOf(S, sched, otStart) == {t \in S \ MorningOf(S, sched) : otStart # NoTime /\ t >= otStart}
AfternoonOf(S, sched, otStart) == S \ (MorningOf(S, sched) \cup OvertimeOf(S, sched, otStart))
LunchOf(S, sched, otStart) == {t \in AfternoonOf(S, sched, otStart) : t < sched.pm_in}
MorningLabels(S, sched) == GroupInOut(MorningOf(S, sched), "AM_IN", "AM_OUT", sched.am_out)
ForgotAmOut(S, sched, otStart) ==
    /\ Labelled(MorningLabels(S, sched), "AM_IN")
    /\ ~Labelled(MorningLabels(S, sched), "AM_OUT")
    /\ LunchOf(S, sched, otStart) # {}
AfterLunch(S, sched, otStart) ==
    {t \in AfternoonOf(S, sched, otStart) :
        t - Earliest(LunchOf(S, sched, otStart)) >= LUNCH_DUPLICATE_WINDOW}
PmLabels(S, sched) == GroupInOut(S, "PM_IN", "PM_OUT", sched.pm_out)
OtLabels(S) == GroupInOut(S, "OT_IN", "OT_OUT", NoTime)

\* The two shapes of a full-timer's labels.
LEMMA AssignShape ==
    ASSUME NEW S, NEW sched, NEW otStart
    PROVE  AssignFulltimePunches(S, sched, otStart) =
             (IF ForgotAmOut(S, sched, otStart)
              THEN MorningLabels(S, sched)
                   \cup {Label("AM_OUT", Earliest(LunchOf(S, sched, otStart)))}
                   \cup PmLabels(AfterLunch(S, sched, otStart), sched)
              ELSE MorningLabels(S, sched) \cup PmLabels(AfternoonOf(S, sched, otStart), sched))
             \cup OtLabels(OvertimeOf(S, sched, otStart))
BY DEF AssignFulltimePunches, MorningOf, OvertimeOf, AfternoonOf, LunchOf, MorningLabels,
       ForgotAmOut, AfterLunch, PmLabels, OtLabels

----------------------------------------------------------------------------
(* Punches the rules do not use do not matter.                             *)

\* The extremes of a subset that holds them are those of the set.
LEMMA SameExtremes ==
    ASSUME NEW B \in Nat, NEW S, S \subseteq 0..B, NEW T, T \subseteq S, T # {}
    PROVE  /\ Earliest(S) <= Earliest(T) /\ Latest(T) <= Latest(S)
           /\ Earliest(T) <= Latest(T)
           /\ Earliest(S) \in Nat /\ Latest(S) \in Nat
           /\ Earliest(T) \in Nat /\ Latest(T) \in Nat
           /\ Earliest(S) \in T => Earliest(T) = Earliest(S)
           /\ Latest(S) \in T => Latest(T) = Latest(S)
<1>1. S # {} /\ T \subseteq 0..B
  OBVIOUS
<1>2. /\ Earliest(S) \in S /\ \A t \in S : Earliest(S) <= t
      /\ Latest(S) \in S /\ \A t \in S : t <= Latest(S)
  BY <1>1, EarliestLatest
<1>3. /\ Earliest(T) \in T /\ \A t \in T : Earliest(T) <= t
      /\ Latest(T) \in T /\ \A t \in T : t <= Latest(T)
  BY <1>1, EarliestLatest
<1>4. /\ Earliest(S) \in Nat /\ Latest(S) \in Nat /\ Earliest(T) \in Nat /\ Latest(T) \in Nat
  <2>1. \A t \in 0..B : t \in Nat
    OBVIOUS
  <2>2. QED
    BY <1>1, <1>2, <1>3, <2>1
<1>5. Earliest(S) <= Earliest(T) /\ Latest(T) <= Latest(S) /\ Earliest(T) <= Latest(T)
  BY <1>2, <1>3
<1>6. Earliest(S) \in T => Earliest(T) = Earliest(S)
  <2>1. Earliest(S) \in T => Earliest(T) <= Earliest(S)
    BY <1>3
  <2>2. QED
    BY <1>4, <1>5, <2>1
<1>7. Latest(S) \in T => Latest(T) = Latest(S)
  <2>1. Latest(S) \in T => Latest(S) <= Latest(T)
    BY <1>3
  <2>2. QED
    BY <1>4, <1>5, <2>1
<1>8. QED
  BY <1>4, <1>5, <1>6, <1>7

\* A day's punches: moments below some bound.
Punches(S) == \E B \in Nat : S \subseteq 0..B

\* A schedule's moment, or none.
IsMoment(t) == t \in Int

IsSchedule(sched) == sched \in Schedules

\* The labels name punches of T.
Within(labels, T) == \A l \in labels : l.at \in T

\* A group's labels are decided by the punches they name.
LEMMA GroupUsesItsLabels ==
    ASSUME NEW S, Punches(S), NEW T, T \subseteq S,
           NEW inType, NEW outType, NEW closes, IsMoment(closes),
           Within(GroupInOut(S, inType, outType, closes), T)
    PROVE  GroupInOut(T, inType, outType, closes) = GroupInOut(S, inType, outType, closes)
<1> DEFINE first == Label(inType, Earliest(S))
           last == Label(outType, Latest(S))
<1>0. first.at = Earliest(S) /\ last.at = Latest(S)
  BY DEF Label
<1> PICK B \in Nat : S \subseteq 0..B
  BY DEF Punches
<1> closes \in Int
  BY DEF IsMoment
<1>1. CASE S = {}
  <2>1. T = S
    BY <1>1
  <2>2. QED
    BY <2>1
<1>2. CASE S # {} /\ closes # NoTime /\ Earliest(S) >= closes
  <2>1. GroupInOut(S, inType, outType, closes) = {last}
    BY <1>2 DEF GroupInOut
  <2>2. Latest(S) \in T
    BY <1>0, <2>1 DEF Within
  <2>3. T # {} /\ Latest(T) = Latest(S) /\ Earliest(T) >= closes
    <3>1. T # {}
      BY <2>2
    <3>2. Earliest(S) <= Earliest(T) /\ Earliest(S) \in Nat /\ Earliest(T) \in Nat
      BY <3>1, SameExtremes
    <3>3. Latest(T) = Latest(S)
      BY <2>2, <3>1, SameExtremes
    <3>4. \A a, b \in Nat : a >= closes /\ a <= b => b >= closes
      OBVIOUS
    <3>5. Earliest(T) >= closes
      BY <1>2, <3>2, <3>4
    <3>6. QED
      BY <3>1, <3>3, <3>5
  <2>4. GroupInOut(T, inType, outType, closes) = {Label(outType, Latest(T))}
    BY <1>2, <2>3 DEF GroupInOut
  <2>5. QED
    BY <2>1, <2>3, <2>4
<1>3. CASE S # {} /\ ~(closes # NoTime /\ Earliest(S) >= closes)
  <2>1. GroupInOut(S, inType, outType, closes) =
          {first} \cup (IF Latest(S) - Earliest(S) >= DUPLICATE_PUNCH_WINDOW THEN {last} ELSE {})
    BY <1>3 DEF GroupInOut
  <2>2. Earliest(S) \in T
    BY <1>0, <2>1 DEF Within
  <2>3. T # {}
    BY <2>2
  <2>4. Earliest(T) = Earliest(S)
    BY <2>2, <2>3, SameExtremes
  <2>5. GroupInOut(T, inType, outType, closes) =
          {first} \cup (IF Latest(T) - Earliest(S) >= DUPLICATE_PUNCH_WINDOW
                        THEN {Label(outType, Latest(T))} ELSE {})
    BY <1>3, <2>3, <2>4 DEF GroupInOut
  <2>6. Latest(T) <= Latest(S) /\ Earliest(S) \in Nat /\ Latest(S) \in Nat /\ Latest(T) \in Nat
    BY <2>3, SameExtremes
  <2>7. CASE Latest(S) - Earliest(S) >= DUPLICATE_PUNCH_WINDOW
    <3>1. Latest(S) \in T
      BY <1>0, <2>1, <2>7 DEF Within
    <3>2. Latest(T) = Latest(S)
      BY <2>3, <3>1, SameExtremes
    <3>3. QED
      BY <2>1, <2>5, <3>2
  <2>8. CASE ~(Latest(S) - Earliest(S) >= DUPLICATE_PUNCH_WINDOW)
    <3>1. ~(Latest(T) - Earliest(S) >= DUPLICATE_PUNCH_WINDOW)
      BY <2>6, <2>8 DEF DUPLICATE_PUNCH_WINDOW
    <3>2. QED
      BY <2>1, <2>5, <2>8, <3>1
  <2>9. QED
    BY <2>7, <2>8
<1>4. QED
  BY <1>1, <1>2, <1>3

\* A punch the rules give no meaning may be dropped from the day, or put back,
\* without changing what the others mean.
THEOREM UnusedPunchesDoNotMatter ==
    ASSUME NEW S, Punches(S), NEW T, T \subseteq S,
           NEW isFulltime, NEW sched, IsSchedule(sched), NEW otStart,
           Within(ClassifyDay(S, isFulltime, sched, otStart), T)
    PROVE  ClassifyDay(T, isFulltime, sched, otStart) = ClassifyDay(S, isFulltime, sched, otStart)
<1>1. CASE ~isFulltime
  <2>1. ClassifyDay(S, isFulltime, sched, otStart) = GroupInOut(S, "IN", "OUT", NoTime)
    BY <1>1 DEF ClassifyDay, AssignParttimePunches
  <2>2. ClassifyDay(T, isFulltime, sched, otStart) = GroupInOut(T, "IN", "OUT", NoTime)
    BY <1>1 DEF ClassifyDay, AssignParttimePunches
  <2>3. IsMoment(NoTime)
    BY DEF NoTime, IsMoment
  <2>4. QED
    BY <2>1, <2>2, <2>3, GroupUsesItsLabels
<1>2. CASE isFulltime
  <2> DEFINE am == MorningOf(S, sched)
             ot == OvertimeOf(S, sched, otStart)
             pm == AfternoonOf(S, sched, otStart)
             lunch == LunchOf(S, sched, otStart)
             after == AfterLunch(S, sched, otStart)
             used == ClassifyDay(S, isFulltime, sched, otStart)
  <2>0. PICK B \in Nat : S \subseteq 0..B
    BY DEF Punches
  <2>1. used = (IF ForgotAmOut(S, sched, otStart)
                THEN MorningLabels(S, sched) \cup {Label("AM_OUT", Earliest(lunch))}
                     \cup PmLabels(after, sched)
                ELSE MorningLabels(S, sched) \cup PmLabels(pm, sched)) \cup OtLabels(ot)
    BY <1>2, AssignShape DEF ClassifyDay
  <2>2. ClassifyDay(T, isFulltime, sched, otStart) =
          (IF ForgotAmOut(T, sched, otStart)
           THEN MorningLabels(T, sched)
                \cup {Label("AM_OUT", Earliest(LunchOf(T, sched, otStart)))}
                \cup PmLabels(AfterLunch(T, sched, otStart), sched)
           ELSE MorningLabels(T, sched) \cup PmLabels(AfternoonOf(T, sched, otStart), sched))
          \cup OtLabels(OvertimeOf(T, sched, otStart))
    BY <1>2, AssignShape DEF ClassifyDay
  <2>3. /\ am \subseteq 0..B /\ ot \subseteq 0..B /\ pm \subseteq 0..B
        /\ lunch \subseteq 0..B /\ after \subseteq 0..B
    BY <2>0 DEF MorningOf, OvertimeOf, AfternoonOf, LunchOf, AfterLunch
  <2>4. IsMoment(sched.am_out) /\ IsMoment(sched.pm_out) /\ IsMoment(NoTime)
    BY DEF Schedules, NoTime, IsMoment, IsSchedule
  <2>5. /\ MorningOf(T, sched) = am \cap T
        /\ OvertimeOf(T, sched, otStart) = ot \cap T
        /\ AfternoonOf(T, sched, otStart) = pm \cap T
        /\ LunchOf(T, sched, otStart) = lunch \cap T
    BY DEF MorningOf, OvertimeOf, AfternoonOf, LunchOf
  <2>6. \A l \in used : l.at \in T
    BY DEF Within
  <2>7. /\ \A l \in MorningLabels(S, sched) : l.at \in am
        /\ \A l \in OtLabels(ot) : l.at \in ot
        /\ \A l \in PmLabels(pm, sched) : l.at \in pm
        /\ \A l \in PmLabels(after, sched) : l.at \in after
    <3>1. FULLTIME_TYPES \subseteq LogTypes
      BY DEF LogTypes
    <3>2. \A G : G \subseteq 0..B => \A l \in PmLabels(G, sched) : l.at \in G
      BY <3>1, GroupInOutLabels DEF PmLabels, WellLabelled, FULLTIME_TYPES
    <3>3. \A l \in MorningLabels(S, sched) : l.at \in am
      BY <2>3, <3>1, GroupInOutLabels DEF MorningLabels, WellLabelled, FULLTIME_TYPES
    <3>4. \A l \in OtLabels(ot) : l.at \in ot
      BY <2>3, <3>1, GroupInOutLabels DEF OtLabels, WellLabelled, FULLTIME_TYPES
    <3>5. QED
      BY <2>3, <3>2, <3>3, <3>4
  <2> HIDE DEF am, ot, pm, lunch, after, used
  <2>8. MorningLabels(T, sched) = MorningLabels(S, sched)
    <3>1. Within(GroupInOut(am, "AM_IN", "AM_OUT", sched.am_out), MorningOf(T, sched))
      BY <2>1, <2>5, <2>6, <2>7 DEF MorningLabels, am, Within
    <3>2. Punches(am) /\ MorningOf(T, sched) \subseteq am
      BY <2>3, <2>5 DEF Punches
    <3> DEFINE closes == sched.am_out
               amT == MorningOf(T, sched)
    <3>3. /\ IsMoment(closes) /\ Punches(am) /\ amT \subseteq am
          /\ Within(GroupInOut(am, "AM_IN", "AM_OUT", closes), amT)
      BY <2>4, <3>1, <3>2
    <3> HIDE DEF closes, amT
    <3>4. GroupInOut(amT, "AM_IN", "AM_OUT", closes) = GroupInOut(am, "AM_IN", "AM_OUT", closes)
      BY <3>3, GroupUsesItsLabels
    <3>5. MorningLabels(T, sched) = GroupInOut(amT, "AM_IN", "AM_OUT", closes)
      BY DEF MorningLabels, closes, amT
    <3>6. MorningLabels(S, sched) = GroupInOut(am, "AM_IN", "AM_OUT", closes)
      BY DEF MorningLabels, closes, am
    <3>7. QED
      BY <3>4, <3>5, <3>6
  <2>9. OtLabels(OvertimeOf(T, sched, otStart)) = OtLabels(ot)
    <3>1. Within(GroupInOut(ot, "OT_IN", "OT_OUT", NoTime), OvertimeOf(T, sched, otStart))
      BY <2>1, <2>5, <2>6, <2>7 DEF OtLabels, Within
    <3>2. Punches(ot) /\ OvertimeOf(T, sched, otStart) \subseteq ot
      BY <2>3, <2>5 DEF Punches
    <3>3. QED
      BY <2>4, <3>1, <3>2, GroupUsesItsLabels DEF OtLabels
  <2>10. CASE ForgotAmOut(S, sched, otStart)
    <3>1. Label("AM_OUT", Earliest(lunch)) \in used
      BY <2>1, <2>10
    <3>2. Earliest(lunch) \in T
      BY <2>6, <3>1 DEF Label
    <3>3. lunch # {}
      BY <2>10 DEF ForgotAmOut, lunch
    <3>4. Earliest(lunch) \in lunch
      BY <2>3, <3>3, EarliestLatest
    <3>5. lunch \cap T # {} /\ lunch \cap T \subseteq lunch /\ Earliest(lunch) \in lunch \cap T
      BY <3>2, <3>4
    <3>6. Earliest(lunch \cap T) = Earliest(lunch)
      BY <2>3, <3>5, SameExtremes
    <3>7. ForgotAmOut(T, sched, otStart)
      BY <2>5, <2>8, <2>10, <3>5 DEF ForgotAmOut
    <3>8. AfterLunch(T, sched, otStart) = after \cap T
      BY <2>5, <3>6 DEF AfterLunch, after, pm, lunch
    <3>9. Within(GroupInOut(after, "PM_IN", "PM_OUT", sched.pm_out), AfterLunch(T, sched, otStart))
      BY <2>1, <2>6, <2>7, <2>10, <3>8 DEF PmLabels, Within
    <3>10. Punches(after) /\ AfterLunch(T, sched, otStart) \subseteq after
      BY <2>3, <3>8 DEF Punches
    <3>11. PmLabels(AfterLunch(T, sched, otStart), sched) = PmLabels(after, sched)
      <4> DEFINE closes == sched.pm_out
      <4>1. /\ IsMoment(closes)
            /\ Within(GroupInOut(after, "PM_IN", "PM_OUT", closes), AfterLunch(T, sched, otStart))
        BY <2>4, <3>9
      <4> HIDE DEF closes
      <4>2. GroupInOut(AfterLunch(T, sched, otStart), "PM_IN", "PM_OUT", closes)
              = GroupInOut(after, "PM_IN", "PM_OUT", closes)
        BY <3>10, <4>1, GroupUsesItsLabels
      <4>3. QED
        BY <4>2 DEF PmLabels, closes
    <3>12. QED
      BY <2>1, <2>2, <2>5, <2>8, <2>9, <2>10, <3>6, <3>7, <3>11 DEF used
  <2>11. CASE ~ForgotAmOut(S, sched, otStart)
    <3>1. ~ForgotAmOut(T, sched, otStart)
      BY <2>5, <2>8, <2>11 DEF ForgotAmOut, lunch
    <3>2. Within(GroupInOut(pm, "PM_IN", "PM_OUT", sched.pm_out), AfternoonOf(T, sched, otStart))
      BY <2>1, <2>5, <2>6, <2>7, <2>11 DEF PmLabels, Within
    <3>3. Punches(pm) /\ AfternoonOf(T, sched, otStart) \subseteq pm
      BY <2>3, <2>5 DEF Punches
    <3>4. PmLabels(AfternoonOf(T, sched, otStart), sched) = PmLabels(pm, sched)
      <4> DEFINE closes == sched.pm_out
      <4>1. /\ IsMoment(closes)
            /\ Within(GroupInOut(pm, "PM_IN", "PM_OUT", closes), AfternoonOf(T, sched, otStart))
        BY <2>4, <3>2
      <4> HIDE DEF closes
      <4>2. GroupInOut(AfternoonOf(T, sched, otStart), "PM_IN", "PM_OUT", closes)
              = GroupInOut(pm, "PM_IN", "PM_OUT", closes)
        BY <3>3, <4>1, GroupUsesItsLabels
      <4>3. QED
        BY <4>2 DEF PmLabels, closes
    <3>5. QED
      BY <2>1, <2>2, <2>8, <2>9, <2>11, <3>1, <3>4 DEF used
  <2>12. QED
    BY <2>10, <2>11
<1>3. QED
  BY <1>1, <1>2

\* Whatever else rows hold, they give the day its labels' IN and OUT times when
\* each label has its row, and every other row is of a type the labels have at
\* an instant that cannot win: a later IN, an earlier OUT.
Covers(rows, labels) ==
    /\ \A l \in labels : \E r \in rows : r.type = l.type /\ r.at = l.at
    /\ \A r \in rows : \E l \in labels :
          l.type = r.type /\ (IF r.type \in OutTypes THEN r.at <= l.at ELSE l.at <= r.at)

LEMMA CoveringDayLogs ==
    ASSUME NEW B \in Nat, NEW rows, NEW labels, \A r \in rows : r.at \in 0..B,
           \A l \in labels : l.at \in 0..B, Covers(rows, labels)
    PROVE  DayLogs(rows) = DayLogs(labels)
<1> DEFINE timesOf(R, type) == {l.at : l \in {k \in R : k.type = type}}
           logOf(R, type) == IF timesOf(R, type) = {} THEN NoTime
                             ELSE IF type \in OutTypes THEN Latest(timesOf(R, type))
                             ELSE Earliest(timesOf(R, type))
<1>1. SUFFICES ASSUME NEW type \in LogTypes PROVE logOf(rows, type) = logOf(labels, type)
  BY DEF DayLogs
<1> DEFINE R == timesOf(rows, type)
           L == timesOf(labels, type)
<1>2. R \subseteq 0..B /\ L \subseteq 0..B
  OBVIOUS
<1>3. L \subseteq R
  BY DEF Covers
<1>4. \A t \in R : \E u \in L : IF type \in OutTypes THEN t <= u ELSE u <= t
  BY DEF Covers
<1>5. /\ logOf(rows, type) = IF R = {} THEN NoTime
                             ELSE IF type \in OutTypes THEN Latest(R) ELSE Earliest(R)
      /\ logOf(labels, type) = IF L = {} THEN NoTime
                               ELSE IF type \in OutTypes THEN Latest(L) ELSE Earliest(L)
  OBVIOUS
<1> HIDE DEF timesOf, logOf, R, L
<1>6. CASE L = {}
  BY <1>4, <1>5, <1>6
<1>7. CASE L # {}
  <2>1. R # {}
    BY <1>3, <1>7
  <2>2. /\ Earliest(R) \in R /\ Latest(R) \in R
        /\ \A t \in R : Earliest(R) <= t /\ t <= Latest(R)
    BY <1>2, <2>1, EarliestLatest
  <2>3. /\ Earliest(L) \in L /\ Latest(L) \in L
        /\ \A t \in L : Earliest(L) <= t /\ t <= Latest(L)
    BY <1>2, <1>7, EarliestLatest
  <2>4. \A t \in R \cup L : t \in Int
    BY <1>2
  <2>5. CASE type \in OutTypes
    <3>1. PICK u \in L : Latest(R) <= u
      BY <1>4, <2>2, <2>5
    <3>2. u <= Latest(L) /\ Latest(L) <= Latest(R)
      BY <1>3, <2>2, <2>3
    <3>3. Latest(R) = Latest(L)
      BY <2>2, <2>3, <2>4, <3>1, <3>2
    <3>4. QED
      BY <1>5, <1>7, <2>1, <2>5, <3>3
  <2>6. CASE type \notin OutTypes
    <3>1. PICK u \in L : u <= Earliest(R)
      BY <1>4, <2>2, <2>6
    <3>2. Earliest(L) <= u /\ Earliest(R) <= Earliest(L)
      BY <1>3, <2>2, <2>3
    <3>3. Earliest(R) = Earliest(L)
      BY <2>2, <2>3, <2>4, <3>1, <3>2
    <3>4. QED
      BY <1>5, <1>7, <2>1, <2>6, <3>3
  <2>7. QED
    BY <2>5, <2>6
<1>8. QED
  BY <1>6, <1>7

----------------------------------------------------------------------------
(* Punches arriving in order.                                              *)

\* T holds S and, after all of S, more punches.
Continues(S, T) == S \subseteq T /\ \A s \in S, t \in T \ S : s < t

\* What a label becomes when punches arrive after those of S: it stays, or is
\* an OUT that a later OUT of its type supersedes; and every label that is new
\* names one of the punches that arrived.
Grows(before, after, new) ==
    /\ \A l \in before : \/ l \in after
                         \/ /\ l.type \in OutTypes
                            /\ \E k \in after : k.type = l.type /\ l.at <= k.at
    /\ \A k \in after : k \in before \/ k.at \in new

LEMMA GrowsUnion ==
    ASSUME NEW F, NEW F2, NEW G, NEW G2, NEW N, NEW M, NEW new,
           Grows(F, F2, N), Grows(G, G2, M), N \subseteq new, M \subseteq new
    PROVE  Grows(F \cup G, F2 \cup G2, new)
BY DEF Grows

\* The earliest punch of a day never changes as later ones arrive.
LEMMA ContinuesExtremes ==
    ASSUME NEW S, NEW T, Punches(T), Continues(S, T), S # {}
    PROVE  /\ Earliest(S) = Earliest(T) /\ Earliest(S) \in S /\ Earliest(S) \in Nat
           /\ Latest(S) \in S /\ Latest(S) \in Nat
           /\ Latest(T) \in T /\ Latest(T) \in Nat /\ Latest(S) <= Latest(T)
           /\ Latest(T) \in S => Latest(T) = Latest(S)
<1>1. PICK B \in Nat : T \subseteq 0..B
  BY DEF Punches
<1>2. S \subseteq T /\ S \subseteq 0..B /\ T # {}
  BY <1>1 DEF Continues
<1>3. Earliest(S) \in S /\ Latest(S) \in S /\ \A s \in S : Earliest(S) <= s /\ s <= Latest(S)
  BY <1>1, <1>2, EarliestLatest
<1>4. Earliest(T) \in T /\ Latest(T) \in T /\ \A t \in T : Earliest(T) <= t /\ t <= Latest(T)
  BY <1>1, <1>2, EarliestLatest
<1>5. \A t \in T : t \in Nat
  <2>1. \A t \in 0..B : t \in Nat
    OBVIOUS
  <2>2. QED
    BY <1>1, <2>1
<1>6. Earliest(S) \in Nat /\ Latest(S) \in Nat /\ Earliest(T) \in Nat /\ Latest(T) \in Nat
  BY <1>2, <1>3, <1>4, <1>5
<1>7. Earliest(T) <= Earliest(S) /\ Latest(S) <= Latest(T)
  BY <1>2, <1>3, <1>4
<1>8. Earliest(T) \in S
  <2>1. CASE Earliest(T) \in T \ S
    <3>1. Earliest(S) < Earliest(T)
      BY <1>3, <2>1 DEF Continues
    <3>2. QED
      BY <1>6, <1>7, <3>1
  <2>2. QED
    BY <1>4, <2>1
<1>9. Earliest(S) <= Earliest(T)
  BY <1>3, <1>8
<1>10. Earliest(S) = Earliest(T)
  BY <1>6, <1>7, <1>9
<1>11. Latest(T) \in S => Latest(T) = Latest(S)
  <2>1. Latest(T) \in S => Latest(T) <= Latest(S)
    BY <1>3
  <2>2. QED
    BY <1>6, <1>7, <2>1
<1>12. QED
  BY <1>3, <1>4, <1>6, <1>7, <1>10, <1>11

\* A group's labels as its punches arrive in order.
LEMMA GroupGrows ==
    ASSUME NEW S, NEW T, Punches(T), Continues(S, T),
           NEW inType \in LogTypes, NEW outType \in OutTypes, NEW closes
    PROVE  Grows(GroupInOut(S, inType, outType, closes), GroupInOut(T, inType, outType, closes),
                 T \ S)
<1> DEFINE F == GroupInOut(S, inType, outType, closes)
           G == GroupInOut(T, inType, outType, closes)
<1>0. OutTypes \subseteq LogTypes
  BY DEF OutTypes, LogTypes, FULLTIME_TYPES, PARTTIME_TYPES
<1>1. CASE S = {}
  <2>1. F = {}
    BY <1>1 DEF GroupInOut
  <2>2. \A k \in G : k.at \in T
    <3>1. PICK B \in Nat : T \subseteq 0..B
      BY DEF Punches
    <3>2. outType \in LogTypes
      BY <1>0
    <3>3. WellLabelled(G, T)
      BY <3>1, <3>2, GroupInOutLabels
    <3>4. QED
      BY <3>3 DEF WellLabelled
  <2>3. QED
    BY <1>1, <2>1, <2>2 DEF Grows
<1>2. CASE S # {}
  <2> DEFINE first == Label(inType, Earliest(S))
             lastS == Label(outType, Latest(S))
             lastT == Label(outType, Latest(T))
  <2>1. /\ Earliest(S) = Earliest(T) /\ Earliest(S) \in Nat
        /\ Latest(S) \in Nat /\ Latest(T) \in Nat /\ Latest(S) <= Latest(T)
        /\ Latest(T) \in T /\ (Latest(T) \in S => Latest(T) = Latest(S))
    BY <1>2, ContinuesExtremes
  <2>2. T # {}
    BY <1>2 DEF Continues
  <2>3. lastS.type = outType /\ lastT.type = outType /\ lastS.at = Latest(S) /\ lastT.at = Latest(T)
    BY DEF Label
  <2>4. lastT.at \in T \ S \/ lastT = lastS
    BY <2>1, <2>3
  <2>5. CASE closes # NoTime /\ Earliest(S) >= closes
    <3>1. F = {lastS}
      BY <1>2, <2>5 DEF GroupInOut
    <3>2. G = {lastT}
      BY <2>1, <2>2, <2>5 DEF GroupInOut
    <3> HIDE DEF F, G, lastS, lastT
    <3>3. QED
      BY <2>1, <2>3, <2>4, <3>1, <3>2 DEF Grows, F, G
  <2>6. CASE ~(closes # NoTime /\ Earliest(S) >= closes)
    <3>1. F = {first} \cup (IF Latest(S) - Earliest(S) >= DUPLICATE_PUNCH_WINDOW
                            THEN {lastS} ELSE {})
      BY <1>2, <2>6 DEF GroupInOut
    <3>2. G = {first} \cup (IF Latest(T) - Earliest(S) >= DUPLICATE_PUNCH_WINDOW
                            THEN {lastT} ELSE {})
      BY <2>1, <2>2, <2>6 DEF GroupInOut
    <3>3. Latest(S) - Earliest(S) >= DUPLICATE_PUNCH_WINDOW
            => Latest(T) - Earliest(S) >= DUPLICATE_PUNCH_WINDOW
      BY <2>1 DEF DUPLICATE_PUNCH_WINDOW
    <3> HIDE DEF F, G, first, lastS, lastT
    <3>4. \A l \in F : l \in G \/ (l.type \in OutTypes /\ \E k \in G : k.type = l.type /\ l.at <= k.at)
      BY <2>1, <2>3, <3>1, <3>2, <3>3
    <3>5. \A k \in G : k \in F \/ k.at \in T \ S
      <4>1. lastT = lastS => Latest(T) = Latest(S)
        BY <2>3
      <4>2. QED
        BY <2>3, <2>4, <3>1, <3>2, <4>1
    <3>6. QED
      BY <3>4, <3>5 DEF Grows, F, G
  <2>7. QED
    BY <2>5, <2>6
<1>3. QED
  BY <1>1, <1>2

\* Y is what S has of the part X of T.
ShareOf(Y, X, S, T) == X \subseteq T /\ Y = X \cap S

LEMMA ShareContinues ==
    ASSUME NEW S, NEW T, Continues(S, T), NEW X, NEW Y, ShareOf(Y, X, S, T)
    PROVE  Continues(Y, X) /\ X \ Y \subseteq T \ S
BY DEF ShareOf, Continues

\* A group of a day's punches, as the punches of the day arrive in order.
LEMMA ShareGrows ==
    ASSUME NEW S, NEW T, Punches(T), Continues(S, T), NEW X, NEW Y, ShareOf(Y, X, S, T),
           NEW inType \in LogTypes, NEW outType \in OutTypes, NEW closes
    PROVE  Grows(GroupInOut(Y, inType, outType, closes), GroupInOut(X, inType, outType, closes),
                 T \ S)
<1>1. Continues(Y, X) /\ X \ Y \subseteq T \ S
  BY ShareContinues
<1>2. Punches(X)
  BY DEF Punches, ShareOf
<1>3. Grows(GroupInOut(Y, inType, outType, closes), GroupInOut(X, inType, outType, closes), X \ Y)
  BY <1>1, <1>2, GroupGrows
<1>4. QED
  BY <1>1, <1>3 DEF Grows

\* The labels of a group of punches name punches of the group.
LEMMA GroupWithin ==
    ASSUME NEW S, Punches(S), NEW inType \in LogTypes, NEW outType \in OutTypes, NEW closes
    PROVE  Within(GroupInOut(S, inType, outType, closes), S)
<1>1. outType \in LogTypes
  BY DEF OutTypes, LogTypes, FULLTIME_TYPES, PARTTIME_TYPES
<1>2. QED
  BY <1>1, GroupInOutLabels DEF Punches, WellLabelled, Within

\* Punches arriving in order never unsettle a day: a label given to the punches
\* so far stays, or is an OUT that a later OUT of its type supersedes, and no
\* earlier punch is given a label it had not.
THEOREM ClassifyGrows ==
    ASSUME NEW S, NEW T, Punches(T), Continues(S, T),
           NEW isFulltime, NEW sched, IsSchedule(sched), NEW otStart
    PROVE  Grows(ClassifyDay(S, isFulltime, sched, otStart),
                 ClassifyDay(T, isFulltime, sched, otStart), T \ S)
<1>0. /\ {"AM_IN", "PM_IN", "OT_IN", "IN"} \subseteq LogTypes
      /\ {"AM_OUT", "PM_OUT", "OT_OUT", "OUT"} \subseteq OutTypes
  BY DEF OutTypes, LogTypes, FULLTIME_TYPES, PARTTIME_TYPES
<1>1. CASE ~isFulltime
  BY <1>0, <1>1, GroupGrows DEF ClassifyDay, AssignParttimePunches
<1>2. CASE isFulltime
  <2> DEFINE new == T \ S
             amS == MorningOf(S, sched)
             amT == MorningOf(T, sched)
             otS == OvertimeOf(S, sched, otStart)
             otT == OvertimeOf(T, sched, otStart)
             pmS == AfternoonOf(S, sched, otStart)
             pmT == AfternoonOf(T, sched, otStart)
             lunchS == LunchOf(S, sched, otStart)
             lunchT == LunchOf(T, sched, otStart)
             afterS == AfterLunch(S, sched, otStart)
             afterT == AfterLunch(T, sched, otStart)
             dayS == IF ForgotAmOut(S, sched, otStart)
                     THEN {Label("AM_OUT", Earliest(lunchS))} \cup PmLabels(afterS, sched)
                     ELSE PmLabels(pmS, sched)
             dayT == IF ForgotAmOut(T, sched, otStart)
                     THEN {Label("AM_OUT", Earliest(lunchT))} \cup PmLabels(afterT, sched)
                     ELSE PmLabels(pmT, sched)
  <2>1. /\ ClassifyDay(S, isFulltime, sched, otStart)
             = (MorningLabels(S, sched) \cup dayS) \cup OtLabels(otS)
        /\ ClassifyDay(T, isFulltime, sched, otStart)
             = (MorningLabels(T, sched) \cup dayT) \cup OtLabels(otT)
    BY <1>2, AssignShape DEF ClassifyDay
  <2>2. S \in SUBSET T
    BY DEF Continues
  <2>3. amS = amT \cap S /\ otS = otT \cap S /\ pmS = pmT \cap S /\ lunchS = lunchT \cap S
    BY <2>2 DEF MorningOf, OvertimeOf, AfternoonOf, LunchOf
  <2>4. /\ amT \subseteq T /\ otT \subseteq T /\ pmT \subseteq T /\ lunchT \subseteq pmT
        /\ afterT \subseteq pmT
    BY DEF MorningOf, OvertimeOf, AfternoonOf, LunchOf, AfterLunch
  <2>5. Punches(pmT) /\ Punches(afterT) /\ Punches(lunchT)
    BY <2>4 DEF Punches
  <2> HIDE DEF dayS, dayT
  <2>6. Grows(MorningLabels(S, sched), MorningLabels(T, sched), new)
    <3> DEFINE closes == sched.am_out
    <3>1. ShareOf(amS, amT, S, T)
      BY <2>3, <2>4 DEF ShareOf
    <3> HIDE DEF amS, amT, closes
    <3>2. Grows(GroupInOut(amS, "AM_IN", "AM_OUT", closes),
                GroupInOut(amT, "AM_IN", "AM_OUT", closes), T \ S)
      BY <1>0, <3>1, ShareGrows
    <3>3. QED
      BY <3>2 DEF MorningLabels, amS, amT, closes
  <2>7. Grows(OtLabels(otS), OtLabels(otT), new)
    <3>1. ShareOf(otS, otT, S, T)
      BY <2>3, <2>4 DEF ShareOf
    <3> HIDE DEF otS, otT
    <3>2. Grows(GroupInOut(otS, "OT_IN", "OT_OUT", NoTime),
                GroupInOut(otT, "OT_IN", "OT_OUT", NoTime), T \ S)
      BY <1>0, <3>1, ShareGrows
    <3>3. QED
      BY <3>2 DEF OtLabels
  <2>8. ASSUME NEW X, NEW Y, ShareOf(Y, X, S, T)
        PROVE  Grows(PmLabels(Y, sched), PmLabels(X, sched), new)
    <3> DEFINE closes == sched.pm_out
    <3> HIDE DEF closes
    <3>1. Grows(GroupInOut(Y, "PM_IN", "PM_OUT", closes),
                GroupInOut(X, "PM_IN", "PM_OUT", closes), T \ S)
      BY <1>0, <2>8, ShareGrows
    <3>2. QED
      BY <3>1 DEF PmLabels, closes
  <2>9. Grows(dayS, dayT, new)
    <3>1. CASE pmS = {}
      <4>1. lunchS = {}
        BY <2>3, <2>4, <3>1
      <4>2. ~ForgotAmOut(S, sched, otStart)
        BY <4>1 DEF ForgotAmOut, lunchS
      <4>3. dayS = {}
        BY <3>1, <4>2 DEF dayS, PmLabels, GroupInOut
      <4>4. pmT \subseteq new
        BY <2>3, <2>4, <3>1
      <4>5. Within(dayT, pmT)
        <5>1. Within(PmLabels(pmT, sched), pmT) /\ Within(PmLabels(afterT, sched), afterT)
          <6> DEFINE closes == sched.pm_out
          <6> HIDE DEF closes, pmT, afterT
          <6>1. /\ Within(GroupInOut(pmT, "PM_IN", "PM_OUT", closes), pmT)
                /\ Within(GroupInOut(afterT, "PM_IN", "PM_OUT", closes), afterT)
            BY <1>0, <2>5, GroupWithin
          <6>2. QED
            BY <6>1 DEF PmLabels, closes
        <5>2. lunchT # {} => Earliest(lunchT) \in lunchT
          BY <2>5, EarliestLatest DEF Punches
        <5>3. ForgotAmOut(T, sched, otStart) => lunchT # {}
          BY DEF ForgotAmOut, lunchT
        <5> HIDE DEF pmT, afterT, lunchT
        <5>4. QED
          BY <2>4, <5>1, <5>2, <5>3 DEF Within, dayT, Label
      <4>6. QED
        BY <4>3, <4>4, <4>5 DEF Grows, Within
    <3>2. CASE pmS # {}
      <4>1. PICK B \in Nat : T \subseteq 0..B
        BY DEF Punches
      <4>2. PICK p \in S : p \in pmS
        BY <2>3, <3>2
      <4>3. \A t \in new : p < t
        BY <4>2 DEF Continues
      <4>4. p \in Nat /\ ~(p <= sched.midpoint) /\ sched.midpoint \in Nat /\ sched.pm_in \in Nat
        BY <4>1, <4>2, <2>2 DEF AfternoonOf, MorningOf, IsSchedule, Schedules
      <4>5. amS = amT
        <5>1. \A t \in new : t \in Nat
          BY <4>1
        <5>2. \A t \in new : ~(t <= sched.midpoint)
          BY <4>3, <4>4, <5>1
        <5>3. QED
          BY <2>2, <5>2 DEF MorningOf
      <4>6. MorningLabels(S, sched) = MorningLabels(T, sched)
        BY <4>5 DEF MorningLabels
      <4>7. lunchS = {} <=> lunchT = {}
        <5>1. SUFFICES ASSUME NEW t \in lunchT, t \in new PROVE p \in lunchS
          BY <2>3, <2>4
        <5>2. t \in Nat /\ t < sched.pm_in
          BY <2>4, <4>1, <5>1 DEF LunchOf
        <5>3. p < sched.pm_in
          BY <4>3, <4>4, <5>1, <5>2
        <5>4. QED
          BY <4>2, <5>3 DEF LunchOf
      <4>8. ForgotAmOut(S, sched, otStart) <=> ForgotAmOut(T, sched, otStart)
        BY <4>6, <4>7 DEF ForgotAmOut
      <4>9. CASE ForgotAmOut(T, sched, otStart)
        <5>1. lunchS # {}
          BY <4>8, <4>9 DEF ForgotAmOut, lunchS
        <5>2. Earliest(lunchS) = Earliest(lunchT)
          <6>1. ShareOf(lunchS, lunchT, S, T)
            BY <2>3, <2>4 DEF ShareOf
          <6> HIDE DEF lunchS, lunchT
          <6>2. Continues(lunchS, lunchT)
            BY <6>1, ShareContinues
          <6>3. QED
            BY <2>5, <5>1, <6>2, ContinuesExtremes
        <5>3. ShareOf(afterS, afterT, S, T)
          BY <2>3, <2>4, <5>2 DEF ShareOf, AfterLunch
        <5>4. dayS = {Label("AM_OUT", Earliest(lunchT))} \cup PmLabels(afterS, sched)
          BY <4>8, <4>9, <5>2 DEF dayS
        <5>5. dayT = {Label("AM_OUT", Earliest(lunchT))} \cup PmLabels(afterT, sched)
          BY <4>9 DEF dayT
        <5> HIDE DEF afterS, afterT, lunchT
        <5>6. Grows(PmLabels(afterS, sched), PmLabels(afterT, sched), new)
          BY <2>8, <5>3
        <5>7. QED
          BY <5>4, <5>5, <5>6 DEF Grows
      <4>10. CASE ~ForgotAmOut(T, sched, otStart)
        <5>1. ShareOf(pmS, pmT, S, T)
          BY <2>3, <2>4 DEF ShareOf
        <5>2. dayS = PmLabels(pmS, sched) /\ dayT = PmLabels(pmT, sched)
          BY <4>8, <4>10 DEF dayS, dayT
        <5> HIDE DEF pmS, pmT
        <5>3. QED
          BY <2>8, <5>1, <5>2
      <4>11. QED
        BY <4>9, <4>10
    <3>3. QED
      BY <3>1, <3>2
  <2>10. QED
    <3> DEFINE F == MorningLabels(S, sched)
               F2 == MorningLabels(T, sched)
               O == OtLabels(otS)
               O2 == OtLabels(otT)
    <3>1. Grows(F, F2, new) /\ Grows(dayS, dayT, new) /\ Grows(O, O2, new)
      BY <2>6, <2>7, <2>9
    <3> HIDE DEF F, F2, O, O2, new
    <3>2. Grows((F \cup dayS) \cup O, (F2 \cup dayT) \cup O2, new)
      BY <3>1 DEF Grows
    <3>3. QED
      BY <2>1, <3>2 DEF F, F2, O, O2, new
<1>3. QED
  BY <1>1, <1>2

----------------------------------------------------------------------------
(* A punch more keeps what was attended.                                   *)

\* The IN and the OUT of a group of punches, when it has both.
Whole(labels, inType, outType) == Labelled(labels, inType) /\ Labelled(labels, outType)

\* When a group has its IN, and both.
LEMMA GroupHas ==
    ASSUME NEW S, Punches(S), NEW inType, NEW outType, inType # outType,
           NEW closes \in Int
    PROVE  /\ Labelled(GroupInOut(S, inType, outType, closes), inType) <=>
                S # {} /\ ~(closes # NoTime /\ Earliest(S) >= closes)
           /\ Whole(GroupInOut(S, inType, outType, closes), inType, outType) <=>
                /\ S # {} /\ ~(closes # NoTime /\ Earliest(S) >= closes)
                /\ Latest(S) - Earliest(S) >= DUPLICATE_PUNCH_WINDOW
<1> DEFINE labels == GroupInOut(S, inType, outType, closes)
           closed == closes # NoTime /\ Earliest(S) >= closes
           long == Latest(S) - Earliest(S) >= DUPLICATE_PUNCH_WINDOW
           first == Label(inType, Earliest(S))
           last == Label(outType, Latest(S))
<1>1. first.type = inType /\ last.type = outType
  BY DEF Label
<1>2. labels = IF S = {} THEN {} ELSE IF closed THEN {last}
               ELSE {first} \cup (IF long THEN {last} ELSE {})
  BY DEF GroupInOut
<1> HIDE DEF first, last
<1>3. CASE S = {}
  BY <1>2, <1>3 DEF Labelled, Whole
<1>4. CASE S # {} /\ closed
  <2>1. labels = {last}
    BY <1>2, <1>4
  <2>2. ~Labelled(labels, inType)
    BY <1>1, <2>1 DEF Labelled
  <2>3. QED
    BY <1>4, <2>2 DEF Whole
<1>5. CASE S # {} /\ ~closed /\ long
  <2>1. labels = {first, last}
    BY <1>2, <1>5
  <2>2. Labelled(labels, inType) /\ Labelled(labels, outType)
    BY <1>1, <2>1 DEF Labelled
  <2>3. QED
    BY <1>5, <2>2 DEF Whole
<1>6. CASE S # {} /\ ~closed /\ ~long
  <2>1. labels = {first}
    BY <1>2, <1>6
  <2>2. Labelled(labels, inType) /\ ~Labelled(labels, outType)
    BY <1>1, <2>1 DEF Labelled
  <2>3. QED
    BY <1>6, <2>2 DEF Whole
<1>7. QED
  BY <1>3, <1>4, <1>5, <1>6

\* A group of types a label is not of does not give it.
LEMMA GroupHasNoOther ==
    ASSUME NEW S, NEW inType, NEW outType, NEW closes, NEW type, type \notin {inType, outType}
    PROVE  ~Labelled(GroupInOut(S, inType, outType, closes), type)
<1>1. \A kind, at : Label(kind, at).type = kind
  BY DEF Label
<1>2. \A l \in GroupInOut(S, inType, outType, closes) : l.type \in {inType, outType}
  BY <1>1 DEF GroupInOut
<1>3. QED
  BY <1>2 DEF Labelled

LEMMA GroupStaysWhole ==
    ASSUME NEW T, Punches(T), NEW S, S \subseteq T, NEW inType, NEW outType, inType # outType,
           NEW closes \in Int
    PROVE  /\ Labelled(GroupInOut(S, inType, outType, closes), inType)
                => Labelled(GroupInOut(T, inType, outType, closes), inType)
           /\ Whole(GroupInOut(S, inType, outType, closes), inType, outType)
                => Whole(GroupInOut(T, inType, outType, closes), inType, outType)
<1>1. PICK B \in Nat : T \subseteq 0..B
  BY DEF Punches
<1>2. Punches(S)
  BY <1>1 DEF Punches
<1>3. CASE S = {}
  BY <1>2, <1>3, GroupHas
<1>4. CASE S # {}
  <2>1. /\ Earliest(T) <= Earliest(S) /\ Latest(S) <= Latest(T)
        /\ Earliest(S) \in Nat /\ Latest(S) \in Nat /\ Earliest(T) \in Nat /\ Latest(T) \in Nat
    BY <1>1, <1>4, SameExtremes
  <2>2. DUPLICATE_PUNCH_WINDOW \in Nat
    BY DEF DUPLICATE_PUNCH_WINDOW
  <2>3. T # {}
    BY <1>4
  <2>4. /\ ~(closes # NoTime /\ Earliest(S) >= closes) => ~(closes # NoTime /\ Earliest(T) >= closes)
        /\ Latest(S) - Earliest(S) >= DUPLICATE_PUNCH_WINDOW
             => Latest(T) - Earliest(T) >= DUPLICATE_PUNCH_WINDOW
    BY <2>1, <2>2
  <2>5. QED
    BY <1>2, <2>3, <2>4, GroupHas
<1>5. QED
  BY <1>3, <1>4

\* The punches of a full-timer's afternoon that the rules label.
PmPunches(S, sched, otStart) ==
    IF ForgotAmOut(S, sched, otStart) THEN AfterLunch(S, sched, otStart)
    ELSE AfternoonOf(S, sched, otStart)

\* A full-timer's session is attended when the punches give its IN and its OUT.
Attends(S, sched, otStart, s) ==
    Whole(AssignFulltimePunches(S, sched, otStart), InType(s), OutType(s))

\* A morning is attended by its own punches or by the lunch punch that closes
\* it, an afternoon by its own.
LEMMA AttendsIs ==
    ASSUME NEW S, NEW sched, NEW otStart
    PROVE  /\ Attends(S, sched, otStart, "AM") <=>
                \/ Whole(MorningLabels(S, sched), "AM_IN", "AM_OUT")
                \/ ForgotAmOut(S, sched, otStart)
           /\ Attends(S, sched, otStart, "PM") <=>
                Whole(PmLabels(PmPunches(S, sched, otStart), sched), "PM_IN", "PM_OUT")
<1> DEFINE morning == MorningLabels(S, sched)
           afternoon == PmLabels(PmPunches(S, sched, otStart), sched)
           overtime == OtLabels(OvertimeOf(S, sched, otStart))
           lunch == Label("AM_OUT", Earliest(LunchOf(S, sched, otStart)))
           day == AssignFulltimePunches(S, sched, otStart)
<1>1. day = IF ForgotAmOut(S, sched, otStart)
            THEN morning \cup {lunch} \cup afternoon \cup overtime
            ELSE morning \cup afternoon \cup overtime
  BY AssignShape DEF PmPunches
<1>2. /\ ~Labelled(morning, "PM_IN") /\ ~Labelled(morning, "PM_OUT")
      /\ ~Labelled(afternoon, "AM_IN") /\ ~Labelled(afternoon, "AM_OUT")
      /\ \A type \in {"AM_IN", "AM_OUT", "PM_IN", "PM_OUT"} : ~Labelled(overtime, type)
  BY GroupHasNoOther DEF MorningLabels, PmLabels, OtLabels
<1>3. lunch.type = "AM_OUT"
  BY DEF Label
<1>4. ForgotAmOut(S, sched, otStart) => Labelled(morning, "AM_IN")
  BY DEF ForgotAmOut
<1> HIDE DEF morning, afternoon, overtime, lunch, day
<1>5. /\ Labelled(day, "AM_IN") <=> Labelled(morning, "AM_IN")
      /\ Labelled(day, "AM_OUT") <=> Labelled(morning, "AM_OUT") \/ ForgotAmOut(S, sched, otStart)
      /\ Labelled(day, "PM_IN") <=> Labelled(afternoon, "PM_IN")
      /\ Labelled(day, "PM_OUT") <=> Labelled(afternoon, "PM_OUT")
  BY <1>1, <1>2, <1>3 DEF Labelled
<1>6. InType("AM") = "AM_IN" /\ OutType("AM") = "AM_OUT" /\ InType("PM") = "PM_IN"
      /\ OutType("PM") = "PM_OUT"
  BY DEF InType, OutType
<1>7. QED
  BY <1>4, <1>5, <1>6 DEF Attends, Whole, day, morning, afternoon

\* However late the other punches of a full-timer's day are read, a morning
\* attended stays attended, and an afternoon attended is lost only to a morning
\* that was not: the lunch punch that began the one now closes the other.
THEOREM LatePunchesKeepSessions ==
    ASSUME NEW T, Punches(T), NEW S, S \subseteq T,
           NEW sched, IsSchedule(sched), NEW otStart
    PROVE  /\ Attends(S, sched, otStart, "AM") => Attends(T, sched, otStart, "AM")
           /\ Attends(S, sched, otStart, "PM") =>
                \/ Attends(T, sched, otStart, "PM")
                \/ Attends(T, sched, otStart, "AM") /\ ~Attends(S, sched, otStart, "AM")
<1> DEFINE whole(X) == Whole(MorningLabels(X, sched), "AM_IN", "AM_OUT")
           forgot(X) == ForgotAmOut(X, sched, otStart)
           pmS == AfternoonOf(S, sched, otStart)
           pmT == AfternoonOf(T, sched, otStart)
<1>1. /\ MorningOf(S, sched) \subseteq MorningOf(T, sched) /\ pmS \subseteq pmT
      /\ LunchOf(S, sched, otStart) \subseteq LunchOf(T, sched, otStart)
  BY DEF MorningOf, OvertimeOf, AfternoonOf, LunchOf
<1>2. /\ MorningOf(T, sched) \subseteq T /\ pmT \subseteq T
      /\ LunchOf(T, sched, otStart) \subseteq T
      /\ AfterLunch(S, sched, otStart) \subseteq pmS /\ AfterLunch(T, sched, otStart) \subseteq pmT
  BY DEF MorningOf, AfternoonOf, LunchOf, AfterLunch
<1>3. /\ Punches(MorningOf(T, sched)) /\ Punches(pmT)
      /\ Punches(AfterLunch(T, sched, otStart)) /\ Punches(LunchOf(T, sched, otStart))
  BY <1>2 DEF Punches
<1>4. sched.am_out \in Int /\ sched.pm_out \in Int
  BY DEF IsSchedule, Schedules
<1>5. /\ Labelled(MorningLabels(S, sched), "AM_IN") => Labelled(MorningLabels(T, sched), "AM_IN")
      /\ whole(S) => whole(T)
  BY <1>1, <1>3, <1>4, GroupStaysWhole DEF MorningLabels
<1>6. ASSUME NEW X, NEW Y, X \subseteq Y, Punches(Y)
      PROVE  Whole(PmLabels(X, sched), "PM_IN", "PM_OUT") =>
               Whole(PmLabels(Y, sched), "PM_IN", "PM_OUT")
  BY <1>4, <1>6, GroupStaysWhole DEF PmLabels
<1>7. ASSUME forgot(S), forgot(T)
      PROVE  AfterLunch(S, sched, otStart) \subseteq AfterLunch(T, sched, otStart)
  <2> DEFINE first == Earliest(LunchOf(S, sched, otStart))
             firstT == Earliest(LunchOf(T, sched, otStart))
  <2>1. PICK B \in Nat : T \subseteq 0..B
    BY DEF Punches
  <2>2. LunchOf(S, sched, otStart) # {}
    BY <1>7 DEF ForgotAmOut
  <2>3. firstT <= first /\ first \in Nat /\ firstT \in Nat
    BY <1>1, <1>2, <2>1, <2>2, SameExtremes
  <2>4. LUNCH_DUPLICATE_WINDOW \in Nat
    BY DEF LUNCH_DUPLICATE_WINDOW
  <2> HIDE DEF first, firstT, pmS, pmT
  <2>5. \A t \in pmS : t \in pmT /\ t \in Nat
    BY <1>1, <1>2, <2>1
  <2>6. \A t \in pmS : t - first >= LUNCH_DUPLICATE_WINDOW => t - firstT >= LUNCH_DUPLICATE_WINDOW
    BY <2>3, <2>4, <2>5
  <2>7. QED
    BY <2>5, <2>6 DEF AfterLunch, first, firstT, pmS, pmT
<1>8. forgot(S) => whole(T) \/ forgot(T)
  BY <1>1, <1>5 DEF ForgotAmOut, Whole
<1>9. forgot(T) => ~whole(T)
  BY DEF ForgotAmOut, Whole
<1>10. /\ \A X \in {S, T} : Attends(X, sched, otStart, "AM") <=> whole(X) \/ forgot(X)
       /\ \A X \in {S, T} : Attends(X, sched, otStart, "PM") <=>
            Whole(PmLabels(IF forgot(X) THEN AfterLunch(X, sched, otStart)
                           ELSE AfternoonOf(X, sched, otStart), sched), "PM_IN", "PM_OUT")
  BY AttendsIs DEF PmPunches
<1> HIDE DEF whole, forgot
<1>11. Attends(S, sched, otStart, "AM") => Attends(T, sched, otStart, "AM")
  BY <1>5, <1>8, <1>10
<1>12. ASSUME Attends(S, sched, otStart, "PM"), forgot(T) => forgot(S)
       PROVE  Attends(T, sched, otStart, "PM")
  <2>1. CASE forgot(T)
    BY <1>3, <1>6, <1>7, <1>10, <1>12, <2>1
  <2>2. CASE ~forgot(T) /\ forgot(S)
    BY <1>1, <1>2, <1>3, <1>6, <1>10, <1>12, <2>2
  <2>3. CASE ~forgot(T) /\ ~forgot(S)
    BY <1>1, <1>3, <1>6, <1>10, <1>12, <2>3
  <2>4. QED
    BY <2>1, <2>2, <2>3
<1>13. ASSUME forgot(T), ~forgot(S)
       PROVE  Attends(T, sched, otStart, "AM") /\ ~Attends(S, sched, otStart, "AM")
  BY <1>5, <1>9, <1>10, <1>13
<1>14. QED
  BY <1>11, <1>12, <1>13

\* A day has a log of a type exactly when some row is of that type.
LEMMA LoggedTypes ==
    ASSUME NEW B \in Nat, NEW rows, \A r \in rows : r.at \in 0..B, NEW type \in LogTypes
    PROVE  DayLogs(rows)[type] # NoTime <=> Labelled(rows, type)
<1> DEFINE times == {l.at : l \in {k \in rows : k.type = type}}
<1>1. DayLogs(rows)[type] = IF times = {} THEN NoTime
                            ELSE IF type \in OutTypes THEN Latest(times) ELSE Earliest(times)
  BY DEF DayLogs
<1>2. times \subseteq 0..B /\ (times # {} <=> Labelled(rows, type))
  BY DEF Labelled
<1> HIDE DEF times
<1>3. times # {} => Latest(times) \in 0..B /\ Earliest(times) \in 0..B
  BY <1>2, EarliestLatest
<1>4. NoTime \notin 0..B
  BY DEF NoTime
<1>5. QED
  BY <1>1, <1>2, <1>3, <1>4
=============================================================================
