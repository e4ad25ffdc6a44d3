------------------------ MODULE ScheduleSettingsProofs ------------------------
(***************************************************************************)
(* Proofs about ScheduleSettings: type correctness, and the three          *)
(* guarantees the Schedule page gives however requests interleave.         *)
(***************************************************************************)
EXTENDS ScheduleSettings, TLAPS

\* What a request holds in each of its phases.
LEMMA RequestFields ==
    ASSUME NEW r \in Requests
    PROVE  /\ r.phase = "settings" => r.row \in GlobalRows /\ r.form \in GlobalForms
           /\ r.phase = "requirement" => r.row \in GlobalRows /\ r.form \in Acceptable
           /\ r.phase = "override" => /\ r.e \in Employees /\ r.row \in OverrideRows
                                      /\ r.form \in OverrideForms
           /\ r.phase \in {"saving", "saved"} => r.e \in Employees /\ r.row \in OverrideRows
BY DEF Requests, None

LEMMA NewOverrideType == NewOverride \in OverrideRows /\ NoOverride \in OverrideRows
BY FormsAssumption DEF NewOverride, NoOverride, OverrideRows, OverrideTimes, TimeFields, Times

\* Sending a request somewhere keeps the table of requests typed.
LEMMA GotoType ==
    ASSUME TypeOK, NEW a \in Admins, NEW r \in Requests, Goto(a, r)
    PROVE  request' \in [Admins -> Requests]
BY DEF TypeOK, Goto

LEMMA PostType ==
    ASSUME TypeOK, NEW a \in Admins, Post(a)
    PROVE  posts' \in 0..Posts
BY FormsAssumption DEF TypeOK, Post

LEMMA InitType == Init => TypeOK
<1> SUFFICES ASSUME Init PROVE TypeOK
  OBVIOUS
<1>1. global \in GlobalRows
  BY FormsAssumption DEF Init, GlobalRows, Hours, Times, TimeFields
<1>2. override \in [Employees -> OverrideRows]
  BY NewOverrideType DEF Init
<1>3. request \in [Admins -> Requests]
  BY DEF Init, Requests
<1> QED BY <1>1, <1>2, <1>3, FormsAssumption DEF Init, TypeOK

LEMMA NextType == TypeOK /\ [Next]_vars => TypeOK'
<1> SUFFICES ASSUME TypeOK, [Next]_vars PROVE TypeOK'
  OBVIOUS
<1>1. CASE UNCHANGED vars
  BY <1>1 DEF vars, TypeOK
<1>2. CASE Restart
  <2>1. global' \in GlobalRows
    BY <1>2, FormsAssumption DEF Restart, TypeOK, GlobalRows, Times, TimeFields
  <2>2. override' \in [Employees -> OverrideRows]
    BY <1>2 DEF Restart, TypeOK, OverrideRows
  <2>3. request' \in [Admins -> Requests]
    BY <1>2 DEF Restart, Requests
  <2> QED BY <1>2, <2>1, <2>2, <2>3, FormsAssumption DEF Restart, TypeOK
<1>3. ASSUME NEW a \in Admins, NEW form \in GlobalForms, PostSettings(a, form)
      PROVE  TypeOK'
  <2> DEFINE r == [phase |-> "settings", row |-> global, form |-> form]
  <2>1. r \in Requests
    BY DEF Requests, TypeOK
  <2> QED BY <1>3, <2>1, GotoType, PostType DEF PostSettings, TypeOK
<1>4. ASSUME NEW a \in Admins, NEW form \in Requirements, PostRequirement(a, form)
      PROVE  TypeOK'
  <2> DEFINE r == [phase |-> "requirement", row |-> global, form |-> form]
  <2>1. form.hours \in 1..168 /\ form.days \in 1..7
    BY <1>4, FormsAssumption DEF PostRequirement
  <2>2. form \in Acceptable
    BY <2>1 DEF Acceptable, Hours
  <2>3. r \in Requests
    BY <2>2 DEF Requests, TypeOK
  <2> QED BY <1>4, <2>3, GotoType, PostType DEF PostRequirement, TypeOK
<1>5. ASSUME NEW a \in Admins, SaveSettings(a)
      PROVE  TypeOK'
  <2>1. request[a] \in Requests /\ request[a].phase = "settings"
    BY <1>5 DEF SaveSettings, TypeOK
  <2>2. global' \in GlobalRows
    BY <1>5, <2>1, RequestFields, FormsAssumption DEF SaveSettings, GlobalRows
  <2>3. None \in Requests
    BY DEF Requests
  <2> QED BY <1>5, <2>2, <2>3, GotoType DEF SaveSettings, TypeOK
<1>7. ASSUME NEW a \in Admins, NEW e \in Employees, NEW form \in OverrideForms,
             PostOverride(a, e, form)
      PROVE  TypeOK'
  <2> DEFINE r == [phase |-> "override", e |-> e, row |-> override[e], form |-> form]
  <2>1. r \in Requests
    BY DEF Requests, TypeOK
  <2> QED BY <1>7, <2>1, GotoType, PostType DEF PostOverride, TypeOK
<1>6. ASSUME NEW a \in Admins, SaveRequirement(a)
      PROVE  TypeOK'
  <2>1. request[a] \in Requests /\ request[a].phase = "requirement"
    BY <1>6 DEF SaveRequirement, TypeOK
  <2>2. global' \in GlobalRows
    BY <1>6, <2>1, RequestFields DEF SaveRequirement, GlobalRows, Acceptable
  <2>3. None \in Requests
    BY DEF Requests
  <2> QED BY <1>6, <2>2, <2>3, GotoType DEF SaveRequirement, TypeOK
<1>8. ASSUME NEW a \in Admins, NEW e \in Parttime, NEW hours, PostHours(a, e, hours),
             hours = Blank \/ hours \in Int
      PROVE  TypeOK'
  <2> DEFINE row == [override[e] EXCEPT !.hours = hours, !.excused = FALSE]
             r == [phase |-> "saving", e |-> e, row |-> row]
  <2>1. e \in Employees /\ override[e] \in OverrideRows
    BY FormsAssumption DEF TypeOK
  <2>2. hours \in Hours \cup {Blank}
    BY <1>8 DEF PostHours, Hours, Blank
  <2>3. row \in OverrideRows
    BY <2>1, <2>2 DEF OverrideRows
  <2>4. r \in Requests
    BY <2>1, <2>3 DEF Requests
  <2> QED BY <1>8, <2>4, GotoType, PostType DEF PostHours, TypeOK
<1>9. ASSUME NEW a \in Admins, CheckOverride(a)
      PROVE  TypeOK'
  <2> DEFINE q == request[a]
             row == [q.row EXCEPT !.times = q.form.times, !.workdays = q.form.workdays,
                                  !.against = global.times, !.excused = FALSE]
             r == [phase |-> "saving", e |-> q.e, row |-> row]
  <2>1. q \in Requests /\ q.phase = "override"
    BY <1>9 DEF CheckOverride, TypeOK
  <2>2. q.e \in Employees /\ q.row \in OverrideRows /\ q.form \in OverrideForms
    BY <2>1, RequestFields
  <2>3. row \in OverrideRows
    BY <2>2, FormsAssumption DEF OverrideRows, TypeOK, GlobalRows
  <2>4. r \in Requests /\ None \in Requests
    BY <2>2, <2>3 DEF Requests
  <2>5. \E to \in {r, None} : Goto(a, to)
    BY <1>9 DEF CheckOverride
  <2> QED BY <1>9, <2>4, <2>5, GotoType DEF CheckOverride, TypeOK
<1>10. ASSUME NEW a \in Admins, SaveOverride(a)
       PROVE  TypeOK'
  <2> DEFINE q == request[a]
             id == IF q.row.id = 0 THEN nextId ELSE q.row.id
             row == [q.row EXCEPT !.id = id]
             r == [phase |-> "saved", e |-> q.e, row |-> row]
  <2>1. q \in Requests /\ q.phase = "saving"
    BY <1>10 DEF SaveOverride, TypeOK
  <2>2. q.e \in Employees /\ q.row \in OverrideRows
    BY <2>1, RequestFields
  <2>3. id \in Nat
    BY <2>2 DEF OverrideRows, TypeOK
  <2>4. row \in OverrideRows
    BY <2>2, <2>3 DEF OverrideRows
  <2>5. r \in Requests /\ None \in Requests
    BY <2>2, <2>4 DEF Requests
  <2>6. \E to \in {r, None} : Goto(a, to)
    BY <1>10 DEF SaveOverride
  <2>7. override' = override \/ override' = [override EXCEPT ![q.e] = row]
    BY <1>10 DEF SaveOverride
  <2>8. override' \in [Employees -> OverrideRows]
    BY <2>2, <2>4, <2>7 DEF TypeOK
  <2>9. nextId' \in Nat \ {0}
    BY <1>10 DEF SaveOverride, TypeOK
  <2> QED BY <1>10, <2>5, <2>6, <2>8, <2>9, GotoType DEF SaveOverride, TypeOK
<1>11. ASSUME NEW a \in Admins, DropOverride(a)
       PROVE  TypeOK'
  <2>1. None \in Requests
    BY DEF Requests
  <2>2. override' \in [Employees -> OverrideRows]
    BY <1>11, NewOverrideType DEF DropOverride, TypeOK
  <2> QED BY <1>11, <2>1, <2>2, GotoType DEF DropOverride, TypeOK
<1>12. ASSUME NEW a \in Admins, NEW e \in Employees, ClearHours(a, e)
       PROVE  TypeOK'
  <2>1. override' \in [Employees -> OverrideRows]
    BY <1>12 DEF ClearHours, TypeOK, OverrideRows
  <2> QED BY <1>12, <2>1, PostType DEF ClearHours, TypeOK
<1>13. ASSUME NEW a \in Admins, NEW e \in Employees, ClearOverride(a, e)
       PROVE  TypeOK'
  <2>1. override' \in [Employees -> OverrideRows]
    BY <1>13, NewOverrideType DEF ClearOverride, TypeOK
  <2> QED BY <1>13, <2>1, PostType DEF ClearOverride, TypeOK
<1>14. \A r \in Requirements \cup {[hours |-> Blank]} : r.hours = Blank \/ r.hours \in Int
  BY FormsAssumption
<1> QED
  BY <1>1, <1>2, <1>3, <1>4, <1>5, <1>6, <1>7, <1>8, <1>9, <1>10, <1>11, <1>12, <1>13, <1>14,
     FormsAssumption DEF Next

\* Every reachable state of the Schedule page is well typed.
THEOREM TypeCorrect == Spec => []TypeOK
BY InitType, NextType, PTL DEF Spec

----------------------------------------------------------------------------
(* The order of the times.                                                 *)

\* A copy of the global row not written by seed_data is in order ...
RowInOrder(row) == ~row.seeded => OrderedSchedule(row.times) /\ row.workdays # {}

\* ... and so are an override's times, with the blanks they were checked with.
Sound(row) == OrderedSchedule(Inherited(row.times, row.against))

\* The inductive invariant: the rows in the tables, and the copies of them in
\* the requests under way, which may be saved over the tables later.
OrderInv ==
    /\ RowInOrder(global)
    /\ \A e \in Employees : Sound(override[e])
    /\ \A a \in Admins :
          /\ request[a].phase = "settings" =>
                OrderedSchedule(request[a].form.times) /\ request[a].form.workdays # {}
          /\ request[a].phase = "requirement" => RowInOrder(request[a].row)
          /\ request[a].phase \in {"saving", "saved"} => Sound(request[a].row)

\* An override with nothing in it inherits what was seeded.
LEMMA NewIsSound == Sound(NoOverride)
<1>1. NoOverride.times = [f \in TimeFields |-> Blank] /\ NoOverride.against = Seeded
  BY DEF NoOverride, NewOverride
<1>2. Seeded = [f \in TimeFields |-> Seeded[f]]
  BY FormsAssumption DEF Times, TimeFields
<1>3. Inherited([f \in TimeFields |-> Blank], Seeded) = Seeded
  BY <1>2 DEF Inherited
<1> QED BY <1>1, <1>3, FormsAssumption DEF Sound

LEMMA InitOrder == Init => OrderInv
BY NewIsSound, FormsAssumption DEF Init, OrderInv, RowInOrder, None

\* Sending a request somewhere disturbs no table and no other request.
LEMMA GotoOrder ==
    ASSUME TypeOK, OrderInv, NEW a \in Admins, NEW r, Goto(a, r),
           r.phase = "settings" => OrderedSchedule(r.form.times) /\ r.form.workdays # {},
           r.phase = "requirement" => RowInOrder(r.row),
           r.phase \in {"saving", "saved"} => Sound(r.row),
           RowInOrder(global'), \A e \in Employees : Sound(override'[e])
    PROVE  OrderInv'
BY DEF OrderInv, Goto, TypeOK, RowInOrder, Sound

LEMMA NoneIsIdle == None.phase \notin {"settings", "requirement", "override", "saving", "saved"}
BY DEF None

LEMMA NextOrder == TypeOK /\ OrderInv /\ [Next]_vars => OrderInv'
<1> SUFFICES ASSUME TypeOK, OrderInv, [Next]_vars PROVE OrderInv'
  OBVIOUS
<1>1. CASE UNCHANGED vars
  BY <1>1 DEF vars, OrderInv, RowInOrder, Sound
<1>2. CASE Restart
  <2>1. RowInOrder(global')
    BY <1>2 DEF Restart, RowInOrder, TypeOK, GlobalRows
  <2>2. ASSUME NEW e \in Employees PROVE Sound(override'[e])
    BY <1>2 DEF Restart, OrderInv, Sound, TypeOK, OverrideRows
  <2>3. \A a \in Admins : request'[a] = None
    BY <1>2 DEF Restart
  <2> QED BY <2>1, <2>2, <2>3, NoneIsIdle DEF OrderInv, RowInOrder, Sound
<1>3. ASSUME NEW a \in Admins, NEW form \in GlobalForms, PostSettings(a, form)
      PROVE  OrderInv'
  BY <1>3, GotoOrder DEF PostSettings, OrderInv
<1>4. ASSUME NEW a \in Admins, NEW form \in Requirements, PostRequirement(a, form)
      PROVE  OrderInv'
  BY <1>4, GotoOrder DEF PostRequirement, OrderInv
<1>5. ASSUME NEW a \in Admins, SaveSettings(a)
      PROVE  OrderInv'
  <2>1. request[a] \in Requests /\ request[a].phase = "settings"
    BY <1>5 DEF SaveSettings, TypeOK
  <2>2. request[a].row \in GlobalRows
    BY <2>1, RequestFields
  <2>3. global'.times = request[a].form.times /\ global'.workdays = request[a].form.workdays
    BY <1>5, <2>2 DEF SaveSettings, GlobalRows
  <2>4. RowInOrder(global')
    BY <2>1, <2>3 DEF OrderInv, RowInOrder
  <2> QED BY <1>5, <2>4, GotoOrder, NoneIsIdle DEF SaveSettings, OrderInv
<1>6. ASSUME NEW a \in Admins, SaveRequirement(a)
      PROVE  OrderInv'
  <2>1. request[a] \in Requests /\ request[a].phase = "requirement"
    BY <1>6 DEF SaveRequirement, TypeOK
  <2>2. request[a].row \in GlobalRows
    BY <2>1, RequestFields
  <2>3. /\ global'.times = request[a].row.times
        /\ global'.workdays = request[a].row.workdays
        /\ global'.seeded = request[a].row.seeded
    BY <1>6, <2>2 DEF SaveRequirement, GlobalRows
  <2>4. RowInOrder(global')
    BY <2>1, <2>3 DEF OrderInv, RowInOrder
  <2> QED BY <1>6, <2>4, GotoOrder, NoneIsIdle DEF SaveRequirement, OrderInv
<1>7. ASSUME NEW a \in Admins, NEW e \in Employees, NEW form \in OverrideForms,
             PostOverride(a, e, form)
      PROVE  OrderInv'
  BY <1>7, GotoOrder DEF PostOverride, OrderInv
<1>8. ASSUME NEW a \in Admins, NEW e \in Parttime, NEW hours, PostHours(a, e, hours)
      PROVE  OrderInv'
  <2> DEFINE row == [override[e] EXCEPT !.hours = hours, !.excused = FALSE]
             r == [phase |-> "saving", e |-> e, row |-> row]
  <2>1. e \in Employees /\ override[e] \in OverrideRows
    BY FormsAssumption DEF TypeOK
  <2>2. row.times = override[e].times /\ row.against = override[e].against
    BY <2>1 DEF OverrideRows
  <2>3. Sound(row)
    BY <2>1, <2>2 DEF OrderInv, Sound
  <2> QED BY <1>8, <2>3, GotoOrder DEF PostHours, OrderInv
<1>9. ASSUME NEW a \in Admins, CheckOverride(a)
      PROVE  OrderInv'
  <2> DEFINE q == request[a]
             ok == OrderedSchedule(Inherited(q.form.times, global.times))
             row == [q.row EXCEPT !.times = q.form.times, !.workdays = q.form.workdays,
                                  !.against = global.times, !.excused = FALSE]
             r == [phase |-> "saving", e |-> q.e, row |-> row]
  <2>1. q \in Requests /\ q.phase = "override"
    BY <1>9 DEF CheckOverride, TypeOK
  <2>2. q.row \in OverrideRows
    BY <2>1, RequestFields
  <2>3. row.times = q.form.times /\ row.against = global.times
    BY <2>2 DEF OverrideRows
  <2>4. ok => Sound(row)
    BY <2>3 DEF Sound
  <2>5. CASE ok
    <3>1. Goto(a, r)
      BY <1>9, <2>5 DEF CheckOverride
    <3> QED BY <1>9, <2>4, <2>5, <3>1, GotoOrder DEF CheckOverride, OrderInv
  <2>6. CASE ~ok
    <3>1. Goto(a, None)
      BY <1>9, <2>6 DEF CheckOverride
    <3> QED BY <1>9, <3>1, GotoOrder, NoneIsIdle DEF CheckOverride, OrderInv
  <2> QED BY <2>5, <2>6
<1>10. ASSUME NEW a \in Admins, SaveOverride(a)
       PROVE  OrderInv'
  <2> DEFINE q == request[a]
             id == IF q.row.id = 0 THEN nextId ELSE q.row.id
             row == [q.row EXCEPT !.id = id]
             r == [phase |-> "saved", e |-> q.e, row |-> row]
  <2>1. q \in Requests /\ q.phase = "saving"
    BY <1>10 DEF SaveOverride, TypeOK
  <2>2. q.e \in Employees /\ q.row \in OverrideRows /\ Sound(q.row)
    BY <2>1, RequestFields DEF OrderInv
  <2>3. Sound(row)
    BY <2>2 DEF OverrideRows, Sound
  <2>4. override' = override \/ override' = [override EXCEPT ![q.e] = row]
    BY <1>10 DEF SaveOverride
  <2>5. \A e \in Employees : Sound(override'[e])
    BY <2>2, <2>3, <2>4 DEF OrderInv, TypeOK
  <2>6. Goto(a, r) \/ Goto(a, None)
    BY <1>10 DEF SaveOverride
  <2>7. CASE Goto(a, r)
    BY <1>10, <2>3, <2>5, <2>7, GotoOrder DEF SaveOverride, OrderInv
  <2>8. CASE Goto(a, None)
    BY <1>10, <2>5, <2>8, GotoOrder, NoneIsIdle DEF SaveOverride, OrderInv
  <2> QED BY <2>6, <2>7, <2>8
<1>11. ASSUME NEW a \in Admins, DropOverride(a)
       PROVE  OrderInv'
  <2>1. \A e \in Employees : override'[e] \in {override[e], NoOverride}
    BY <1>11 DEF DropOverride, TypeOK
  <2>2. \A e \in Employees : Sound(override'[e])
    BY <2>1, NewIsSound DEF OrderInv
  <2> QED BY <1>11, <2>2, GotoOrder, NoneIsIdle DEF DropOverride, OrderInv
<1>12. ASSUME NEW a \in Admins, NEW e \in Employees, ClearHours(a, e)
       PROVE  OrderInv'
  <2>1. \A d \in Employees : Sound(override'[d])
    BY <1>12 DEF ClearHours, OrderInv, Sound, TypeOK, OverrideRows
  <2> QED BY <1>12, <2>1 DEF ClearHours, OrderInv, RowInOrder, Sound
<1>13. ASSUME NEW a \in Admins, NEW e \in Employees, ClearOverride(a, e)
       PROVE  OrderInv'
  <2>1. \A d \in Employees : Sound(override'[d])
    BY <1>13, NewIsSound DEF ClearOverride, OrderInv, TypeOK
  <2> QED BY <1>13, <2>1 DEF ClearOverride, OrderInv, RowInOrder, Sound
<1> QED
  BY <1>1, <1>2, <1>3, <1>4, <1>5, <1>6, <1>7, <1>8, <1>9, <1>10, <1>11, <1>12, <1>13,
     FormsAssumption DEF Next

\* The global schedule stays in order whatever requests interleave, until a
\* restart writes seed_data's times.
THEOREM GlobalAlwaysOrdered == Spec => []GlobalOrderedUntilSeeded
<1>1. OrderInv => GlobalOrderedUntilSeeded
  BY DEF OrderInv, RowInOrder, GlobalOrderedUntilSeeded
<1> QED BY <1>1, InitType, NextType, InitOrder, NextOrder, PTL DEF Spec

\* An override that was checked with today's global times gives its employee a
\* schedule in order, whoever saved the row since.
THEOREM EffectiveAlwaysOrdered == Spec => []EffectiveOrderedUntilGlobalChanges
<1>1. OrderInv => EffectiveOrderedUntilGlobalChanges
  BY DEF OrderInv, Sound, EffectiveOrderedUntilGlobalChanges, EffectiveSchedule
<1> QED BY <1>1, InitType, NextType, InitOrder, NextOrder, PTL DEF Spec

----------------------------------------------------------------------------
(* Empty overrides.                                                        *)

\* A row that reads as a custom schedule with nothing in it.
Hollow(row) == row.id # 0 /\ AllBlank(row) /\ ~row.excused

\* A step that leaves an employee's row alone, or puts one that is not hollow
\* in its place, and takes no other request away that was to drop it.
LEMMA StaysDropped ==
    ASSUME EmptyOverrideIsDropped, NEW e \in Employees, NEW a \in Admins,
           ~DropsFrom(a, e), \A b \in Admins \ {a} : request'[b] = request[b],
           override'[e] = override[e] \/ ~Hollow(override'[e])
    PROVE  Hollow(override'[e]) => \E b \in Admins : DropsFrom(b, e)'
<1> SUFFICES ASSUME Hollow(override'[e]) PROVE \E b \in Admins : DropsFrom(b, e)'
  OBVIOUS
<1>1. override'[e] = override[e] /\ Hollow(override[e])
  OBVIOUS
<1>2. PICK b \in Admins : DropsFrom(b, e)
  BY <1>1 DEF EmptyOverrideIsDropped, Hollow
<1>3. request'[b] = request[b]
  BY <1>2
<1> QED BY <1>1, <1>2, <1>3 DEF DropsFrom

LEMMA NextDropped ==
    TypeOK /\ EmptyOverrideIsDropped /\ [Next]_vars => EmptyOverrideIsDropped'
<1> SUFFICES ASSUME TypeOK, EmptyOverrideIsDropped, [Next]_vars, NEW e \in Employees
             PROVE  Hollow(override'[e]) => \E b \in Admins : DropsFrom(b, e)'
  BY DEF EmptyOverrideIsDropped, Hollow, AllBlank
<1>1. CASE UNCHANGED vars
  BY <1>1 DEF vars, EmptyOverrideIsDropped, Hollow, DropsFrom
<1>2. CASE Restart
  <2> DEFINE lost == \E a \in Admins : DropsFrom(a, e)
  <2>1. override'[e] = [override[e] EXCEPT !.excused = @ \/ lost]
    BY <1>2 DEF Restart
  <2>2. override[e] \in OverrideRows
    BY DEF TypeOK
  <2>3. /\ override'[e].id = override[e].id /\ override'[e].times = override[e].times
        /\ override'[e].workdays = override[e].workdays
        /\ override'[e].hours = override[e].hours
        /\ override'[e].excused = (override[e].excused \/ lost)
    BY <2>1, <2>2 DEF OverrideRows
  <2>4. AllBlank(override'[e]) => AllBlank(override[e])
    BY <2>3 DEF AllBlank
  <2>5. Hollow(override'[e]) => Hollow(override[e]) /\ ~lost
    BY <2>3, <2>4 DEF Hollow
  <2> QED BY <2>5 DEF EmptyOverrideIsDropped, Hollow
<1>3. ASSUME NEW a \in Admins, Post(a) \/ request[a].phase # "saved",
             \A b \in Admins \ {a} : request'[b] = request[b],
             override'[e] = override[e] \/ ~Hollow(override'[e])
      PROVE  Hollow(override'[e]) => \E b \in Admins : DropsFrom(b, e)'
  BY <1>3, StaysDropped, NoneIsIdle DEF Post, DropsFrom
<1>4. ASSUME NEW a \in Admins, SaveOverride(a)
      PROVE  Hollow(override'[e]) => \E b \in Admins : DropsFrom(b, e)'
  <2> DEFINE q == request[a]
             id == IF q.row.id = 0 THEN nextId ELSE q.row.id
             taken == override[q.e].id \notin {0, q.row.id}
             row == [q.row EXCEPT !.id = id]
             r == [phase |-> "saved", e |-> q.e, row |-> row]
  <2>1. q \in Requests /\ q.phase = "saving"
    BY <1>4 DEF SaveOverride, TypeOK
  <2>2. q.e \in Employees /\ q.row \in OverrideRows
    BY <2>1, RequestFields
  <2>3. CASE q.e = e /\ ~taken /\ AllBlank(row)
    <3>1. override'[e] = row /\ request'[a] = r
      BY <1>4, <2>2, <2>3 DEF SaveOverride, Goto, TypeOK
    <3>2. r.phase = "saved" /\ r.e = q.e /\ r.row = row
      OBVIOUS
    <3> HIDE DEF r, row, taken
    <3>4. request'[a].phase = "saved" /\ request'[a].e = e /\ request'[a].row.id = override'[e].id
      BY <3>1, <3>2, <2>3
    <3>3. DropsFrom(a, e)'
      BY <3>4 DEF DropsFrom
    <3> QED BY <3>3
  <2>4. CASE ~(q.e = e /\ ~taken /\ AllBlank(row))
    <3>1. override'[e] = override[e] \/ ~AllBlank(override'[e])
      BY <1>4, <2>2, <2>4 DEF SaveOverride, TypeOK
    <3>2. \A b \in Admins \ {a} : request'[b] = request[b]
      BY <1>4 DEF SaveOverride, Goto, TypeOK
    <3> QED BY <1>3, <2>1, <3>1, <3>2 DEF Hollow
  <2> QED BY <2>3, <2>4
<1>5. ASSUME NEW a \in Admins, DropOverride(a)
      PROVE  Hollow(override'[e]) => \E b \in Admins : DropsFrom(b, e)'
  <2>1. ~Hollow(NoOverride)
    BY DEF Hollow, NoOverride, NewOverride
  <2>2. \A b \in Admins \ {a} : request'[b] = request[b]
    BY <1>5 DEF DropOverride, Goto, TypeOK
  <2>3. CASE DropsFrom(a, e)
    BY <1>5, <2>1, <2>3 DEF DropOverride, DropsFrom, TypeOK
  <2>4. CASE ~DropsFrom(a, e)
    <3>1. override'[e] = override[e] \/ ~Hollow(override'[e])
      BY <1>5, <2>1 DEF DropOverride, TypeOK
    <3> QED BY <2>2, <2>4, <3>1, StaysDropped
  <2> QED BY <2>3, <2>4
<1>6. ASSUME NEW a \in Admins, NEW d \in Employees, ClearHours(a, d)
      PROVE  Hollow(override'[e]) => \E b \in Admins : DropsFrom(b, e)'
  <2>1. override'[e] = override[e] \/ ~Hollow(override'[e])
    BY <1>6 DEF ClearHours, Hollow, TypeOK, OverrideRows
  <2> QED BY <1>3, <1>6, <2>1 DEF ClearHours
<1>7. ASSUME NEW a \in Admins, NEW d \in Employees, ClearOverride(a, d)
      PROVE  Hollow(override'[e]) => \E b \in Admins : DropsFrom(b, e)'
  <2>1. override'[e] = override[e] \/ ~Hollow(override'[e])
    BY <1>7 DEF ClearOverride, Hollow, TypeOK, NoOverride, NewOverride
  <2> QED BY <1>3, <1>7, <2>1 DEF ClearOverride
<1>8. ASSUME NEW a \in Admins, NEW form \in GlobalForms, PostSettings(a, form)
      PROVE  Hollow(override'[e]) => \E b \in Admins : DropsFrom(b, e)'
  BY <1>3, <1>8 DEF PostSettings, Goto, TypeOK
<1>9. ASSUME NEW a \in Admins, NEW form \in Requirements, PostRequirement(a, form)
      PROVE  Hollow(override'[e]) => \E b \in Admins : DropsFrom(b, e)'
  BY <1>3, <1>9 DEF PostRequirement, Goto, TypeOK
<1>10. ASSUME NEW a \in Admins, SaveSettings(a) \/ SaveRequirement(a) \/ CheckOverride(a)
       PROVE  Hollow(override'[e]) => \E b \in Admins : DropsFrom(b, e)'
  <2>1. request[a].phase # "saved" /\ override' = override
    BY <1>10 DEF SaveSettings, SaveRequirement, CheckOverride
  <2>2. \A b \in Admins \ {a} : request'[b] = request[b]
    BY <1>10 DEF SaveSettings, SaveRequirement, CheckOverride, Goto, TypeOK
  <2> QED BY <1>3, <2>1, <2>2
<1>11. ASSUME NEW a \in Admins, NEW d \in Employees, NEW form \in OverrideForms,
              PostOverride(a, d, form)
       PROVE  Hollow(override'[e]) => \E b \in Admins : DropsFrom(b, e)'
  BY <1>3, <1>11 DEF PostOverride, Goto, TypeOK
<1>12. ASSUME NEW a \in Admins, NEW d \in Parttime, NEW hours, PostHours(a, d, hours)
       PROVE  Hollow(override'[e]) => \E b \in Admins : DropsFrom(b, e)'
  BY <1>3, <1>12 DEF PostHours, Goto, TypeOK
<1> QED
  BY <1>1, <1>2, <1>4, <1>5, <1>6, <1>7, <1>8, <1>9, <1>10, <1>11, <1>12, FormsAssumption
  DEF Next

\* An override with every field blank never stays behind: some request is about
\* to drop it, unless its hours alone were cleared or a restart came between.
THEOREM EmptyOverrideAlwaysDropped == Spec => []EmptyOverrideIsDropped
<1>1. Init => EmptyOverrideIsDropped
  BY DEF Init, EmptyOverrideIsDropped, NoOverride, NewOverride
<1> QED BY <1>1, InitType, NextType, NextDropped, PTL DEF Spec
=============================================================================
