--------------------------- MODULE ScheduleSettings ---------------------------
(***************************************************************************)
(* The Schedule page: the institution's one GlobalSchedule row and each    *)
(* employee's EmployeeSchedule override, as administrators' requests load, *)
(* check and save them.  A request saves the whole row it loaded with its  *)
(* form's fields changed, and no transaction spans its statements, so the  *)
(* requests of two administrators interleave.  A restart of the web        *)
(* container runs seed_data, which writes the global schedule again.       *)
(***************************************************************************)
EXTENDS PunchRules

CONSTANTS
    Employees,      \* employees
    Parttime,       \* those of them who work by the week
    Seeded,         \* the times seed_data writes
    SeededWorkdays, \* ... and its workdays
    GlobalForms,    \* bound: the schedules administrators may submit
    Requirements,   \* bound: the weekly hours and fewest days they may submit
    OverrideForms,  \* bound: the overrides they may submit, blank fields included
    Admins,         \* administrators' browsers
    Posts,          \* bound: requests
    Restarts        \* bound: starts of the web container after the first

Blank == -1  \* a field left empty: inherit
Hours == 1..168
WorkdayFields == SUBSET (0..6)
Inherit == {Blank}  \* workdays left NULL
TimeFields == DOMAIN Seeded
Times == [TimeFields -> 0..(DaySeconds - 1)]
OverrideTimes == [TimeFields -> (0..(DaySeconds - 1)) \cup {Blank}]

ASSUME FormsAssumption ==
    /\ Parttime \subseteq Employees
    /\ Seeded \in Times /\ OrderedSchedule(Seeded)
    /\ SeededWorkdays \in WorkdayFields /\ SeededWorkdays # {}
    /\ GlobalForms \subseteq [times: Times, workdays: WorkdayFields]
    /\ Requirements \subseteq [hours: Int, days: Int]
    /\ OverrideForms \subseteq [times: OverrideTimes, workdays: WorkdayFields]
    /\ Posts \in Nat /\ Restarts \in Nat

\* seeded (history): the times are not those a form last checked.
GlobalRows == [times: Times, workdays: WorkdayFields, hours: Hours, days: 1..7, seeded: BOOLEAN]

\* id 0: not saved yet.  History: against, the global times the override's own
\* were checked with; excused, its hours were cleared by themselves or the
\* request that blanked it was lost in a restart.
OverrideRows ==
    [id: Nat, times: OverrideTimes, workdays: WorkdayFields \cup {Inherit},
     hours: Hours \cup {Blank}, against: Times, excused: BOOLEAN]

NewOverride ==
    [id |-> 0, times |-> [f \in TimeFields |-> Blank], workdays |-> Inherit, hours |-> Blank,
     against |-> Seeded, excused |-> FALSE]
NoOverride == NewOverride

VARIABLES
    global,   \* the GlobalSchedule row
    override, \* each employee's EmployeeSchedule row, or NoOverride
    nextId,   \* AUTO_INCREMENT of the override table
    request,  \* what each administrator's request is doing
    posts,    \* requests so far
    restarts  \* restarts so far

vars == <<global, override, nextId, request, posts, restarts>>

\* The weekly requirements the form lets through.
Acceptable == {f \in Requirements : f.hours \in Hours /\ f.days \in 1..7}

None == [phase |-> "none"]
Requests ==
    {None}
    \cup [phase: {"settings"}, row: GlobalRows, form: GlobalForms]
    \cup [phase: {"requirement"}, row: GlobalRows, form: Acceptable]
    \cup [phase: {"override"}, e: Employees, row: OverrideRows, form: OverrideForms]
    \cup [phase: {"saving", "saved"}, e: Employees, row: OverrideRows]

TypeOK ==
    /\ global \in GlobalRows
    /\ override \in [Employees -> OverrideRows]
    /\ nextId \in Nat \ {0}
    /\ request \in [Admins -> Requests]
    /\ posts \in 0..Posts /\ restarts \in 0..Restarts

\* After the first start of the container.
Init ==
    /\ global = [times |-> Seeded, workdays |-> SeededWorkdays, hours |-> 20, days |-> 2,
                 seeded |-> FALSE]
    /\ override = [e \in Employees |-> NoOverride]
    /\ nextId = 1
    /\ request = [a \in Admins |-> None]
    /\ posts = 0 /\ restarts = 0

----------------------------------------------------------------------------
(* The effective schedule.                                                 *)

\* The times a blank field inherits.
Inherited(own, times) ==
    [f \in TimeFields |-> IF own[f] = Blank THEN times[f] ELSE own[f]]

\* get_effective_schedule: what is NULL in the override is taken from the
\* global schedule; an empty list of workdays is not NULL.
EffectiveSchedule(e) ==
    [times |-> Inherited(override[e].times, global.times),
     workdays |-> IF override[e].workdays = Inherit THEN global.workdays ELSE override[e].workdays,
     hours |-> IF override[e].hours = Blank THEN global.hours ELSE override[e].hours,
     days |-> global.days]

AllBlank(row) ==
    /\ \A f \in TimeFields : row.times[f] = Blank
    /\ row.workdays \in {Inherit, {}}
    /\ row.hours = Blank

----------------------------------------------------------------------------
(* The global schedule's two forms.                                        *)

\* The next request of an administrator.
Post(a) ==
    /\ request[a] = None /\ posts < Posts
    /\ posts' = posts + 1

Goto(a, r) == request' = [request EXCEPT ![a] = r]

\* Seeded fault: the order of the times is not checked.
PostSettingsUnordered(a, form) ==
    /\ Post(a)
    /\ form.workdays # {}
    /\ Goto(a, [phase |-> "settings", row |-> global, form |-> form])
    /\ UNCHANGED <<global, override, nextId, restarts>>

\* schedule_settings loads the row; the form is valid if its times are in order
\* and it has a workday.
PostSettings(a, form) ==
    /\ Post(a)
    /\ OrderedSchedule(form.times) /\ form.workdays # {}
    /\ Goto(a, [phase |-> "settings", row |-> global, form |-> form])
    /\ UNCHANGED <<global, override, nextId, restarts>>

SaveSettings(a) ==
    LET form == request[a].form
    IN  /\ request[a].phase = "settings"
        /\ global' = [request[a].row EXCEPT !.times = form.times, !.workdays = form.workdays,
                                            !.seeded = FALSE]
        /\ Goto(a, None)
        /\ UNCHANGED <<override, nextId, posts, restarts>>

\* Seeded fault: no upper limit to the weekly hours.
PostRequirementUnlimited(a, form) ==
    /\ Post(a)
    /\ 0 < form.hours /\ 1 <= form.days
    /\ Goto(a, [phase |-> "requirement", row |-> global, form |-> form])
    /\ UNCHANGED <<global, override, nextId, restarts>>

\* schedule_parttime_default: the same row's other fields.
PostRequirement(a, form) ==
    /\ Post(a)
    /\ 0 < form.hours /\ form.hours <= 168
    /\ 1 <= form.days /\ form.days <= 7
    /\ Goto(a, [phase |-> "requirement", row |-> global, form |-> form])
    /\ UNCHANGED <<global, override, nextId, restarts>>

SaveRequirement(a) ==
    LET form == request[a].form
    IN  /\ request[a].phase = "requirement"
        /\ global' = [request[a].row EXCEPT !.hours = form.hours, !.days = form.days]
        /\ Goto(a, None)
        /\ UNCHANGED <<override, nextId, posts, restarts>>

----------------------------------------------------------------------------
(* An employee's override.                                                 *)

\* employee_schedule_form takes the row there is, or an unsaved one.
PostOverride(a, e, form) ==
    /\ Post(a)
    /\ Goto(a, [phase |-> "override", e |-> e, row |-> override[e], form |-> form])
    /\ UNCHANGED <<global, override, nextId, restarts>>

\* Seeded fault: the form's own times are compared, inheriting nothing.
CheckOverrideAlone(a) ==
    LET r == request[a]
        own == Inherited(r.form.times, r.row.against)
        row == [r.row EXCEPT !.times = r.form.times, !.workdays = r.form.workdays,
                             !.against = global.times, !.excused = FALSE]
    IN  /\ r.phase = "override"
        /\ Goto(a, IF OrderedSchedule(own) THEN [phase |-> "saving", e |-> r.e, row |-> row]
                   ELSE None)
        /\ UNCHANGED <<global, override, nextId, posts, restarts>>

\* EmployeeScheduleForm.clean: with the blanks inherited from the global
\* schedule of this moment, the times must be in order.
CheckOverride(a) ==
    LET r == request[a]
        row == [r.row EXCEPT !.times = r.form.times, !.workdays = r.form.workdays,
                             !.against = global.times, !.excused = FALSE]
    IN  /\ r.phase = "override"
        /\ Goto(a, IF OrderedSchedule(Inherited(r.form.times, global.times))
                   THEN [phase |-> "saving", e |-> r.e, row |-> row] ELSE None)
        /\ UNCHANGED <<global, override, nextId, posts, restarts>>

\* employee_weekly_hours_form: a part-timer's hours, or blank.
PostHours(a, e, hours) ==
    /\ Post(a)
    /\ hours = Blank \/ (0 < hours /\ hours <= 168)
    /\ Goto(a, [phase |-> "saving", e |-> e,
                row |-> [override[e] EXCEPT !.hours = hours, !.excused = FALSE]])
    /\ UNCHANGED <<global, override, nextId, restarts>>

\* Seeded fault: the row is dropped only when it was new.
SaveOverrideDropsNew(a) ==
    LET r == request[a]
        id == IF r.row.id = 0 THEN nextId ELSE r.row.id
        taken == override[r.e].id \notin {0, r.row.id}
        row == [r.row EXCEPT !.id = id]
    IN  /\ r.phase = "saving"
        /\ override' = IF taken THEN override ELSE [override EXCEPT ![r.e] = row]
        /\ nextId' = IF r.row.id = 0 THEN nextId + 1 ELSE nextId
        /\ Goto(a, IF AllBlank(row) /\ ~taken /\ r.row.id = 0
                   THEN [phase |-> "saved", e |-> r.e, row |-> row] ELSE None)
        /\ UNCHANGED <<global, posts, restarts>>

\* _save_override: the row is updated, or inserted if it is new or gone; the
\* insert fails if the employee has another row by now.
SaveOverride(a) ==
    LET r == request[a]
        id == IF r.row.id = 0 THEN nextId ELSE r.row.id
        taken == override[r.e].id \notin {0, r.row.id}
        row == [r.row EXCEPT !.id = id]
    IN  /\ r.phase = "saving"
        /\ override' = IF taken THEN override ELSE [override EXCEPT ![r.e] = row]
        /\ nextId' = IF r.row.id = 0 THEN nextId + 1 ELSE nextId
        /\ Goto(a, IF AllBlank(row) /\ ~taken
                   THEN [phase |-> "saved", e |-> r.e, row |-> row] ELSE None)
        /\ UNCHANGED <<global, posts, restarts>>

\* ... and deleted again, by its id, if every field ended up blank.
DropOverride(a) ==
    LET r == request[a]
    IN  /\ r.phase = "saved"
        /\ override' = IF override[r.e].id = r.row.id
                       THEN [override EXCEPT ![r.e] = NoOverride] ELSE override
        /\ Goto(a, None)
        /\ UNCHANGED <<global, nextId, posts, restarts>>

\* employee_weekly_hours_clear: one UPDATE, which leaves the row.
ClearHours(a, e) ==
    /\ Post(a)
    /\ override[e].id # 0
    /\ override' = [override EXCEPT ![e].hours = Blank, ![e].excused = TRUE]
    /\ UNCHANGED <<global, nextId, request, restarts>>

\* employee_schedule_clear: one DELETE.
ClearOverride(a, e) ==
    /\ Post(a)
    /\ override[e].id # 0
    /\ override' = [override EXCEPT ![e] = NoOverride]
    /\ UNCHANGED <<global, nextId, request, restarts>>

\* The request is about to drop the employee's row.
DropsFrom(a, e) ==
    /\ request[a].phase = "saved"
    /\ request[a].e = e /\ request[a].row.id = override[e].id

----------------------------------------------------------------------------

\* The web container starts again: the requests in it are lost, and seed_data
\* saves its times and workdays over the global schedule's, but no midpoint.
Restart ==
    /\ restarts < Restarts
    /\ restarts' = restarts + 1
    /\ global' = [global EXCEPT !.times = [Seeded EXCEPT !.midpoint = global.times.midpoint],
                                !.workdays = SeededWorkdays, !.seeded = TRUE]
    /\ override' = [e \in Employees |->
                       [override[e] EXCEPT !.excused = @ \/ \E a \in Admins : DropsFrom(a, e)]]
    /\ request' = [a \in Admins |-> None]
    /\ UNCHANGED <<nextId, posts>>

Next ==
    \/ Restart
    \/ \E a \in Admins :
        \/ \E form \in GlobalForms : PostSettings(a, form)
        \/ \E form \in Requirements : PostRequirement(a, form)
        \/ SaveSettings(a) \/ SaveRequirement(a)
        \/ \E e \in Employees, form \in OverrideForms : PostOverride(a, e, form)
        \/ \E e \in Parttime, r \in Requirements \cup {[hours |-> Blank]} : PostHours(a, e, r.hours)
        \/ CheckOverride(a) \/ SaveOverride(a) \/ DropOverride(a)
        \/ \E e \in Parttime : ClearHours(a, e)
        \/ \E e \in Employees : ClearOverride(a, e)

Spec == Init /\ [][Next]_vars

----------------------------------------------------------------------------
(* Properties.                                                             *)

\* "AM in < AM out <= midpoint <= PM in < PM out - the order every rule relies
\* on": the global schedule keeps it whatever requests interleave, until a
\* restart writes seed_data's times around a midpoint that was changed.
GlobalOrderedUntilSeeded ==
    ~global.seeded => OrderedSchedule(global.times) /\ global.workdays # {}

\* So does an employee's effective schedule, as long as the global times are
\* the ones the override was checked with, whoever saved the row since.
EffectiveOrderedUntilGlobalChanges ==
    \A e \in Employees :
        override[e].id # 0 /\ override[e].against = global.times
            => OrderedSchedule(EffectiveSchedule(e).times)

\* "An empty override still reads as 'Custom schedule'": a row with every field
\* blank is only there while a request is about to drop it, or after its hours
\* were cleared by themselves, or after a restart cut such a request short.
EmptyOverrideIsDropped ==
    \A e \in Employees :
        override[e].id # 0 /\ AllBlank(override[e]) /\ ~override[e].excused
            => \E a \in Admins : DropsFrom(a, e)

\* "Tap days to override; leave all off to inherit": with no request under way,
\* a stored override with every day off gives the employee the global workdays.
\* (It does not; a row that overrides nothing else is dropped again, so this is
\* about overrides that do.)
AllOffInherits ==
    (\A a \in Admins : request[a] = None) =>
        \A e \in Employees :
            override[e].id # 0 /\ override[e].workdays = {}
                => EffectiveSchedule(e).workdays = global.workdays
=============================================================================
