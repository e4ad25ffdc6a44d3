------------------------------ MODULE Accounts ------------------------------
(***************************************************************************)
(* Employees and their logins: administrators' requests in the portal, the *)
(* mobile app's requests to change a login, and seed_data, which runs each *)
(* time the web container starts.  No transaction spans a request's        *)
(* statements, so requests interleave; a request that loads a login and    *)
(* saves the whole row writes back what it loaded.                         *)
(***************************************************************************)
EXTENDS Integers, FiniteSets, Functions

CONSTANTS
    Employees,   \* primary keys of the employee table
    Numbers,     \* employee numbers
    NumberStyle, \* those that look like EMP-1005
    Bios,        \* biometric ids
    SeedBio,     \* the seeded employees: their numbers, with their biometric ids
    Choices,     \* bound: the usernames employees may choose
    AdminNames,  \* usernames of administrators
    RESERVED,    \* usernames nobody may choose
    Forms,       \* bound: the employee forms administrators may submit
    Slots,       \* requests the web server handles at once
    Posts,       \* bound: requests
    Restarts     \* bound: starts of the web container after the first

\* A username is a base and a suffix: <<b, 1>> is b itself, <<b, 2>> is b-2.
Suffixes == Nat \ {0}
Bases == Numbers \cup {c[1] : c \in Choices \cup AdminNames \cup RESERVED}
Names == Bases \X Suffixes
SeedNumbers == DOMAIN SeedBio

EmployeeRows == [no: Numbers, bio: Bios, active: BOOLEAN]

\* password: a serial number for its salted hash; 0 when none is set yet.
Logins == [name: Names, password: Nat, active: BOOLEAN]

NotHired == [no |-> "none"]
NoLogin == [name |-> "none"]
None == [phase |-> "none"]

ASSUME AccountsAssumption ==
    /\ NumberStyle \subseteq Numbers
    /\ SeedNumbers \subseteq Numbers /\ SeedBio \in [SeedNumbers -> Bios]
    /\ \A m, n \in SeedNumbers : SeedBio[m] = SeedBio[n] => m = n
    /\ Choices \subseteq Bases \X Suffixes
    /\ AdminNames \subseteq Bases \X Suffixes /\ RESERVED \subseteq Bases \X Suffixes
    /\ \A n \in SeedNumbers : <<n, 1>> \notin AdminNames
    /\ Forms \subseteq EmployeeRows
    /\ Posts \in Nat /\ Restarts \in Nat

VARIABLES
    employee,  \* the employee table
    login,     \* the User row linked to each employee (one-to-one), or NoLogin
    passwords, \* passwords set so far
    tokens,    \* the passwords each employee's phones hold tokens for
    request,   \* what the web server's requests are doing
    up,        \* the web container got past its entrypoint
    posts,     \* requests so far
    restarts,  \* restarts so far
    apart,     \* history: why employee and login may disagree on is_active
    unlucky,   \* history: who may be without a login that works
    had        \* history: the numbers each employee has had

vars == <<employee, login, passwords, tokens, request, up, posts, restarts, apart, unlucky, had>>
tables == <<employee, login, passwords, tokens>>
history == <<apart, unlucky, had>>

\* alone (history): no other request has written since this one began.
Requests ==
    {None}
    \cup [phase: {"hire", "edit"}, e: Employees, row: Forms, alone: BOOLEAN]
    \cup [phase: {"provision"}, e: Employees, alone: BOOLEAN]
    \cup [phase: {"naming", "creating"}, e: Employees, name: Names, alone: BOOLEAN]
    \cup [phase: {"password", "reset"}, e: Employees, row: Logins, alone: BOOLEAN]
    \cup [phase: {"switch", "login"}, e: Employees, active: BOOLEAN, alone: BOOLEAN]
    \cup [phase: {"rename"}, e: Employees, row: Logins, name: Choices, alone: BOOLEAN]
    \cup [phase: {"change"}, e: Employees, alone: BOOLEAN]

TypeOK ==
    /\ employee \in [Employees -> EmployeeRows \cup {NotHired}]
    /\ login \in [Employees -> Logins \cup {NoLogin}]
    /\ passwords \in Nat
    /\ tokens \in [Employees -> SUBSET Nat]
    /\ request \in [Slots -> Requests]
    /\ up \in BOOLEAN
    /\ posts \in 0..Posts /\ restarts \in 0..Restarts
    /\ apart \subseteq Employees /\ unlucky \subseteq Employees
    /\ had \in [Employees -> SUBSET Numbers]

Hired == {e \in Employees : employee[e] # NotHired}
HasLogin == {e \in Employees : login[e] # NoLogin}
Usable(e) == e \in HasLogin /\ login[e].password # 0

\* User.objects.filter(username__iexact=...) finds somebody, other than e.
TakenBut(e, name) == name \in AdminNames \cup {login[o].name : o \in HasLogin \ {e}}
Taken(name) == name \in AdminNames \cup {login[o].name : o \in HasLogin}

\* UNIQUE (employee_no) and UNIQUE (biometric_id), for a row of employee e.
Unique(e, row) ==
    \A o \in Hired \ {e} : employee[o].no # row.no /\ employee[o].bio # row.bio

----------------------------------------------------------------------------
(* Requests.                                                               *)

\* A request arrives.
Arrive(r, q) ==
    /\ up /\ request[r] = None /\ posts < Posts
    /\ posts' = posts + 1
    /\ request' = [request EXCEPT ![r] = q]
    /\ UNCHANGED <<tables, up, restarts, history>>

\* It goes on without having written ...
Goto(r, q) ==
    /\ request' = [request EXCEPT ![r] = q]
    /\ UNCHANGED <<tables, up, posts, restarts, history>>

\* ... or after a write, which the others did not expect.
Wrote(r, q) ==
    /\ request' = [s \in Slots |-> IF s = r THEN q
                                   ELSE IF request[s] = None THEN None
                                   ELSE [request[s] EXCEPT !.alone = FALSE]]
    /\ UNCHANGED <<tokens, up, posts, restarts>>

In(r, phase) == request[r].phase = phase

\* employee_form: the form is valid if number and biometric id are free.
PostHire(r, e, form) ==
    /\ e \notin Hired /\ \A s \in Slots : In(s, "hire") => request[s].e # e
    /\ Unique(e, form)
    /\ Arrive(r, [phase |-> "hire", e |-> e, row |-> form, alone |-> TRUE])

PostEdit(r, e, form) ==
    /\ e \in Hired
    /\ Unique(e, form)
    /\ Arrive(r, [phase |-> "edit", e |-> e, row |-> form, alone |-> TRUE])

\* form.save(): every field of the form, unless a unique one was lost meanwhile.
\* The form's is_active moves the employee alone.
SaveEmployee(r) ==
    LET q == request[r]
        new == q.phase = "hire"
        next == IF new THEN [phase |-> "provision", e |-> q.e, alone |-> q.alone] ELSE None
    IN  /\ In(r, "hire") \/ In(r, "edit")
        /\ IF Unique(q.e, q.row)
           THEN /\ employee' = [employee EXCEPT ![q.e] = q.row]
                /\ had' = [had EXCEPT ![q.e] = @ \cup {q.row.no}]
                /\ apart' = IF new \/ q.row.active = employee[q.e].active
                            THEN apart ELSE apart \cup {q.e}
                /\ Wrote(r, next)
                /\ UNCHANGED <<login, passwords, unlucky>>
           ELSE Goto(r, None)

\* employee_account, action create: only for an employee without a login.
PostCreate(r, e) ==
    /\ e \in Hired \ HasLogin
    /\ Arrive(r, [phase |-> "provision", e |-> e, alone |-> TRUE])

\* Seeded fault: the numbering of fallback names starts one too early.
ProvisionFromZero(r) ==
    LET q == request[r]
    IN  /\ In(r, "provision")
        /\ Goto(r, IF q.e \in HasLogin THEN None
                   ELSE [phase |-> "naming", e |-> q.e, name |-> <<employee[q.e].no, 0>>,
                         alone |-> q.alone])

\* _provision_employee_account: nothing to do if there is a login ...
Provision(r) ==
    LET q == request[r]
    IN  /\ In(r, "provision")
        /\ Goto(r, IF q.e \in HasLogin THEN None
                   ELSE [phase |-> "naming", e |-> q.e, name |-> <<employee[q.e].no, 1>>,
                         alone |-> q.alone])

\* Seeded fault: the employee's number is the username, taken or not.
TryNameOnce(r) ==
    /\ In(r, "naming")
    /\ Goto(r, [request[r] EXCEPT !.phase = "creating"])

\* ... otherwise the employee's number, or the next free name after it ...
TryName(r) ==
    LET q == request[r]
    IN  /\ In(r, "naming")
        /\ Goto(r, IF Taken(q.name) THEN [q EXCEPT !.name = <<@[1], @[2] + 1>>]
                   ELSE [q EXCEPT !.phase = "creating"])

\* ... is inserted, active and with no password; a name or an employee somebody
\* else has taken since ends the request with an error.
CreateLogin(r) ==
    LET q == request[r]
        row == [name |-> q.name, password |-> 0, active |-> TRUE]
    IN  /\ In(r, "creating")
        /\ IF Taken(q.name) \/ q.e \in HasLogin
           THEN /\ request' = [request EXCEPT ![r] = None]
                /\ unlucky' = IF q.alone THEN unlucky ELSE unlucky \cup {q.e}
                /\ UNCHANGED <<tables, up, posts, restarts, apart, had>>
           ELSE /\ login' = [login EXCEPT ![q.e] = row]
                /\ apart' = IF employee[q.e].active THEN apart ELSE apart \cup {q.e}
                /\ Wrote(r, [phase |-> "password", e |-> q.e, row |-> row, alone |-> q.alone])
                /\ UNCHANGED <<employee, passwords, unlucky, had>>

\* employee_account, action reset: loads the login.
PostReset(r, e) ==
    /\ e \in HasLogin
    /\ Arrive(r, [phase |-> "reset", e |-> e, row |-> login[e], alone |-> TRUE])

\* set_password(default) and save(): the row created or loaded earlier, whole.
SavePassword(r) ==
    LET q == request[r]
    IN  /\ In(r, "password") \/ In(r, "reset")
        /\ IF TakenBut(q.e, q.row.name) THEN Goto(r, None)
           ELSE /\ passwords' = passwords + 1
                /\ login' = [login EXCEPT ![q.e] = [q.row EXCEPT !.password = passwords + 1]]
                /\ unlucky' = unlucky \ {q.e}
                /\ apart' = IF q.alone THEN apart ELSE apart \cup {q.e}
                /\ Wrote(r, None)
                /\ UNCHANGED <<employee, had>>

\* employee_deactivate and employee_reactivate ...
PostSwitch(r, e, active) ==
    /\ e \in Hired
    /\ Arrive(r, [phase |-> "switch", e |-> e, active |-> active, alone |-> TRUE])

\* ... _set_employee_active: the employee's is_active ...
SwitchEmployee(r) ==
    LET q == request[r]
    IN  /\ In(r, "switch")
        /\ employee' = [employee EXCEPT ![q.e].active = q.active]
        /\ Wrote(r, [q EXCEPT !.phase = "login"])
        /\ UNCHANGED <<login, passwords, history>>

\* Seeded fault: reactivating forgets the login.
SwitchLoginOff(r) ==
    LET q == request[r]
    IN  /\ In(r, "login")
        /\ login' = IF q.e \in HasLogin /\ ~q.active
                    THEN [login EXCEPT ![q.e].active = q.active] ELSE login
        /\ apart' = IF q.alone THEN apart \ {q.e} ELSE apart \cup {q.e}
        /\ Wrote(r, None)
        /\ UNCHANGED <<employee, passwords, unlucky, had>>

\* ... then its login's, if it has one.
SwitchLogin(r) ==
    LET q == request[r]
    IN  /\ In(r, "login")
        /\ login' = IF q.e \in HasLogin THEN [login EXCEPT ![q.e].active = q.active] ELSE login
        /\ apart' = IF q.alone THEN apart \ {q.e} ELSE apart \cup {q.e}
        /\ Wrote(r, None)
        /\ UNCHANGED <<employee, passwords, unlucky, had>>

----------------------------------------------------------------------------
(* The mobile app.                                                         *)

\* A token names the user and the password it was issued for; with
\* CHECK_REVOKE_TOKEN neither access nor refresh outlives that password.
SignedIn(e) == Usable(e) /\ login[e].active /\ login[e].password \in tokens[e]

\* auth/login with the right password.
SignIn(e) ==
    /\ up /\ Usable(e) /\ login[e].active
    /\ tokens' = [tokens EXCEPT ![e] = @ \cup {login[e].password}]
    /\ UNCHANGED <<employee, login, passwords, request, up, posts, restarts, history>>

\* Seeded fault: any free name will do, employee numbers too.
AvailableIfFree(e, name) ==
    /\ name # login[e].name
    /\ name \notin RESERVED
    /\ ~TakenBut(e, name)

\* availability_problem: number-style names, and names that are some employee's
\* number, only for the employee who has that number.
Available(e, name) ==
    /\ name # login[e].name
    /\ name \notin RESERVED
    /\ ~TakenBut(e, name)
    /\ name = <<employee[e].no, 1>>
       \/ name \notin (NumberStyle \cup {employee[o].no : o \in Hired}) \X {1}

\* ChangeUsernameView checks the name with the login it loaded ...
PostRename(r, e, name) ==
    /\ SignedIn(e)
    /\ Available(e, name)
    /\ Arrive(r, [phase |-> "rename", e |-> e, row |-> login[e], name |-> name, alone |-> TRUE])

\* Seeded fault: save() without update_fields.
SaveNameAndRow(r) ==
    LET q == request[r]
    IN  /\ In(r, "rename")
        /\ IF TakenBut(q.e, q.name) THEN Goto(r, None)
           ELSE /\ login' = [login EXCEPT ![q.e] = [q.row EXCEPT !.name = q.name]]
                /\ Wrote(r, None)
                /\ UNCHANGED <<employee, passwords, history>>

\* ... and saves the name alone, unless somebody has it by now.
SaveName(r) ==
    LET q == request[r]
    IN  /\ In(r, "rename")
        /\ IF TakenBut(q.e, q.name) THEN Goto(r, None)
           ELSE /\ login' = [login EXCEPT ![q.e].name = q.name]
                /\ Wrote(r, None)
                /\ UNCHANGED <<employee, passwords, history>>

\* ChangePasswordView checks the old password ...
PostChange(r, e) ==
    /\ SignedIn(e)
    /\ Arrive(r, [phase |-> "change", e |-> e, alone |-> TRUE])

\* ... saves the new one alone, and answers with tokens signed with it.
SaveChange(r) ==
    LET q == request[r]
    IN  /\ In(r, "change")
        /\ passwords' = passwords + 1
        /\ login' = [login EXCEPT ![q.e].password = passwords + 1]
        /\ tokens' = [tokens EXCEPT ![q.e] = @ \cup {passwords + 1}]
        /\ request' = [s \in Slots |-> IF s = r \/ request[s] = None THEN None
                                       ELSE [request[s] EXCEPT !.alone = FALSE]]
        /\ UNCHANGED <<employee, up, posts, restarts, history>>

----------------------------------------------------------------------------
(* The entrypoint.                                                         *)

\* The employee of a seeded number; the seeded numbers no employee has.
Of(n) == CHOOSE e \in Hired : employee[e].no = n
Missing == {n \in SeedNumbers : \A e \in Hired : employee[e].no # n}

\* Seeded fault: the account is looked up by its username.
SeedFailsByName ==
    \/ \E n \in Missing, e \in Hired : employee[e].bio = SeedBio[n]
    \/ \E n \in SeedNumbers \ Missing : ~Taken(<<n, 1>>) /\ Of(n) \in HasLogin

\* get_or_create(employee_no=...) inserts, and fails on the biometric id.
SeedFails == \E n \in Missing, e \in Hired : employee[e].bio = SeedBio[n]

\* The seeded number an employee has, or gets when the missing ones are added
\* at these keys; and who gets a login, being without one, if the name is free.
NumberOf(e, at) ==
    {n \in SeedNumbers : IF n \in Missing THEN at[n] = e ELSE Of(n) = e}
TheNumber(e, at) == CHOOSE n \in NumberOf(e, at) : TRUE
Added(at) == {at[n] : n \in Missing}
Enrolled(at) == {e \in Employees \ HasLogin : \E n \in NumberOf(e, at) : ~Taken(<<n, 1>>)}

\* The employees whose requests are lost with the container in these phases.
Cut(phases) == {request[r].e : r \in {s \in Slots : request[s].phase \in phases}}
Provisioned == Cut({"provision", "naming", "creating", "password"})

\* The web container starts again: its requests are lost.
Boot ==
    /\ up /\ restarts < Restarts
    /\ restarts' = restarts + 1
    /\ request' = [r \in Slots |-> None]
    /\ UNCHANGED <<tokens, posts>>

\* seed_data fails: the entrypoint ends, and so does every later start.
BootFails ==
    /\ Boot /\ SeedFails
    /\ up' = FALSE
    /\ apart' = apart \cup Cut({"login"})
    /\ unlucky' = unlucky \cup Provisioned
    /\ UNCHANGED <<employee, login, passwords, had>>

\* seed_data, one transaction, adds the seeded employees it misses and a login
\* for each of the seeded who has none.
BootSeeds(at) ==
    LET new == Enrolled(at)
        added == Added(at)
        no(e) == TheNumber(e, at)
    IN  /\ Boot /\ ~SeedFails
        /\ UNCHANGED up
        /\ employee' = [e \in Employees |->
               IF e \in added THEN [no |-> no(e), bio |-> SeedBio[no(e)], active |-> TRUE]
               ELSE employee[e]]
        /\ login' = [e \in Employees |->
               IF e \in new THEN [name |-> <<no(e), 1>>, password |-> passwords + 1,
                                  active |-> TRUE] ELSE login[e]]
        /\ passwords' = IF new = {} THEN passwords ELSE passwords + 1
        /\ had' = [e \in Employees |-> had[e] \cup NumberOf(e, at)]
        /\ apart' = apart \cup Cut({"login"})
                        \cup {e \in new \ added : ~employee[e].active}
        /\ unlucky' = (unlucky \cup Provisioned \cup added) \ new

Restart == BootFails \/ \E at \in Injection(Missing, Employees \ Hired) : BootSeeds(at)

\* After the first start.
Init ==
    /\ \E at \in Injection(SeedNumbers, Employees) :
          /\ employee = [e \in Employees |->
                 IF \E n \in SeedNumbers : at[n] = e
                 THEN LET n == CHOOSE m \in SeedNumbers : at[m] = e
                      IN  [no |-> n, bio |-> SeedBio[n], active |-> TRUE]
                 ELSE NotHired]
          /\ login = [e \in Employees |->
                 IF employee[e] = NotHired THEN NoLogin
                 ELSE [name |-> <<employee[e].no, 1>>, password |-> 1, active |-> TRUE]]
    /\ passwords = 1
    /\ tokens = [e \in Employees |-> {}]
    /\ request = [r \in Slots |-> None]
    /\ up = TRUE
    /\ posts = 0 /\ restarts = 0
    /\ apart = {} /\ unlucky = {}
    /\ had = [e \in Employees |-> IF employee[e] = NotHired THEN {} ELSE {employee[e].no}]

Next ==
    \/ Restart
    \/ \E e \in Employees : SignIn(e)
    \/ \E r \in Slots :
        \/ SaveEmployee(r) \/ Provision(r) \/ TryName(r) \/ CreateLogin(r)
        \/ SavePassword(r) \/ SwitchEmployee(r) \/ SwitchLogin(r) \/ SaveName(r) \/ SaveChange(r)
        \/ \E e \in Employees :
            \/ \E form \in Forms : PostHire(r, e, form) \/ PostEdit(r, e, form)
            \/ \E active \in BOOLEAN : PostSwitch(r, e, active)
            \/ \E name \in Choices : PostRename(r, e, name)
            \/ PostCreate(r, e) \/ PostReset(r, e) \/ PostChange(r, e)

Spec == Init /\ [][Next]_vars

----------------------------------------------------------------------------
(* Properties.                                                             *)

\* "Every token issued before the change stops working": a token revoked by a
\* new password never works again, whatever stale rows are saved later.
RevokedTokensStayRevoked ==
    [][\A e \in HasLogin : \A t \in tokens[e] :
          t # login[e].password => t # login'[e].password]_vars

\* "Deactivating is one switch, not two": an employee and their login disagree
\* only through the form's own box, a login created for an inactive employee,
\* overlapping requests, or a restart between the two saves; one undisturbed
\* press of the button ends it.
OneSwitch ==
    \A e \in HasLogin \ apart :
        (\A r \in Slots : In(r, "login") => request[r].e # e)
            => login[e].active = employee[e].active

Provisioning(e) ==
    \E r \in Slots : /\ request[r].phase \in {"provision", "naming", "creating", "password"}
                     /\ request[r].e = e

\* "rather than silently creating nothing and leaving the new hire unable to
\* sign in": every employee ends up with a login with a password, whatever names
\* others have chosen, unless another write disturbed the request that gives
\* it, or a restart cut it short, or seed_data added the employee.
HiresGetLogins == \A e \in Hired \ unlucky : Usable(e) \/ Provisioning(e)

\* "Employee-number style logins belong to that employee (or to a future
\* hire)": only one who has, or had, the number ever holds it as a username.
NumbersBelong ==
    \A e \in HasLogin, n \in NumberStyle : login[e].name = <<n, 1>> => n \in had[e]

\* seed_data looks accounts up by their employee, so renaming one does not stop
\* the app from booting: only the change of a seeded employee's number does.
RenamesNeverStopTheApp == Missing = {} => up
=============================================================================
