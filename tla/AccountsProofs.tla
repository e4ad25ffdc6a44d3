--------------------------- MODULE AccountsProofs ---------------------------
(***************************************************************************)
(* Proofs about Accounts, for any employees, numbers, forms and number of  *)
(* requests at once: typing, that revoked tokens stay revoked, that number *)
(* logins belong to their employee, that renames never stop the app, that  *)
(* (de)activation moves both switches, and that hires get a login.         *)
(***************************************************************************)
EXTENDS Accounts, TLAPS

LEMMA NotRows == NotHired \notin EmployeeRows /\ NoLogin \notin Logins
<1>1. \A x \in EmployeeRows : DOMAIN x = {"no", "bio", "active"}
  BY DEF EmployeeRows
<1>2. \A x \in Logins : DOMAIN x = {"name", "password", "active"}
  BY DEF Logins
<1>3. DOMAIN NotHired = {"no"} /\ DOMAIN NoLogin = {"name"}
  BY DEF NotHired, NoLogin
<1>4. {"no"} # {"no", "bio", "active"} /\ {"name"} # {"name", "password", "active"}
  <2>1. "bio" \notin {"no"} /\ "active" \notin {"name"}
    OBVIOUS
  <2> QED BY <2>1
<1> QED BY <1>1, <1>2, <1>3, <1>4

LEMMA NamesType ==
    /\ \A n \in Numbers, k \in Suffixes : <<n, k>> \in Names
    /\ Choices \subseteq Names
BY AccountsAssumption DEF Names, Bases

\* What a request holds in each of its phases.
LEMMA RequestFields ==
    ASSUME NEW q \in Requests
    PROVE  /\ q.phase # "none" => q.e \in Employees /\ q.alone \in BOOLEAN
           /\ q.phase \in {"hire", "edit"} => q.row \in Forms
           /\ q.phase \in {"naming", "creating"} => q.name \in Names
           /\ q.phase \in {"password", "reset", "rename"} => q.row \in Logins
           /\ q.phase \in {"switch", "login"} => q.active \in BOOLEAN
           /\ q.phase = "rename" => q.name \in Choices
           /\ q = None <=> q.phase = "none"
<1>1. None.phase = "none"
  BY DEF None
<1> QED BY <1>1 DEF Requests

Phases == {"none", "hire", "edit", "provision", "naming", "creating", "password", "reset",
           "switch", "login", "rename", "change"}

\* p is q, but for whether another request has written since.
Like(p, q) ==
    /\ p \in Requests
    /\ p.phase = q.phase
    /\ q.phase # "none" => p.e = q.e
    /\ q.phase \in {"hire", "edit", "password", "reset", "rename"} => p.row = q.row
    /\ q.phase \in {"naming", "creating", "rename"} => p.name = q.name
    /\ q.phase \in {"switch", "login"} => p.active = q.active

LEMMA Disturbed ==
    ASSUME NEW q \in Requests, q # None
    PROVE  Like([q EXCEPT !.alone = FALSE], q) /\ [q EXCEPT !.alone = FALSE].alone = FALSE
<1> DEFINE p == [q EXCEPT !.alone = FALSE]
<1>1. CASE q \in [phase: {"hire", "edit"}, e: Employees, row: Forms, alone: BOOLEAN]
  BY <1>1 DEF Like, Requests
<1>2. CASE q \in [phase: {"provision"}, e: Employees, alone: BOOLEAN]
  BY <1>2 DEF Like, Requests
<1>3. CASE q \in [phase: {"naming", "creating"}, e: Employees, name: Names, alone: BOOLEAN]
  BY <1>3 DEF Like, Requests
<1>4. CASE q \in [phase: {"password", "reset"}, e: Employees, row: Logins, alone: BOOLEAN]
  BY <1>4 DEF Like, Requests
<1>5. CASE q \in [phase: {"switch", "login"}, e: Employees, active: BOOLEAN, alone: BOOLEAN]
  BY <1>5 DEF Like, Requests
<1>6. CASE q \in [phase: {"rename"}, e: Employees, row: Logins, name: Choices, alone: BOOLEAN]
  BY <1>6 DEF Like, Requests
<1>7. CASE q \in [phase: {"change"}, e: Employees, alone: BOOLEAN]
  BY <1>7 DEF Like, Requests
<1> QED BY <1>1, <1>2, <1>3, <1>4, <1>5, <1>6, <1>7 DEF Requests

\* A step of request r sends it to q; the others stay as they are ...
Others(r, q) ==
    /\ request' \in [Slots -> Requests]
    /\ request'[r] = q
    /\ \A s \in Slots \ {r} : Like(request'[s], request[s])

\* ... and after a write no other is alone.
Disturbs(r) == \A s \in Slots \ {r} : request'[s].phase # "none" => ~request'[s].alone

LEMMA OthersStay ==
    ASSUME TypeOK, NEW r \in Slots, NEW q \in Requests, Arrive(r, q) \/ Goto(r, q)
    PROVE  Others(r, q) /\ \A s \in Slots \ {r} : request'[s] = request[s]
BY DEF TypeOK, Arrive, Goto, Others, Like

LEMMA OthersWrote ==
    ASSUME TypeOK, NEW r \in Slots, NEW q \in Requests,
           request' = [s \in Slots |-> IF s = r THEN q
                                       ELSE IF request[s] = None THEN None
                                       ELSE [request[s] EXCEPT !.alone = FALSE]]
    PROVE  Others(r, q) /\ Disturbs(r)
<1>1. None \in Requests /\ None.phase = "none"
  BY DEF None, Requests
<1>2. \A s \in Slots : request[s] \in Requests
  BY DEF TypeOK
<1>3. ASSUME NEW s \in Slots \ {r}
      PROVE  /\ Like(request'[s], request[s])
             /\ request'[s].phase # "none" => ~request'[s].alone
  <2>1. CASE request[s] = None
    BY <1>1, <2>1 DEF Like
  <2>2. CASE request[s] # None
    BY <1>2, <2>2, Disturbed
  <2> QED BY <2>1, <2>2
<1> QED BY <1>3 DEF Others, Disturbs, Like

----------------------------------------------------------------------------
(* Typing.  A request's step finds the rows it needs only because rows are *)
(* never deleted, so the invariant says whose rows each phase relies on.   *)

Standing(q, hired, logged) ==
    /\ q.phase \in {"edit", "provision", "naming", "creating", "switch", "login"} => q.e \in hired
    /\ q.phase \in {"password", "reset", "rename", "change"} => q.e \in logged

Employed ==
    /\ HasLogin \subseteq Hired
    /\ \A r \in Slots : Standing(request[r], Hired, HasLogin)

TypeInv == TypeOK /\ Employed

LEMMA FrameEmployed ==
    ASSUME TypeInv, NEW r \in Slots, NEW q, Others(r, q), Standing(q, Hired', HasLogin'),
           Hired \subseteq Hired', HasLogin \subseteq HasLogin', HasLogin' \subseteq Hired'
    PROVE  Employed'
<1>1. ASSUME NEW s \in Slots PROVE Standing(request'[s], Hired', HasLogin')
  <2>1. CASE s = r
    BY <2>1 DEF Others
  <2>2. CASE s # r
    <3>1. Like(request'[s], request[s]) /\ Standing(request[s], Hired, HasLogin)
      BY <2>2 DEF Others, TypeInv, Employed
    <3> QED BY <3>1 DEF Like, Standing
  <2> QED BY <2>1, <2>2
<1> QED BY <1>1 DEF Employed

\* Steps that write no table.
LEMMA FrameType ==
    ASSUME TypeInv, NEW r \in Slots, NEW q \in Requests, Standing(q, Hired, HasLogin),
           Arrive(r, q) \/ Goto(r, q)
    PROVE  TypeInv'
<1>1. Others(r, q)
  BY OthersStay DEF TypeInv
<1>2. Hired' = Hired /\ HasLogin' = HasLogin
  BY DEF Arrive, Goto, tables, Hired, HasLogin
<1>3. TypeOK'
  BY <1>1, AccountsAssumption DEF TypeInv, TypeOK, Arrive, Goto, tables, history, Others
<1> QED BY <1>1, <1>2, <1>3, FrameEmployed DEF TypeInv, Employed

\* Writes of an employee's row or of a login.
LEMMA HiredGrows ==
    ASSUME TypeOK, NEW e \in Employees, NEW row \in EmployeeRows,
           employee' = [employee EXCEPT ![e] = row]
    PROVE  /\ employee' \in [Employees -> EmployeeRows \cup {NotHired}]
           /\ Hired' = Hired \cup {e}
BY NotRows DEF TypeOK, Hired

LEMMA LoginsGrow ==
    ASSUME TypeOK, NEW e \in Employees, NEW row \in Logins,
           login' = [login EXCEPT ![e] = row]
    PROVE  /\ login' \in [Employees -> Logins \cup {NoLogin}]
           /\ HasLogin' = HasLogin \cup {e}
BY NotRows DEF TypeOK, HasLogin

LEMMA NoneStands == None \in Requests /\ \A H, L : Standing(None, H, L)
BY DEF None, Requests, Standing

LEMMA SaveEmployeeType ==
    ASSUME TypeInv, NEW r \in Slots, SaveEmployee(r)
    PROVE  TypeInv'
<1> DEFINE q == request[r]
           new == q.phase = "hire"
           p == [phase |-> "provision", e |-> q.e, alone |-> q.alone]
           next == IF new THEN p ELSE None
<1>1. q \in Requests /\ q.phase \in {"hire", "edit"}
  BY DEF SaveEmployee, In, TypeInv, TypeOK
<1>2. q.e \in Employees /\ q.row \in EmployeeRows /\ q.alone \in BOOLEAN
  BY <1>1, RequestFields, AccountsAssumption
<1>3. next \in Requests /\ Standing(next, Hired \cup {q.e}, HasLogin)
  BY <1>2, NoneStands DEF Requests, Standing
<1>4. CASE Unique(q.e, q.row)
  <2>1. Others(r, next)
    BY <1>3, <1>4, OthersWrote DEF SaveEmployee, Wrote, TypeInv
  <2>2. /\ employee' \in [Employees -> EmployeeRows \cup {NotHired}]
        /\ Hired' = Hired \cup {q.e}
    BY <1>2, <1>4, HiredGrows DEF SaveEmployee, TypeInv
  <2>3. HasLogin' = HasLogin
    BY <1>4 DEF SaveEmployee, HasLogin
  <2>4. had' \in [Employees -> SUBSET Numbers] /\ apart' \subseteq Employees
    BY <1>2, <1>4 DEF SaveEmployee, TypeInv, TypeOK, EmployeeRows
  <2>5. TypeOK'
    BY <1>4, <2>1, <2>2, <2>4 DEF SaveEmployee, Wrote, TypeInv, TypeOK, Others
  <2> QED BY <1>3, <2>1, <2>2, <2>3, <2>5, FrameEmployed DEF TypeInv, Employed
<1>5. CASE ~Unique(q.e, q.row)
  BY <1>5, NoneStands, FrameType DEF SaveEmployee
<1> QED BY <1>4, <1>5

LEMMA ProvisionType ==
    ASSUME TypeInv, NEW r \in Slots, Provision(r) \/ TryName(r)
    PROVE  TypeInv'
<1> DEFINE q == request[r]
           p == [phase |-> "naming", e |-> q.e, name |-> <<employee[q.e].no, 1>>,
                 alone |-> q.alone]
           another == [q EXCEPT !.name = <<@[1], @[2] + 1>>]
           found == [q EXCEPT !.phase = "creating"]
<1>1. q \in Requests /\ q.phase \in {"provision", "naming"} /\ q.e \in Hired
  BY DEF Provision, TryName, In, TypeInv, TypeOK, Employed, Standing
<1>2. CASE Provision(r)
  <2>1. q.e \in Employees /\ q.alone \in BOOLEAN /\ employee[q.e] \in EmployeeRows
    BY <1>1, RequestFields DEF Hired, TypeInv, TypeOK
  <2>2. <<employee[q.e].no, 1>> \in Names
    BY <2>1, NamesType DEF EmployeeRows, Suffixes
  <2>3. p \in Requests /\ Standing(p, Hired, HasLogin)
    BY <1>1, <2>1, <2>2 DEF Requests, Standing
  <2> QED BY <1>2, <2>3, NoneStands, FrameType DEF Provision
<1>3. CASE TryName(r)
  <2>1. q \in [phase: {"naming", "creating"}, e: Employees, name: Names, alone: BOOLEAN]
    BY <1>1, <1>3 DEF TryName, In, Requests, None
  <2>2. <<q.name[1], q.name[2] + 1>> \in Names
    BY <2>1 DEF Names, Suffixes
  <2>3. another \in Requests /\ found \in Requests
    BY <2>1, <2>2 DEF Requests
  <2>4. Standing(another, Hired, HasLogin) /\ Standing(found, Hired, HasLogin)
    BY <1>1, <1>3, <2>1 DEF Standing, TryName, In
  <2> QED BY <1>3, <2>3, <2>4, FrameType DEF TryName
<1> QED BY <1>2, <1>3

LEMMA CreateLoginType ==
    ASSUME TypeInv, NEW r \in Slots, CreateLogin(r)
    PROVE  TypeInv'
<1> DEFINE q == request[r]
           row == [name |-> q.name, password |-> 0, active |-> TRUE]
           p == [phase |-> "password", e |-> q.e, row |-> row, alone |-> q.alone]
<1>1. q \in Requests /\ q.phase = "creating" /\ q.e \in Hired
  BY DEF CreateLogin, In, TypeInv, TypeOK, Employed, Standing
<1>2. q.e \in Employees /\ q.name \in Names /\ q.alone \in BOOLEAN
  BY <1>1, RequestFields
<1>3. row \in Logins /\ p \in Requests
  BY <1>2 DEF Logins, Requests
<1>4. CASE Taken(q.name) \/ q.e \in HasLogin
  <2>1. Others(r, None)
    <3>1. request' = [request EXCEPT ![r] = None]
      BY <1>4 DEF CreateLogin
    <3> QED BY <3>1, NoneStands DEF TypeInv, TypeOK, Others, Like
  <2>2. Hired' = Hired /\ HasLogin' = HasLogin
    BY <1>4 DEF CreateLogin, tables, Hired, HasLogin
  <2>3. TypeOK'
    BY <1>2, <1>4, <2>1 DEF CreateLogin, tables, TypeInv, TypeOK, Others
  <2> QED BY <2>1, <2>2, <2>3, NoneStands, FrameEmployed DEF TypeInv, Employed
<1>5. CASE ~(Taken(q.name) \/ q.e \in HasLogin)
  <2>1. Others(r, p)
    BY <1>3, <1>5, OthersWrote DEF CreateLogin, Wrote, TypeInv
  <2>2. /\ login' \in [Employees -> Logins \cup {NoLogin}]
        /\ HasLogin' = HasLogin \cup {q.e}
    BY <1>2, <1>3, <1>5, LoginsGrow DEF CreateLogin, TypeInv
  <2>3. Hired' = Hired
    BY <1>5 DEF CreateLogin, Hired
  <2>4. TypeOK'
    BY <1>2, <1>5, <2>1, <2>2 DEF CreateLogin, Wrote, TypeInv, TypeOK, Others
  <2>5. Standing(p, Hired, HasLogin \cup {q.e})
    BY DEF Standing
  <2> QED BY <1>1, <2>1, <2>2, <2>3, <2>4, <2>5, FrameEmployed DEF TypeInv, Employed
<1> QED BY <1>4, <1>5

LEMMA SavePasswordType ==
    ASSUME TypeInv, NEW r \in Slots, SavePassword(r)
    PROVE  TypeInv'
<1> DEFINE q == request[r]
           row == [q.row EXCEPT !.password = passwords + 1]
<1>1. q \in Requests /\ q.phase \in {"password", "reset"} /\ q.e \in HasLogin
  BY DEF SavePassword, In, TypeInv, TypeOK, Employed, Standing
<1>2. q.e \in Employees /\ q.row \in Logins
  BY <1>1, RequestFields
<1>3. row \in Logins
  BY <1>2 DEF Logins, TypeInv, TypeOK
<1>4. CASE TakenBut(q.e, q.row.name)
  BY <1>4, NoneStands, FrameType DEF SavePassword
<1>5. CASE ~TakenBut(q.e, q.row.name)
  <2>1. Others(r, None)
    BY <1>5, NoneStands, OthersWrote DEF SavePassword, Wrote, TypeInv
  <2>2. /\ login' \in [Employees -> Logins \cup {NoLogin}]
        /\ HasLogin' = HasLogin \cup {q.e}
    BY <1>2, <1>3, <1>5, LoginsGrow DEF SavePassword, TypeInv
  <2>3. Hired' = Hired
    BY <1>5 DEF SavePassword, Hired
  <2>4. TypeOK'
    BY <1>2, <1>5, <2>1, <2>2 DEF SavePassword, Wrote, TypeInv, TypeOK, Others
  <2> QED BY <1>1, <2>1, <2>2, <2>3, <2>4, NoneStands, FrameEmployed DEF TypeInv, Employed
<1> QED BY <1>4, <1>5

LEMMA SwitchType ==
    ASSUME TypeInv, NEW r \in Slots, SwitchEmployee(r) \/ SwitchLogin(r)
    PROVE  TypeInv'
<1> DEFINE q == request[r]
           p == [q EXCEPT !.phase = "login"]
<1>1. q \in Requests /\ q.phase \in {"switch", "login"} /\ q.e \in Hired
  BY DEF SwitchEmployee, SwitchLogin, In, TypeInv, TypeOK, Employed, Standing
<1>2. q.e \in Employees /\ q.active \in BOOLEAN
  BY <1>1, RequestFields
<1>3. CASE SwitchEmployee(r)
  <2>1. q \in [phase: {"switch", "login"}, e: Employees, active: BOOLEAN, alone: BOOLEAN]
    BY <1>1 DEF Requests, None
  <2>2. p \in Requests /\ Standing(p, Hired, HasLogin)
    BY <1>1, <2>1 DEF Requests, Standing
  <2>3. employee[q.e] \in EmployeeRows
    BY <1>1, <1>2 DEF Hired, TypeInv, TypeOK
  <2>4. [employee[q.e] EXCEPT !.active = q.active] \in EmployeeRows
    BY <1>2, <2>3 DEF EmployeeRows
  <2>5. employee' = [employee EXCEPT ![q.e] = [employee[q.e] EXCEPT !.active = q.active]]
    BY <1>3 DEF SwitchEmployee
  <2>6. /\ employee' \in [Employees -> EmployeeRows \cup {NotHired}]
        /\ Hired' = Hired
    <3> DEFINE row == [employee[q.e] EXCEPT !.active = q.active]
    <3>1. row \in EmployeeRows /\ employee' = [employee EXCEPT ![q.e] = row]
      BY <2>4, <2>5
    <3> HIDE DEF row
    <3>2. /\ employee' \in [Employees -> EmployeeRows \cup {NotHired}]
          /\ Hired' = Hired \cup {q.e}
      BY <1>2, <3>1, HiredGrows DEF TypeInv
    <3> QED BY <1>1, <3>2
  <2>7. Others(r, p)
    BY <1>3, <2>2, OthersWrote DEF SwitchEmployee, Wrote, TypeInv
  <2>8. HasLogin' = HasLogin
    BY <1>3 DEF SwitchEmployee, HasLogin
  <2>9. TypeOK'
    BY <1>3, <2>6, <2>7 DEF SwitchEmployee, Wrote, history, TypeInv, TypeOK, Others
  <2> QED BY <2>2, <2>6, <2>7, <2>8, <2>9, FrameEmployed DEF TypeInv, Employed
<1>4. CASE SwitchLogin(r)
  <2>1. /\ login' \in [Employees -> Logins \cup {NoLogin}]
        /\ HasLogin' = HasLogin
    <3>1. CASE q.e \in HasLogin
      <4>1. login[q.e] \in Logins
        BY <3>1 DEF HasLogin, TypeInv, TypeOK
      <4>2. [login[q.e] EXCEPT !.active = q.active] \in Logins
        BY <1>2, <4>1 DEF Logins
      <4>3. login' = [login EXCEPT ![q.e] = [login[q.e] EXCEPT !.active = q.active]]
        BY <1>4, <3>1 DEF SwitchLogin
      <4> DEFINE row == [login[q.e] EXCEPT !.active = q.active]
      <4>4. row \in Logins /\ login' = [login EXCEPT ![q.e] = row]
        BY <4>2, <4>3
      <4> HIDE DEF row
      <4>5. /\ login' \in [Employees -> Logins \cup {NoLogin}]
            /\ HasLogin' = HasLogin \cup {q.e}
        BY <1>2, <4>4, LoginsGrow DEF TypeInv
      <4> QED BY <3>1, <4>5
    <3>2. CASE q.e \notin HasLogin
      BY <1>4, <3>2 DEF SwitchLogin, TypeInv, TypeOK, HasLogin
    <3> QED BY <3>1, <3>2
  <2>2. Others(r, None)
    BY <1>4, NoneStands, OthersWrote DEF SwitchLogin, Wrote, TypeInv
  <2>3. Hired' = Hired
    BY <1>4 DEF SwitchLogin, Hired
  <2>4. TypeOK'
    BY <1>2, <1>4, <2>1, <2>2 DEF SwitchLogin, Wrote, TypeInv, TypeOK, Others
  <2> QED BY <2>1, <2>2, <2>3, <2>4, NoneStands, FrameEmployed DEF TypeInv, Employed
<1> QED BY <1>3, <1>4

LEMMA SaveNameType ==
    ASSUME TypeInv, NEW r \in Slots, SaveName(r)
    PROVE  TypeInv'
<1> DEFINE q == request[r]
<1>1. q \in Requests /\ q.phase = "rename" /\ q.e \in HasLogin
  BY DEF SaveName, In, TypeInv, TypeOK, Employed, Standing
<1>2. q.e \in Employees /\ q.name \in Names
  BY <1>1, RequestFields, NamesType
<1>3. CASE TakenBut(q.e, q.name)
  BY <1>3, NoneStands, FrameType DEF SaveName
<1>4. CASE ~TakenBut(q.e, q.name)
  <2>1. login[q.e] \in Logins
    BY <1>1 DEF HasLogin, TypeInv, TypeOK
  <2>2. [login[q.e] EXCEPT !.name = q.name] \in Logins
    BY <1>2, <2>1 DEF Logins
  <2>3. login' = [login EXCEPT ![q.e] = [login[q.e] EXCEPT !.name = q.name]]
    BY <1>4 DEF SaveName
  <2>4. /\ login' \in [Employees -> Logins \cup {NoLogin}]
        /\ HasLogin' = HasLogin
    <3> DEFINE row == [login[q.e] EXCEPT !.name = q.name]
    <3>1. row \in Logins /\ login' = [login EXCEPT ![q.e] = row]
      BY <2>2, <2>3
    <3> HIDE DEF row
    <3>2. /\ login' \in [Employees -> Logins \cup {NoLogin}]
          /\ HasLogin' = HasLogin \cup {q.e}
      BY <1>2, <3>1, LoginsGrow DEF TypeInv
    <3> QED BY <1>1, <3>2
  <2>5. Others(r, None)
    BY <1>4, NoneStands, OthersWrote DEF SaveName, Wrote, TypeInv
  <2>6. Hired' = Hired
    BY <1>4 DEF SaveName, Hired
  <2>7. TypeOK'
    BY <1>4, <2>4, <2>5 DEF SaveName, Wrote, history, TypeInv, TypeOK, Others
  <2> QED BY <2>4, <2>5, <2>6, <2>7, NoneStands, FrameEmployed DEF TypeInv, Employed
<1> QED BY <1>3, <1>4

LEMMA SaveChangeType ==
    ASSUME TypeInv, NEW r \in Slots, SaveChange(r)
    PROVE  TypeInv'
<1> DEFINE q == request[r]
<1>1. q \in Requests /\ q.phase = "change" /\ q.e \in HasLogin
  BY DEF SaveChange, In, TypeInv, TypeOK, Employed, Standing
<1>2. q.e \in Employees
  BY <1>1, RequestFields
<1>3. login[q.e] \in Logins /\ passwords + 1 \in Nat
  BY <1>1 DEF HasLogin, TypeInv, TypeOK
<1>4. [login[q.e] EXCEPT !.password = passwords + 1] \in Logins
  BY <1>3 DEF Logins
<1>5. login' = [login EXCEPT ![q.e] = [login[q.e] EXCEPT !.password = passwords + 1]]
  BY DEF SaveChange
<1>6. /\ login' \in [Employees -> Logins \cup {NoLogin}]
      /\ HasLogin' = HasLogin
  <2> DEFINE row == [login[q.e] EXCEPT !.password = passwords + 1]
  <2>1. row \in Logins /\ login' = [login EXCEPT ![q.e] = row]
    BY <1>4, <1>5
  <2> HIDE DEF row
  <2>2. /\ login' \in [Employees -> Logins \cup {NoLogin}]
        /\ HasLogin' = HasLogin \cup {q.e}
    BY <1>2, <2>1, LoginsGrow DEF TypeInv
  <2> QED BY <1>1, <2>2
<1>7. Others(r, None)
  <2>1. request' = [s \in Slots |-> IF s = r THEN None
                                    ELSE IF request[s] = None THEN None
                                    ELSE [request[s] EXCEPT !.alone = FALSE]]
    BY DEF SaveChange
  <2> QED BY <2>1, NoneStands, OthersWrote DEF TypeInv
<1>8. Hired' = Hired
  BY DEF SaveChange, Hired
<1>9. tokens' \in [Employees -> SUBSET Nat]
  BY <1>2, <1>3 DEF SaveChange, TypeInv, TypeOK
<1>10. TypeOK'
  BY <1>3, <1>6, <1>7, <1>9 DEF SaveChange, history, TypeInv, TypeOK, Others
<1> QED BY <1>6, <1>7, <1>8, <1>10, NoneStands, FrameEmployed DEF TypeInv, Employed

\* Requests that arrive.
LEMMA PostType ==
    ASSUME TypeInv, NEW r \in Slots, NEW e \in Employees,
           \/ \E form \in Forms : PostHire(r, e, form) \/ PostEdit(r, e, form)
           \/ \E active \in BOOLEAN : PostSwitch(r, e, active)
           \/ \E name \in Choices : PostRename(r, e, name)
           \/ PostCreate(r, e) \/ PostReset(r, e) \/ PostChange(r, e)
    PROVE  TypeInv'
<1>1. ASSUME e \in HasLogin PROVE login[e] \in Logins /\ e \in Hired
  BY <1>1 DEF HasLogin, TypeInv, TypeOK, Employed
<1>2. ASSUME NEW form \in Forms, PostHire(r, e, form) \/ PostEdit(r, e, form) PROVE TypeInv'
  <2> DEFINE q(phase) == [phase |-> phase, e |-> e, row |-> form, alone |-> TRUE]
  <2>1. q("hire") \in Requests /\ q("edit") \in Requests
    BY DEF Requests
  <2>2. CASE PostHire(r, e, form)
    BY <2>1, <2>2, FrameType DEF PostHire, Standing
  <2>3. CASE PostEdit(r, e, form)
    BY <2>1, <2>3, FrameType DEF PostEdit, Standing
  <2> QED BY <1>2, <2>2, <2>3
<1>3. ASSUME NEW active \in BOOLEAN, PostSwitch(r, e, active) PROVE TypeInv'
  <2> DEFINE q == [phase |-> "switch", e |-> e, active |-> active, alone |-> TRUE]
  <2>1. q \in Requests /\ Standing(q, Hired, HasLogin)
    BY <1>3 DEF Requests, Standing, PostSwitch
  <2> QED BY <1>3, <2>1, FrameType DEF PostSwitch
<1>4. ASSUME NEW name \in Choices, PostRename(r, e, name) PROVE TypeInv'
  <2> DEFINE q == [phase |-> "rename", e |-> e, row |-> login[e], name |-> name, alone |-> TRUE]
  <2>1. q \in Requests /\ Standing(q, Hired, HasLogin)
    BY <1>1, <1>4 DEF Requests, Standing, PostRename, SignedIn, Usable
  <2> QED BY <1>4, <2>1, FrameType DEF PostRename
<1>5. CASE PostCreate(r, e)
  <2> DEFINE q == [phase |-> "provision", e |-> e, alone |-> TRUE]
  <2>1. q \in Requests /\ Standing(q, Hired, HasLogin)
    BY <1>5 DEF Requests, Standing, PostCreate
  <2> QED BY <1>5, <2>1, FrameType DEF PostCreate
<1>6. CASE PostReset(r, e)
  <2> DEFINE q == [phase |-> "reset", e |-> e, row |-> login[e], alone |-> TRUE]
  <2>1. q \in Requests /\ Standing(q, Hired, HasLogin)
    BY <1>1, <1>6 DEF Requests, Standing, PostReset
  <2> QED BY <1>6, <2>1, FrameType DEF PostReset
<1>7. CASE PostChange(r, e)
  <2> DEFINE q == [phase |-> "change", e |-> e, alone |-> TRUE]
  <2>1. q \in Requests /\ Standing(q, Hired, HasLogin)
    BY <1>1, <1>7 DEF Requests, Standing, PostChange, SignedIn, Usable
  <2> QED BY <1>7, <2>1, FrameType DEF PostChange
<1> QED BY <1>2, <1>3, <1>4, <1>5, <1>6, <1>7

\* What seed_data finds and adds: numbers are seeded ones, the missing ones go
\* to keys nobody has, the others to the employees who have them.
LEMMA SeedFacts ==
    ASSUME TypeOK, NEW at \in Injection(Missing, Employees \ Hired), NEW e \in Employees
    PROVE  /\ NumberOf(e, at) \subseteq SeedNumbers /\ SeedNumbers \subseteq Numbers
           /\ e \in Added(at) => e \notin Hired /\ NumberOf(e, at) # {}
           /\ e \in Enrolled(at) => e \notin HasLogin /\ NumberOf(e, at) # {}
           /\ NumberOf(e, at) # {} => /\ TheNumber(e, at) \in NumberOf(e, at)
                                      /\ e \in Hired \cup Added(at)
<1>1. at \in [Missing -> Employees \ Hired]
  BY DEF Injection
<1>2. ASSUME e \in Added(at) PROVE e \notin Hired /\ NumberOf(e, at) # {}
  <2>1. PICK n \in Missing : at[n] = e
    BY <1>2 DEF Added
  <2>2. n \in NumberOf(e, at)
    BY <2>1 DEF NumberOf, Missing
  <2> QED BY <1>1, <2>1, <2>2
<1>3. ASSUME NEW n \in NumberOf(e, at) PROVE e \in Hired \cup Added(at)
  <2>1. CASE n \in Missing
    BY <2>1 DEF NumberOf, Added
  <2>2. CASE n \notin Missing
    <3>1. \E o \in Hired : employee[o].no = n
      BY <2>2 DEF NumberOf, Missing
    <3>2. Of(n) \in Hired
      BY <3>1 DEF Of
    <3> QED BY <2>2, <3>2 DEF NumberOf
  <2> QED BY <2>1, <2>2
<1>4. NumberOf(e, at) # {} => TheNumber(e, at) \in NumberOf(e, at)
  BY DEF TheNumber
<1>5. NumberOf(e, at) \subseteq SeedNumbers /\ SeedNumbers \subseteq Numbers
  BY AccountsAssumption DEF NumberOf
<1> QED BY <1>2, <1>3, <1>4, <1>5 DEF Enrolled

\* What BootSeeds leaves of each employee and each login.
LEMMA BootRows ==
    ASSUME TypeInv, NEW at \in Injection(Missing, Employees \ Hired), BootSeeds(at)
    PROVE  /\ employee' \in [Employees -> EmployeeRows \cup {NotHired}]
           /\ login' \in [Employees -> Logins \cup {NoLogin}]
           /\ Hired' = Hired \cup Added(at)
           /\ HasLogin' = HasLogin \cup Enrolled(at)
           /\ \A e \in Employees : e \notin Added(at) => employee'[e] = employee[e]
           /\ \A e \in Employees : e \notin Enrolled(at) => login'[e] = login[e]
           /\ \A e \in Added(at) : employee'[e] = [no |-> TheNumber(e, at), active |-> TRUE,
                                                   bio |-> SeedBio[TheNumber(e, at)]]
           /\ \A e \in Enrolled(at) : login'[e] = [name |-> <<TheNumber(e, at), 1>>,
                                                   password |-> passwords + 1, active |-> TRUE]
<1> DEFINE emp(e) == [no |-> TheNumber(e, at), bio |-> SeedBio[TheNumber(e, at)], active |-> TRUE]
           log(e) == [name |-> <<TheNumber(e, at), 1>>, password |-> passwords + 1,
                      active |-> TRUE]
<1>1. Added(at) \subseteq Employees \ Hired /\ Enrolled(at) \subseteq Employees \ HasLogin
  BY DEF Added, Enrolled, Injection
<1>2. \A e \in Added(at) : emp(e) \in EmployeeRows
  <2> TAKE e \in Added(at)
  <2>1. TheNumber(e, at) \in SeedNumbers /\ TheNumber(e, at) \in Numbers
    BY <1>1, SeedFacts DEF TypeInv
  <2>2. SeedBio[TheNumber(e, at)] \in Bios
    BY <2>1, AccountsAssumption
  <2> QED BY <2>1, <2>2 DEF EmployeeRows
<1>3. \A e \in Enrolled(at) : log(e) \in Logins
  <2> TAKE e \in Enrolled(at)
  <2>1. TheNumber(e, at) \in Numbers
    BY <1>1, SeedFacts DEF TypeInv
  <2>2. <<TheNumber(e, at), 1>> \in Names
    BY <2>1, NamesType DEF Suffixes
  <2> QED BY <2>2 DEF Logins, TypeInv, TypeOK
<1>4. \A e \in Employees :
        /\ employee'[e] = IF e \in Added(at) THEN emp(e) ELSE employee[e]
        /\ login'[e] = IF e \in Enrolled(at) THEN log(e) ELSE login[e]
  BY DEF BootSeeds
<1>5. DOMAIN employee' = Employees /\ DOMAIN login' = Employees
  BY DEF BootSeeds
<1>6. employee' = [e \in Employees |-> employee'[e]] /\ login' = [e \in Employees |-> login'[e]]
  BY DEF BootSeeds
<1> HIDE DEF emp, log
<1>7. /\ employee' \in [Employees -> EmployeeRows \cup {NotHired}]
      /\ login' \in [Employees -> Logins \cup {NoLogin}]
  BY <1>2, <1>3, <1>4, <1>6 DEF TypeInv, TypeOK
<1>8. Hired' = Hired \cup Added(at) /\ HasLogin' = HasLogin \cup Enrolled(at)
  BY <1>1, <1>2, <1>3, <1>4, NotRows DEF Hired, HasLogin
<1> QED BY <1>1, <1>4, <1>7, <1>8 DEF emp, log

LEMMA BootFields ==
    ASSUME TypeInv, NEW at \in Injection(Missing, Employees \ Hired), BootSeeds(at)
    PROVE  /\ \A e \in Added(at) : /\ employee'[e].no = TheNumber(e, at)
                                   /\ employee'[e].active = TRUE
           /\ \A e \in Enrolled(at) : /\ login'[e].name = <<TheNumber(e, at), 1>>
                                      /\ login'[e].password = passwords + 1
                                      /\ login'[e].active = TRUE
<1>1. ASSUME NEW e \in Added(at)
      PROVE  employee'[e].no = TheNumber(e, at) /\ employee'[e].active = TRUE
  <2> DEFINE n == TheNumber(e, at)
             bio == SeedBio[n]
  <2>1. employee'[e] = [no |-> n, active |-> TRUE, bio |-> bio]
    BY BootRows
  <2> HIDE DEF n, bio
  <2>2. employee'[e].no = n /\ employee'[e].active = TRUE
    BY <2>1
  <2> QED BY <2>2 DEF n
<1>2. ASSUME NEW e \in Enrolled(at)
      PROVE  /\ login'[e].name = <<TheNumber(e, at), 1>>
             /\ login'[e].password = passwords + 1 /\ login'[e].active = TRUE
  <2> DEFINE name == <<TheNumber(e, at), 1>>
  <2>1. login'[e] = [name |-> name, password |-> passwords + 1, active |-> TRUE]
    BY BootRows
  <2> HIDE DEF name
  <2>2. login'[e].name = name /\ login'[e].password = passwords + 1 /\ login'[e].active = TRUE
    BY <2>1
  <2> QED BY <2>2 DEF name
<1> QED BY <1>1, <1>2

LEMMA RestartType ==
    ASSUME TypeInv, Restart
    PROVE  TypeInv'
<1>1. request' \in [Slots -> Requests] /\ \A r \in Slots : request'[r] = None
  BY NoneStands DEF Restart, BootFails, BootSeeds, Boot
<1>2. restarts' \in 0..Restarts
  BY AccountsAssumption DEF Restart, BootFails, BootSeeds, Boot, TypeInv, TypeOK
<1>3. \A r \in Slots : request[r].phase # "none" => request[r].e \in Employees
  BY RequestFields DEF TypeInv, TypeOK
<1>4. Cut({"login"}) \subseteq Employees /\ Provisioned \subseteq Employees
  BY <1>3 DEF Cut, Provisioned
<1>5. CASE BootFails
  <2>1. Hired' = Hired /\ HasLogin' = HasLogin
    BY <1>5 DEF BootFails, Hired, HasLogin
  <2>2. TypeOK'
    BY <1>1, <1>2, <1>4, <1>5 DEF BootFails, Boot, TypeInv, TypeOK
  <2> QED BY <1>1, <2>1, <2>2, NoneStands DEF TypeInv, Employed
<1>6. ASSUME NEW at \in Injection(Missing, Employees \ Hired), BootSeeds(at) PROVE TypeInv'
  <2>1. /\ employee' \in [Employees -> EmployeeRows \cup {NotHired}]
        /\ login' \in [Employees -> Logins \cup {NoLogin}]
        /\ Hired' = Hired \cup Added(at) /\ HasLogin' = HasLogin \cup Enrolled(at)
    BY <1>6, BootRows
  <2>2. Added(at) \subseteq Employees /\ Enrolled(at) \subseteq Hired \cup Added(at)
    <3>1. Enrolled(at) \subseteq Employees /\ Added(at) \subseteq Employees
      BY DEF Enrolled, Added, Injection
    <3> QED BY <3>1, SeedFacts DEF TypeInv
  <2>3. had' \in [Employees -> SUBSET Numbers]
    <3>1. \A e \in Employees : NumberOf(e, at) \subseteq Numbers
      BY SeedFacts DEF TypeInv
    <3> QED BY <1>6, <3>1 DEF BootSeeds, TypeInv, TypeOK
  <2>4. apart' \subseteq Employees /\ unlucky' \subseteq Employees
    <3>1. Enrolled(at) \subseteq Employees
      BY DEF Enrolled
    <3> QED BY <1>4, <1>6, <2>2, <3>1 DEF BootSeeds, TypeInv, TypeOK
  <2>5. passwords' \in Nat /\ tokens' = tokens /\ up' = up /\ posts' = posts
    BY <1>6 DEF BootSeeds, Boot, TypeInv, TypeOK
  <2>6. TypeOK'
    BY <1>1, <1>2, <2>1, <2>3, <2>4, <2>5 DEF TypeInv, TypeOK
  <2> QED BY <1>1, <2>1, <2>2, <2>6, NoneStands DEF TypeInv, Employed
<1> QED BY <1>5, <1>6 DEF Restart

LEMMA InitType == Init => TypeInv
<1> SUFFICES ASSUME Init PROVE TypeInv
  OBVIOUS
<1>1. PICK at \in Injection(SeedNumbers, Employees) :
        /\ employee = [e \in Employees |->
                 IF \E n \in SeedNumbers : at[n] = e
                 THEN LET n == CHOOSE m \in SeedNumbers : at[m] = e
                      IN  [no |-> n, bio |-> SeedBio[n], active |-> TRUE]
                 ELSE NotHired]
        /\ login = [e \in Employees |->
                 IF employee[e] = NotHired THEN NoLogin
                 ELSE [name |-> <<employee[e].no, 1>>, password |-> 1, active |-> TRUE]]
  BY DEF Init
<1>2. \A e \in Employees : employee[e] \in EmployeeRows \cup {NotHired}
  <2> TAKE e \in Employees
  <2> DEFINE n == CHOOSE m \in SeedNumbers : at[m] = e
  <2>1. CASE \E m \in SeedNumbers : at[m] = e
    <3>1. n \in SeedNumbers
      BY <2>1
    <3>2. n \in Numbers /\ SeedBio[n] \in Bios
      BY <3>1, AccountsAssumption
    <3>3. employee[e] = [no |-> n, bio |-> SeedBio[n], active |-> TRUE]
      BY <1>1, <2>1
    <3> HIDE DEF n
    <3> QED BY <3>2, <3>3 DEF EmployeeRows
  <2>2. CASE ~\E m \in SeedNumbers : at[m] = e
    BY <1>1, <2>2
  <2> QED BY <2>1, <2>2
<1>3. \A e \in Employees : employee[e] # NotHired => employee[e].no \in Numbers
  BY <1>2 DEF EmployeeRows
<1>4. \A e \in Employees : login[e] = IF employee[e] = NotHired THEN NoLogin
        ELSE [name |-> <<employee[e].no, 1>>, password |-> 1, active |-> TRUE]
  BY <1>1
<1>5. \A e \in Employees : login[e] \in Logins \cup {NoLogin}
  <2> TAKE e \in Employees
  <2>1. CASE employee[e] = NotHired
    BY <1>4, <2>1
  <2>2. CASE employee[e] # NotHired
    <3> DEFINE name == <<employee[e].no, 1>>
    <3>1. 1 \in Suffixes /\ employee[e].no \in Numbers
      BY <1>3, <2>2 DEF Suffixes
    <3>2. name \in Names
      BY <3>1, NamesType
    <3>3. login[e] = [name |-> name, password |-> 1, active |-> TRUE]
      BY <1>4, <2>2
    <3> HIDE DEF name
    <3> QED BY <3>2, <3>3 DEF Logins
  <2> QED BY <2>1, <2>2
<1>6. employee \in [Employees -> EmployeeRows \cup {NotHired}]
  BY <1>1, <1>2
<1>7. login \in [Employees -> Logins \cup {NoLogin}]
  BY <1>1, <1>5
<1>8. request \in [Slots -> Requests] /\ \A r \in Slots : request[r] = None
  BY NoneStands DEF Init
<1>9. had \in [Employees -> SUBSET Numbers]
  <2>1. had = [e \in Employees |-> IF employee[e] = NotHired THEN {} ELSE {employee[e].no}]
    BY DEF Init
  <2>2. \A e \in Employees : (IF employee[e] = NotHired THEN {} ELSE {employee[e].no})
                              \in SUBSET Numbers
    BY <1>3
  <2> QED BY <2>1, <2>2
<1>10. tokens \in [Employees -> SUBSET Nat] /\ passwords \in Nat /\ up \in BOOLEAN
  <2>1. tokens = [e \in Employees |-> {}] /\ passwords = 1 /\ up = TRUE
    BY DEF Init
  <2> QED BY <2>1
<1>11. posts \in 0..Posts /\ restarts \in 0..Restarts /\ apart = {} /\ unlucky = {}
  <2>1. posts = 0 /\ restarts = 0 /\ apart = {} /\ unlucky = {}
    BY DEF Init
  <2> QED BY <2>1, AccountsAssumption
<1>12. TypeOK
  BY <1>6, <1>7, <1>8, <1>9, <1>10, <1>11 DEF TypeOK
<1>13. HasLogin \subseteq Hired
  BY <1>4 DEF HasLogin, Hired
<1> QED BY <1>8, <1>12, <1>13, NoneStands DEF TypeInv, Employed

LEMMA NextType == TypeInv /\ [Next]_vars => TypeInv'
<1> SUFFICES ASSUME TypeInv, [Next]_vars PROVE TypeInv'
  OBVIOUS
<1>1. CASE UNCHANGED vars
  BY <1>1 DEF vars, TypeInv, TypeOK, Employed, Hired, HasLogin
<1>2. ASSUME NEW e \in Employees, SignIn(e) PROVE TypeInv'
  <2>1. login[e] \in Logins
    BY <1>2 DEF SignIn, Usable, HasLogin, TypeInv, TypeOK
  <2>2. tokens' \in [Employees -> SUBSET Nat]
    BY <1>2, <2>1 DEF SignIn, Logins, TypeInv, TypeOK
  <2>3. UNCHANGED <<employee, login, passwords, request, up, posts, restarts, apart, unlucky, had>>
    BY <1>2 DEF SignIn, history
  <2>4. Hired' = Hired /\ HasLogin' = HasLogin
    BY <2>3 DEF Hired, HasLogin
  <2>5. TypeOK'
    BY <2>2, <2>3 DEF TypeInv, TypeOK
  <2> QED BY <2>3, <2>4, <2>5 DEF TypeInv, Employed
<1>3. ASSUME NEW r \in Slots,
             \/ SaveEmployee(r) \/ Provision(r) \/ TryName(r) \/ CreateLogin(r)
             \/ SavePassword(r) \/ SwitchEmployee(r) \/ SwitchLogin(r) \/ SaveName(r)
             \/ SaveChange(r)
      PROVE  TypeInv'
  BY <1>3, SaveEmployeeType, ProvisionType, CreateLoginType, SavePasswordType,
     SwitchType, SaveNameType, SaveChangeType
<1> QED
  BY <1>1, <1>2, <1>3, RestartType, PostType DEF Next

\* Every reachable state is well typed, whatever requests interleave and
\* wherever a restart cuts them.
THEOREM TypeCorrect == Spec => []TypeOK
<1>1. TypeInv => TypeOK
  BY DEF TypeInv
<1> QED BY <1>1, InitType, NextType, PTL DEF Spec

----------------------------------------------------------------------------
(* Starting the app.                                                       *)

\* What is left of the app when its entrypoint failed.
StoppedInv == ~up => Missing # {} /\ \A r \in Slots : request[r] = None

LEMMA NextStopped == StoppedInv /\ [Next]_vars => StoppedInv'
<1> SUFFICES ASSUME StoppedInv, [Next]_vars PROVE StoppedInv'
  OBVIOUS
<1> USE DEF Arrive, Goto, Wrote, Boot
<1>1. CASE UNCHANGED vars
  BY <1>1 DEF vars, StoppedInv, Missing, Hired
<1>2. CASE BootFails
  <2>1. Missing # {} /\ employee' = employee
    BY <1>2 DEF BootFails, SeedFails
  <2>2. Missing' = Missing /\ \A r \in Slots : request'[r] = None
    BY <1>2, <2>1 DEF BootFails, Missing, Hired
  <2> QED BY <2>1, <2>2 DEF StoppedInv
<1>3. ASSUME NEW at, BootSeeds(at) PROVE StoppedInv'
  BY <1>3 DEF BootSeeds, StoppedInv
<1>4. ASSUME NEW e, SignIn(e) PROVE StoppedInv'
  BY <1>4 DEF SignIn, StoppedInv
<1>5. ASSUME NEW r \in Slots,
             \/ SaveEmployee(r) \/ Provision(r) \/ TryName(r) \/ CreateLogin(r)
             \/ SavePassword(r) \/ SwitchEmployee(r) \/ SwitchLogin(r) \/ SaveName(r)
             \/ SaveChange(r)
      PROVE  StoppedInv'
  <2>1. request[r] # None
    BY <1>5 DEF In, None, SaveEmployee, Provision, TryName, CreateLogin, SavePassword,
                SwitchEmployee, SwitchLogin, SaveName, SaveChange
  <2>2. up /\ up' = up
    BY <1>5, <2>1 DEF StoppedInv, SaveEmployee, Provision, TryName, CreateLogin, SavePassword,
                      SwitchEmployee, SwitchLogin, SaveName, SaveChange
  <2> QED BY <2>2 DEF StoppedInv
<1>6. ASSUME NEW r \in Slots, NEW e \in Employees,
             \/ \E form \in Forms : PostHire(r, e, form) \/ PostEdit(r, e, form)
             \/ \E active \in BOOLEAN : PostSwitch(r, e, active)
             \/ \E name \in Choices : PostRename(r, e, name)
             \/ PostCreate(r, e) \/ PostReset(r, e) \/ PostChange(r, e)
      PROVE  StoppedInv'
  BY <1>6 DEF StoppedInv, PostHire, PostEdit, PostSwitch, PostRename, PostCreate, PostReset,
              PostChange
<1> QED BY <1>1, <1>2, <1>3, <1>4, <1>5, <1>6 DEF Next, Restart

\* No change of usernames, by whatever route, keeps the app from starting.
THEOREM RenamesNeverStop == Spec => []RenamesNeverStopTheApp
<1>1. Init => StoppedInv
  BY DEF Init, StoppedInv
<1>2. StoppedInv => RenamesNeverStopTheApp
  BY DEF StoppedInv, RenamesNeverStopTheApp
<1> QED BY <1>1, <1>2, NextStopped, PTL DEF Spec

----------------------------------------------------------------------------
(* Tokens.  Each new password takes the next serial number, so a token for *)
(* an earlier one can only work again if a login gets its old number back. *)

Issued ==
    /\ \A e \in Employees : \A t \in tokens[e] : t <= passwords
    /\ \A e \in HasLogin : login[e].password <= passwords

\* What a step may do to passwords and tokens.
PasswordStep ==
    /\ passwords' \in {passwords, passwords + 1}
    /\ \A e \in HasLogin : \/ login'[e].password = login[e].password
                           \/ login'[e].password = passwords' /\ passwords' = passwords + 1
    /\ \A e \in HasLogin' \ HasLogin : login'[e].password \in {0, passwords'}
    /\ \A e \in Employees : \A t \in tokens'[e] \ tokens[e] :
          t = passwords' \/ (e \in HasLogin /\ t = login[e].password)

LEMMA SamePasswords ==
    ASSUME UNCHANGED <<login, passwords, tokens>>
    PROVE  PasswordStep
BY DEF PasswordStep, HasLogin

LEMMA NextPassword == TypeInv /\ [Next]_vars => PasswordStep
<1> SUFFICES ASSUME TypeInv, [Next]_vars PROVE PasswordStep
  OBVIOUS
<1>1. CASE UNCHANGED vars
  BY <1>1, SamePasswords DEF vars
<1>2. CASE BootFails
  BY <1>2, SamePasswords DEF BootFails, Boot
<1>3. ASSUME NEW at \in Injection(Missing, Employees \ Hired), BootSeeds(at) PROVE PasswordStep
  <2>1. tokens' = tokens
    BY <1>3 DEF BootSeeds, Boot
  <2>6. passwords' = IF Enrolled(at) = {} THEN passwords ELSE passwords + 1
    BY <1>3 DEF BootSeeds
  <2>2. \A e \in HasLogin : e \in Employees /\ e \notin Enrolled(at)
    BY DEF HasLogin, Enrolled
  <2>3. \A e \in Enrolled(at) : login'[e].password = passwords + 1
    BY <1>3, BootFields
  <2>4. \A e \in HasLogin : login'[e] = login[e]
    BY <1>3, <2>2, BootRows
  <2>5. HasLogin' = HasLogin \cup Enrolled(at)
    BY <1>3, BootRows
  <2> QED BY <2>1, <2>3, <2>4, <2>5, <2>6 DEF PasswordStep
<1>4. ASSUME NEW e \in Employees, SignIn(e) PROVE PasswordStep
  BY <1>4 DEF SignIn, Usable, PasswordStep, TypeInv, TypeOK, HasLogin
<1>5. ASSUME NEW r \in Slots,
             SaveEmployee(r) \/ Provision(r) \/ TryName(r) \/ SwitchEmployee(r)
      PROVE  PasswordStep
  BY <1>5, SamePasswords DEF SaveEmployee, Provision, TryName, SwitchEmployee, Goto, Wrote, tables
<1>6. ASSUME NEW r \in Slots, CreateLogin(r) PROVE PasswordStep
  <2> DEFINE q == request[r]
             row == [name |-> q.name, password |-> 0, active |-> TRUE]
  <2>1. CASE UNCHANGED tables
    BY <2>1, SamePasswords DEF tables
  <2>2. CASE ~UNCHANGED tables
    <3>1. /\ q.e \notin HasLogin /\ login' = [login EXCEPT ![q.e] = row]
          /\ passwords' = passwords /\ tokens' = tokens
      BY <1>6, <2>2 DEF CreateLogin, Wrote
    <3>2. row.password = 0
      OBVIOUS
    <3> HIDE DEF row
    <3> QED BY <3>1, <3>2 DEF PasswordStep, HasLogin, TypeInv, TypeOK
  <2> QED BY <2>1, <2>2
<1>7. ASSUME NEW r \in Slots, SavePassword(r) PROVE PasswordStep
  <2> DEFINE q == request[r]
             row == [q.row EXCEPT !.password = passwords + 1]
  <2>1. CASE TakenBut(q.e, q.row.name)
    BY <1>7, <2>1, SamePasswords DEF SavePassword, Goto, tables
  <2>2. CASE ~TakenBut(q.e, q.row.name)
    <3>1. /\ login' = [login EXCEPT ![q.e] = row] /\ passwords' = passwords + 1
          /\ tokens' = tokens
      BY <1>7, <2>2 DEF SavePassword, Wrote
    <3>2. q \in Requests /\ q.phase \in {"password", "reset"}
      BY <1>7 DEF SavePassword, In, TypeInv, TypeOK
    <3>3. row.password = passwords + 1
      BY <3>2, RequestFields DEF Logins
    <3> HIDE DEF row
    <3> QED BY <3>1, <3>3 DEF PasswordStep, HasLogin, TypeInv, TypeOK
  <2> QED BY <2>1, <2>2
<1>8. ASSUME NEW r \in Slots, SwitchLogin(r) PROVE PasswordStep
  <2>1. passwords' = passwords /\ tokens' = tokens
    BY <1>8 DEF SwitchLogin, Wrote
  <2>2. \A e \in HasLogin : login[e] \in Logins
    BY DEF HasLogin, TypeInv, TypeOK
  <2>3. \A e \in HasLogin : login'[e].password = login[e].password
    BY <1>8, <2>2 DEF SwitchLogin, HasLogin, Logins, TypeInv, TypeOK
  <2>4. HasLogin' \subseteq HasLogin
    BY <1>8 DEF SwitchLogin, HasLogin, TypeInv, TypeOK
  <2> QED BY <2>1, <2>3, <2>4 DEF PasswordStep
<1>9. ASSUME NEW r \in Slots, SaveName(r) PROVE PasswordStep
  <2> DEFINE q == request[r]
  <2>1. q.e \in HasLogin
    BY <1>9 DEF SaveName, In, TypeInv, Employed, Standing
  <2>2. CASE TakenBut(q.e, q.name)
    BY <1>9, <2>2, SamePasswords DEF SaveName, Goto, tables
  <2>3. CASE ~TakenBut(q.e, q.name)
    <3>1. /\ login' = [login EXCEPT ![q.e] = [login[q.e] EXCEPT !.name = q.name]]
          /\ passwords' = passwords /\ tokens' = tokens
      BY <1>9, <2>3 DEF SaveName, Wrote
    <3>2. \A e \in HasLogin : login[e] \in Logins
      BY DEF HasLogin, TypeInv, TypeOK
    <3>3. \A e \in HasLogin : login'[e].password = login[e].password
      BY <3>1, <3>2 DEF HasLogin, Logins, TypeInv, TypeOK
    <3>4. HasLogin' \subseteq HasLogin
      BY <2>1, <3>1 DEF HasLogin, TypeInv, TypeOK
    <3> QED BY <3>1, <3>3, <3>4 DEF PasswordStep
  <2> QED BY <2>2, <2>3
<1>10. ASSUME NEW r \in Slots, SaveChange(r) PROVE PasswordStep
  <2> DEFINE q == request[r]
  <2>1. q \in Requests /\ q.phase = "change" /\ q.e \in HasLogin
    BY <1>10 DEF SaveChange, In, TypeInv, TypeOK, Employed, Standing
  <2>2. /\ login' = [login EXCEPT ![q.e] = [login[q.e] EXCEPT !.password = passwords + 1]]
        /\ tokens' = [tokens EXCEPT ![q.e] = tokens[q.e] \cup {passwords + 1}]
        /\ passwords' = passwords + 1
    BY <1>10 DEF SaveChange
  <2>3. login[q.e] \in Logins
    BY <2>1 DEF HasLogin, TypeInv, TypeOK
  <2>4. \A e \in HasLogin : \/ login'[e].password = login[e].password
                            \/ login'[e].password = passwords + 1
    BY <2>2, <2>3 DEF HasLogin, Logins, TypeInv, TypeOK
  <2>5. HasLogin' \subseteq HasLogin
    BY <2>1, <2>2 DEF HasLogin, TypeInv, TypeOK
  <2>6. \A e \in Employees : \A t \in tokens'[e] \ tokens[e] : t = passwords'
    BY <2>2 DEF TypeInv, TypeOK
  <2> QED BY <2>2, <2>4, <2>5, <2>6 DEF PasswordStep
<1>11. ASSUME NEW r \in Slots, NEW e \in Employees,
             \/ \E form \in Forms : PostHire(r, e, form) \/ PostEdit(r, e, form)
             \/ \E active \in BOOLEAN : PostSwitch(r, e, active)
             \/ \E name \in Choices : PostRename(r, e, name)
             \/ PostCreate(r, e) \/ PostReset(r, e) \/ PostChange(r, e)
      PROVE  PasswordStep
  BY <1>11, SamePasswords
  DEF Arrive, tables, PostHire, PostEdit, PostSwitch, PostRename, PostCreate, PostReset,
      PostChange
<1> QED
  BY <1>1, <1>2, <1>3, <1>4, <1>5, <1>6, <1>7, <1>8, <1>9, <1>10, <1>11 DEF Next, Restart

LEMMA NextIssued == TypeInv /\ Issued /\ PasswordStep /\ TypeInv' => Issued'
<1> SUFFICES ASSUME TypeInv, Issued, PasswordStep, TypeInv' PROVE Issued'
  OBVIOUS
<1>1. passwords \in Nat /\ passwords' \in Nat /\ passwords <= passwords'
  BY DEF PasswordStep, TypeInv, TypeOK
<1>2. ASSUME NEW e \in HasLogin PROVE login[e].password \in Nat /\ login[e].password <= passwords
  BY <1>2 DEF Issued, HasLogin, Logins, TypeInv, TypeOK
<1>3. ASSUME NEW e \in Employees, NEW t \in tokens'[e] PROVE t <= passwords'
  <2>1. CASE t \in tokens[e]
    <3>1. t \in Nat /\ t <= passwords
      BY <2>1 DEF Issued, TypeInv, TypeOK
    <3> QED BY <1>1, <3>1
  <2>2. CASE t \notin tokens[e]
    BY <1>1, <1>2, <2>2 DEF PasswordStep
  <2> QED BY <2>1, <2>2
<1>4. ASSUME NEW e \in HasLogin' PROVE login'[e].password <= passwords'
  BY <1>1, <1>2 DEF PasswordStep
<1> QED BY <1>3, <1>4 DEF Issued

\* No step, not even the save of a row loaded long before, makes a token that a
\* new password revoked work again.
THEOREM RevokedNeverReturn == Spec => RevokedTokensStayRevoked
<1>1. Init => Issued
  <2> SUFFICES ASSUME Init PROVE Issued
    OBVIOUS
  <2>1. /\ \A e \in Employees : tokens[e] = {}
        /\ passwords = 1
        /\ \A e \in HasLogin : login[e].password = 1
    BY DEF Init, HasLogin
  <2> QED BY <2>1 DEF Issued
<1>2. ASSUME TypeInv, Issued, PasswordStep, NEW e \in HasLogin, NEW t \in tokens[e],
             t # login[e].password
      PROVE  t # login'[e].password
  <2>1. t \in Nat /\ t <= passwords /\ passwords \in Nat
    BY <1>2 DEF Issued, HasLogin, TypeInv, TypeOK
  <2> QED BY <1>2, <2>1 DEF PasswordStep
<1>3. TypeInv /\ Issued /\ [Next]_vars =>
        [\A e \in HasLogin : \A t \in tokens[e] :
            t # login[e].password => t # login'[e].password]_vars
  BY <1>2, NextPassword
<1>4. TypeInv /\ Issued /\ [Next]_vars => Issued'
  BY NextType, NextPassword, NextIssued
<1> QED BY <1>1, <1>3, <1>4, InitType, NextType, PTL DEF Spec, RevokedTokensStayRevoked

----------------------------------------------------------------------------
(* Numbers as usernames.                                                   *)

Owns(numbers, name) == \A n \in NumberStyle : name = <<n, 1>> => n \in numbers

\* The name a request is to save, or the name in the row it is to save.
Claims(q, numbers) ==
    /\ q.phase \in {"naming", "creating", "rename"} => Owns(numbers[q.e], q.name)
    /\ q.phase \in {"password", "reset"} => Owns(numbers[q.e], q.row.name)

NumberInv ==
    /\ \A e \in Hired : employee[e].no \in had[e]
    /\ \A e \in HasLogin : Owns(had[e], login[e].name)
    /\ \A r \in Slots : Claims(request[r], had)

LEMMA NoneClaims == \A numbers : Claims(None, numbers)
BY DEF None, Claims

\* A step of request r that takes nobody's numbers away.
LEMMA FrameClaims ==
    ASSUME TypeInv, NumberInv, NEW r \in Slots, NEW q, Others(r, q), Claims(q, had'),
           \A e \in Employees : had[e] \subseteq had'[e]
    PROVE  \A s \in Slots : Claims(request'[s], had')
<1> TAKE s \in Slots
<1>1. CASE s = r
  BY <1>1 DEF Others
<1>2. CASE s # r
  <2>1. Like(request'[s], request[s]) /\ Claims(request[s], had) /\ request[s] \in Requests
    BY <1>2 DEF Others, NumberInv, TypeInv, TypeOK
  <2>2. request[s].phase # "none" => request[s].e \in Employees
    BY <2>1, RequestFields
  <2> QED BY <2>1, <2>2 DEF Like, Claims, Owns
<1> QED BY <1>1, <1>2

LEMMA FrameNumbers ==
    ASSUME TypeInv, NumberInv, NEW r \in Slots, NEW q \in Requests, Claims(q, had),
           Arrive(r, q) \/ Goto(r, q)
    PROVE  NumberInv'
<1>1. Others(r, q)
  BY OthersStay DEF TypeInv
<1>2. UNCHANGED <<employee, login, had>>
  BY DEF Arrive, Goto, tables, history
<1>3. Hired' = Hired /\ HasLogin' = HasLogin
  BY <1>2 DEF Hired, HasLogin
<1>4. \A s \in Slots : Claims(request'[s], had')
  BY <1>1, <1>2, FrameClaims
<1> QED BY <1>2, <1>3, <1>4 DEF NumberInv

\* A login's name after the step is one it had, or one its employee owns.
LEMMA FrameLogins ==
    ASSUME TypeInv, NumberInv, NEW r \in Slots, NEW q, Others(r, q), Claims(q, had'),
           UNCHANGED <<employee, had>>,
           \A e \in HasLogin' : \/ e \in HasLogin /\ login'[e].name = login[e].name
                                \/ Owns(had[e], login'[e].name)
    PROVE  NumberInv'
<1>1. \A s \in Slots : Claims(request'[s], had')
  BY FrameClaims
<1>2. Hired' = Hired
  BY DEF Hired
<1> QED BY <1>1, <1>2 DEF NumberInv

LEMMA NextNumbers == TypeInv /\ NumberInv /\ [Next]_vars => NumberInv'
<1> SUFFICES ASSUME TypeInv, NumberInv, [Next]_vars PROVE NumberInv'
  OBVIOUS
<1>1. CASE UNCHANGED vars
  BY <1>1 DEF vars, NumberInv, Hired, HasLogin
<1>2. CASE BootFails
  <2>1. UNCHANGED <<employee, login, had>> /\ \A r \in Slots : request'[r] = None
    BY <1>2 DEF BootFails, Boot
  <2> QED BY <2>1, NoneClaims DEF NumberInv, Hired, HasLogin
<1>3. ASSUME NEW at \in Injection(Missing, Employees \ Hired), BootSeeds(at) PROVE NumberInv'
  <2>1. \A r \in Slots : request'[r] = None
    BY <1>3 DEF BootSeeds, Boot
  <2>2. \A e \in Employees : had'[e] = had[e] \cup NumberOf(e, at)
    BY <1>3 DEF BootSeeds
  <2>3. ASSUME NEW e \in Hired' PROVE employee'[e].no \in had'[e]
    <3>1. CASE e \in Added(at)
      <4>1. e \in Employees /\ TheNumber(e, at) \in NumberOf(e, at)
        BY <3>1, SeedFacts DEF TypeInv, Added, Injection
      <4>2. employee'[e].no = TheNumber(e, at)
        BY <1>3, <3>1, BootFields
      <4> QED BY <2>2, <4>1, <4>2
    <3>2. CASE e \notin Added(at)
      <4>1. e \in Hired /\ e \in Employees /\ employee'[e] = employee[e]
        BY <1>3, <2>3, <3>2, BootRows DEF Hired
      <4> QED BY <2>2, <4>1 DEF NumberInv
    <3> QED BY <3>1, <3>2
  <2>4. ASSUME NEW e \in HasLogin' PROVE Owns(had'[e], login'[e].name)
    <3>1. CASE e \in Enrolled(at)
      <4>1. e \in Employees /\ TheNumber(e, at) \in NumberOf(e, at)
        BY <3>1, SeedFacts DEF TypeInv, Enrolled
      <4>2. login'[e].name = <<TheNumber(e, at), 1>>
        BY <1>3, <3>1, BootFields
      <4> QED BY <2>2, <4>1, <4>2 DEF Owns
    <3>2. CASE e \notin Enrolled(at)
      <4>1. e \in HasLogin /\ e \in Employees /\ login'[e] = login[e]
        BY <1>3, <2>4, <3>2, BootRows DEF HasLogin
      <4> QED BY <2>2, <4>1 DEF NumberInv, Owns
    <3> QED BY <3>1, <3>2
  <2> QED BY <2>1, <2>3, <2>4, NoneClaims DEF NumberInv
<1>4. ASSUME NEW e \in Employees, SignIn(e) PROVE NumberInv'
  BY <1>4 DEF SignIn, history, NumberInv, Hired, HasLogin
<1>5. ASSUME NEW r \in Slots, SaveEmployee(r) PROVE NumberInv'
  <2> DEFINE q == request[r]
             p == [phase |-> "provision", e |-> q.e, alone |-> q.alone]
             next == IF q.phase = "hire" THEN p ELSE None
  <2>1. q \in Requests /\ q.phase \in {"hire", "edit"}
    BY <1>5 DEF SaveEmployee, In, TypeInv, TypeOK
  <2>2. q.e \in Employees /\ q.row \in EmployeeRows /\ q.alone \in BOOLEAN
    BY <2>1, RequestFields, AccountsAssumption
  <2>3. next \in Requests /\ \A numbers : Claims(next, numbers)
    BY <2>2, NoneStands, NoneClaims DEF Requests, Claims
  <2>4. CASE Unique(q.e, q.row)
    <3>1. /\ employee' = [employee EXCEPT ![q.e] = q.row] /\ login' = login
          /\ had' = [had EXCEPT ![q.e] = had[q.e] \cup {q.row.no}]
      BY <1>5, <2>4 DEF SaveEmployee
    <3>2. Others(r, next)
      BY <1>5, <2>3, <2>4, OthersWrote DEF SaveEmployee, Wrote, TypeInv
    <3>3. \A e \in Employees : had[e] \subseteq had'[e]
      BY <3>1 DEF TypeInv, TypeOK
    <3> HIDE DEF next
    <3>4. \A s \in Slots : Claims(request'[s], had')
      BY <2>3, <3>2, <3>3, FrameClaims
    <3>5. ASSUME NEW e \in Hired' PROVE employee'[e].no \in had'[e]
      BY <2>2, <3>1 DEF Hired, NumberInv, TypeInv, TypeOK
    <3>6. HasLogin' = HasLogin
      BY <3>1 DEF HasLogin
    <3>7. ASSUME NEW e \in HasLogin' PROVE Owns(had'[e], login'[e].name)
      BY <3>1, <3>3, <3>6 DEF NumberInv, Owns, HasLogin
    <3> QED BY <3>4, <3>5, <3>7 DEF NumberInv
  <2>5. CASE ~Unique(q.e, q.row)
    BY <1>5, <2>5, NoneStands, NoneClaims, FrameNumbers DEF SaveEmployee
  <2> QED BY <2>4, <2>5
<1>6. ASSUME NEW r \in Slots, Provision(r) PROVE NumberInv'
  <2> DEFINE q == request[r]
             p == [phase |-> "naming", e |-> q.e, name |-> <<employee[q.e].no, 1>>,
                   alone |-> q.alone]
  <2>1. q \in Requests /\ q.phase = "provision" /\ q.e \in Hired
    BY <1>6 DEF Provision, In, TypeInv, TypeOK, Employed, Standing
  <2>2. q.e \in Employees /\ q.alone \in BOOLEAN /\ employee[q.e] \in EmployeeRows
    BY <2>1, RequestFields DEF Hired, TypeInv, TypeOK
  <2>3. p \in Requests
    BY <2>2, NamesType DEF EmployeeRows, Suffixes, Requests
  <2>4. Claims(p, had)
    BY <2>1 DEF Claims, Owns, NumberInv
  <2> QED BY <1>6, <2>3, <2>4, NoneStands, NoneClaims, FrameNumbers DEF Provision
<1>7. ASSUME NEW r \in Slots, TryName(r) PROVE NumberInv'
  <2> DEFINE q == request[r]
             name == <<q.name[1], q.name[2] + 1>>
             another == [q EXCEPT !.name = name]
             found == [q EXCEPT !.phase = "creating"]
  <2>1. q \in [phase: {"naming", "creating"}, e: Employees, name: Names, alone: BOOLEAN]
    BY <1>7 DEF TryName, In, Requests, None, TypeInv, TypeOK
  <2>2. name \in Names /\ name[2] # 1
    BY <2>1 DEF Names, Suffixes
  <2>3. Owns(had[q.e], name) /\ Owns(had[q.e], q.name)
    BY <1>7, <2>2 DEF Owns, TryName, In, NumberInv, Claims
  <2>4. TryName(r) => Goto(r, another) \/ Goto(r, found)
    BY DEF TryName
  <2> HIDE DEF name
  <2>5. another \in Requests /\ found \in Requests
    BY <2>1, <2>2 DEF Requests
  <2>6. Claims(another, had) /\ Claims(found, had)
    BY <1>7, <2>1, <2>3 DEF Claims, TryName, In
  <2> QED BY <1>7, <2>4, <2>5, <2>6, FrameNumbers
<1>8. ASSUME NEW r \in Slots, CreateLogin(r) PROVE NumberInv'
  <2> DEFINE q == request[r]
             row == [name |-> q.name, password |-> 0, active |-> TRUE]
             p == [phase |-> "password", e |-> q.e, row |-> row, alone |-> q.alone]
  <2>1. q \in Requests /\ q.phase = "creating"
    BY <1>8 DEF CreateLogin, In, TypeInv, TypeOK
  <2>2. q.e \in Employees /\ q.name \in Names /\ q.alone \in BOOLEAN /\ Owns(had[q.e], q.name)
    BY <2>1, RequestFields DEF NumberInv, Claims
  <2>3. CASE Taken(q.name) \/ q.e \in HasLogin
    <3>1. /\ request' = [request EXCEPT ![r] = None]
          /\ UNCHANGED <<employee, login, had>>
      BY <1>8, <2>3 DEF CreateLogin, tables
    <3>2. Others(r, None)
      BY <3>1, NoneStands DEF TypeInv, TypeOK, Others, Like
    <3>3. HasLogin' = HasLogin
      BY <3>1 DEF HasLogin
    <3> QED BY <3>1, <3>2, <3>3, NoneClaims, FrameLogins
  <2>4. CASE ~(Taken(q.name) \/ q.e \in HasLogin)
    <3>1. row \in Logins /\ p \in Requests
      BY <2>2 DEF Logins, Requests
    <3>2. login' = [login EXCEPT ![q.e] = row] /\ UNCHANGED <<employee, had>>
      BY <1>8, <2>4 DEF CreateLogin
    <3>3. Others(r, p)
      BY <1>8, <2>4, <3>1, OthersWrote DEF CreateLogin, Wrote, TypeInv
    <3>4. Claims(p, had)
      BY <2>2 DEF Claims
    <3>5. \A e \in HasLogin' : \/ e \in HasLogin /\ login'[e].name = login[e].name
                               \/ Owns(had[e], login'[e].name)
      BY <2>2, <3>2 DEF HasLogin, TypeInv, TypeOK
    <3> HIDE DEF p, row
    <3> QED BY <3>2, <3>3, <3>4, <3>5, FrameLogins
  <2> QED BY <2>3, <2>4
<1>9. ASSUME NEW r \in Slots, SavePassword(r) PROVE NumberInv'
  <2> DEFINE q == request[r]
             row == [q.row EXCEPT !.password = passwords + 1]
  <2>1. q \in Requests /\ q.phase \in {"password", "reset"}
    BY <1>9 DEF SavePassword, In, TypeInv, TypeOK
  <2>2. q.e \in Employees /\ q.row \in Logins /\ Owns(had[q.e], q.row.name)
    BY <2>1, RequestFields DEF NumberInv, Claims
  <2>3. CASE TakenBut(q.e, q.row.name)
    BY <1>9, <2>3, NoneStands, NoneClaims, FrameNumbers DEF SavePassword
  <2>4. CASE ~TakenBut(q.e, q.row.name)
    <3>1. login' = [login EXCEPT ![q.e] = row] /\ UNCHANGED <<employee, had>>
      BY <1>9, <2>4 DEF SavePassword
    <3>2. Others(r, None)
      BY <1>9, <2>4, NoneStands, OthersWrote DEF SavePassword, Wrote, TypeInv
    <3>3. row.name = q.row.name
      BY <2>2 DEF Logins
    <3> HIDE DEF row
    <3>4. \A e \in HasLogin' : \/ e \in HasLogin /\ login'[e].name = login[e].name
                               \/ Owns(had[e], login'[e].name)
      BY <2>2, <3>1, <3>3 DEF HasLogin, TypeInv, TypeOK
    <3> QED BY <3>1, <3>2, <3>4, NoneClaims, FrameLogins
  <2> QED BY <2>3, <2>4
<1>10. ASSUME NEW r \in Slots, SwitchEmployee(r) PROVE NumberInv'
  <2> DEFINE q == request[r]
             p == [q EXCEPT !.phase = "login"]
  <2>1. q \in [phase: {"switch", "login"}, e: Employees, active: BOOLEAN, alone: BOOLEAN]
    BY <1>10 DEF SwitchEmployee, In, Requests, None, TypeInv, TypeOK
  <2>2. p \in Requests /\ Claims(p, had)
    BY <2>1 DEF Requests, Claims
  <2>3. Others(r, p)
    BY <1>10, <2>2, OthersWrote DEF SwitchEmployee, Wrote, TypeInv
  <2>4. login' = login /\ had' = had
    BY <1>10 DEF SwitchEmployee, history
  <2>5. q.e \in Hired
    BY <1>10 DEF SwitchEmployee, In, TypeInv, Employed, Standing
  <2>6. employee' = [employee EXCEPT ![q.e] = [employee[q.e] EXCEPT !.active = q.active]]
    BY <1>10 DEF SwitchEmployee
  <2>7. \A e \in Hired : employee[e] \in EmployeeRows
    BY DEF Hired, TypeInv, TypeOK
  <2>8. \A e \in Hired' : e \in Hired /\ employee'[e].no = employee[e].no
    BY <2>5, <2>6, <2>7 DEF Hired, EmployeeRows, TypeInv, TypeOK
  <2>9. HasLogin' = HasLogin
    BY <2>4 DEF HasLogin
  <2> HIDE DEF p
  <2>10. \A s \in Slots : Claims(request'[s], had')
    BY <2>2, <2>3, <2>4, FrameClaims
  <2> QED BY <2>4, <2>8, <2>9, <2>10 DEF NumberInv
<1>11. ASSUME NEW r \in Slots, SwitchLogin(r) PROVE NumberInv'
  <2>1. Others(r, None)
    BY <1>11, NoneStands, OthersWrote DEF SwitchLogin, Wrote, TypeInv
  <2>2. UNCHANGED <<employee, had>>
    BY <1>11 DEF SwitchLogin
  <2>3. \A e \in HasLogin : login[e] \in Logins
    BY DEF HasLogin, TypeInv, TypeOK
  <2>4. \A e \in HasLogin' : e \in HasLogin /\ login'[e].name = login[e].name
    BY <1>11, <2>3 DEF SwitchLogin, HasLogin, Logins, TypeInv, TypeOK
  <2> QED BY <2>1, <2>2, <2>4, NoneClaims, FrameLogins
<1>12. ASSUME NEW r \in Slots, SaveName(r) PROVE NumberInv'
  <2> DEFINE q == request[r]
  <2>1. q \in Requests /\ q.phase = "rename" /\ q.e \in HasLogin
    BY <1>12 DEF SaveName, In, TypeInv, TypeOK, Employed, Standing
  <2>2. Owns(had[q.e], q.name)
    BY <2>1 DEF NumberInv, Claims
  <2>3. CASE TakenBut(q.e, q.name)
    BY <1>12, <2>3, NoneStands, NoneClaims, FrameNumbers DEF SaveName
  <2>4. CASE ~TakenBut(q.e, q.name)
    <3>1. /\ login' = [login EXCEPT ![q.e] = [login[q.e] EXCEPT !.name = q.name]]
          /\ UNCHANGED <<employee, had>>
      BY <1>12, <2>4 DEF SaveName, history
    <3>2. Others(r, None)
      BY <1>12, <2>4, NoneStands, OthersWrote DEF SaveName, Wrote, TypeInv
    <3>3. \A e \in HasLogin : login[e] \in Logins
      BY DEF HasLogin, TypeInv, TypeOK
    <3>4. \A e \in HasLogin' : \/ e \in HasLogin /\ login'[e].name = login[e].name
                               \/ Owns(had[e], login'[e].name)
      BY <2>1, <2>2, <3>1, <3>3 DEF HasLogin, Logins, TypeInv, TypeOK
    <3> QED BY <3>1, <3>2, <3>4, NoneClaims, FrameLogins
  <2> QED BY <2>3, <2>4
<1>13. ASSUME NEW r \in Slots, SaveChange(r) PROVE NumberInv'
  <2> DEFINE q == request[r]
  <2>1. q.e \in HasLogin
    BY <1>13 DEF SaveChange, In, TypeInv, Employed, Standing
  <2>2. /\ login' = [login EXCEPT ![q.e] = [login[q.e] EXCEPT !.password = passwords + 1]]
        /\ UNCHANGED <<employee, had>>
    BY <1>13 DEF SaveChange, history
  <2>3. request' = [s \in Slots |-> IF s = r THEN None
                                    ELSE IF request[s] = None THEN None
                                    ELSE [request[s] EXCEPT !.alone = FALSE]]
    BY <1>13 DEF SaveChange
  <2>4. Others(r, None)
    BY <2>3, NoneStands, OthersWrote DEF TypeInv
  <2>5. \A e \in HasLogin : login[e] \in Logins
    BY DEF HasLogin, TypeInv, TypeOK
  <2>6. \A e \in HasLogin' : e \in HasLogin /\ login'[e].name = login[e].name
    BY <2>1, <2>2, <2>5 DEF HasLogin, Logins, TypeInv, TypeOK
  <2> QED BY <2>2, <2>4, <2>6, NoneClaims, FrameLogins
<1>14. ASSUME NEW r \in Slots, NEW e \in Employees, NEW name \in Choices, PostRename(r, e, name)
       PROVE  NumberInv'
  <2> DEFINE q == [phase |-> "rename", e |-> e, row |-> login[e], name |-> name, alone |-> TRUE]
  <2>1. e \in HasLogin /\ e \in Hired /\ login[e] \in Logins
    BY <1>14 DEF PostRename, SignedIn, Usable, HasLogin, TypeInv, TypeOK, Employed
  <2>2. Owns(had[e], name)
    BY <1>14, <2>1 DEF PostRename, Available, Owns, NumberInv
  <2>3. q \in Requests /\ Claims(q, had)
    BY <2>1, <2>2 DEF Requests, Claims
  <2> QED BY <1>14, <2>3, FrameNumbers DEF PostRename
<1>15. ASSUME NEW r \in Slots, NEW e \in Employees, PostReset(r, e) PROVE NumberInv'
  <2> DEFINE q == [phase |-> "reset", e |-> e, row |-> login[e], alone |-> TRUE]
  <2>1. e \in HasLogin /\ login[e] \in Logins
    BY <1>15 DEF PostReset, HasLogin, TypeInv, TypeOK
  <2>2. q \in Requests /\ Claims(q, had)
    BY <2>1 DEF Requests, Claims, NumberInv
  <2> QED BY <1>15, <2>2, FrameNumbers DEF PostReset
<1>16. ASSUME NEW r \in Slots, NEW e \in Employees,
              \/ \E form \in Forms : PostHire(r, e, form) \/ PostEdit(r, e, form)
              \/ \E active \in BOOLEAN : PostSwitch(r, e, active)
              \/ PostCreate(r, e) \/ PostChange(r, e)
       PROVE  NumberInv'
  <2>1. ASSUME NEW q \in Requests, Arrive(r, q),
               q.phase \in {"hire", "edit", "switch", "provision", "change"}
        PROVE  NumberInv'
    BY <2>1, FrameNumbers DEF Claims
  <2>2. ASSUME NEW form \in Forms, PostHire(r, e, form) \/ PostEdit(r, e, form)
        PROVE  NumberInv'
    BY <2>1, <2>2 DEF PostHire, PostEdit, Requests
  <2>3. ASSUME NEW active \in BOOLEAN, PostSwitch(r, e, active) PROVE NumberInv'
    BY <2>1, <2>3 DEF PostSwitch, Requests
  <2>4. CASE PostCreate(r, e) \/ PostChange(r, e)
    BY <2>1, <2>4 DEF PostCreate, PostChange, Requests
  <2> QED BY <1>16, <2>2, <2>3, <2>4
<1> QED
  BY <1>1, <1>2, <1>3, <1>4, <1>5, <1>6, <1>7, <1>8, <1>9, <1>10, <1>11, <1>12, <1>13, <1>14,
     <1>15, <1>16
  DEF Next, Restart

\* A username that looks like an employee number is only ever held by somebody
\* who has, or had, that number.
THEOREM NumbersAlwaysBelong == Spec => []NumbersBelong
<1>1. Init => NumberInv
  <2> SUFFICES ASSUME Init PROVE NumberInv
    OBVIOUS
  <2>1. /\ \A e \in Employees : had[e] = IF employee[e] = NotHired THEN {} ELSE {employee[e].no}
        /\ \A r \in Slots : request[r] = None
    BY DEF Init
  <2>2. \A e \in Employees : login[e] = IF employee[e] = NotHired THEN NoLogin
          ELSE [name |-> <<employee[e].no, 1>>, password |-> 1, active |-> TRUE]
    BY DEF Init
  <2>3. ASSUME NEW e \in HasLogin PROVE e \in Hired /\ login[e].name = <<employee[e].no, 1>>
    <3> DEFINE name == <<employee[e].no, 1>>
    <3>1. /\ e \in Hired
          /\ login[e] = [name |-> name, password |-> 1, active |-> TRUE]
      BY <2>2 DEF HasLogin, Hired
    <3> HIDE DEF name
    <3>2. login[e].name = name
      BY <3>1
    <3> QED BY <3>1, <3>2 DEF name
  <2>4. \A e \in Hired : employee[e].no \in had[e]
    BY <2>1 DEF Hired
  <2> QED BY <2>1, <2>3, <2>4, NoneClaims DEF NumberInv, Owns
<1>2. NumberInv => NumbersBelong
  BY DEF NumberInv, NumbersBelong, Owns
<1> QED BY <1>1, <1>2, InitType, NextType, NextNumbers, PTL DEF Spec

----------------------------------------------------------------------------
(* Activation and hires: both rest on what a request may conclude from    *)
(* having been alone.                                                      *)

\* What a request knows as long as nobody else has written.
Fresh(q, emp, log, hired) ==
    /\ q.phase = "hire" => q.e \notin hired
    /\ q.phase = "login" /\ q.alone => emp[q.e].active = q.active
    /\ q.phase \in {"password", "reset"} /\ q.alone => log[q.e].active = q.row.active

OneHire == \A r, s \in Slots :
    r # s /\ In(r, "hire") /\ In(s, "hire") => request[r].e # request[s].e

SwitchInv ==
    /\ OneSwitch
    /\ \A r \in Slots : Fresh(request[r], employee, login, Hired)
    /\ OneHire

LEMMA NoneFresh == \A emp, log, hired : Fresh(None, emp, log, hired) /\ None.phase = "none"
BY DEF None, Fresh

\* Employees a step leaves in agreement, or no worse than they were.
Agreeing(r, q) ==
    \A e \in HasLogin' \ apart' :
        \/ login'[e].active = employee'[e].active
        \/ q.phase = "login" /\ q.e = e
        \/ /\ e \in HasLogin \ apart
           /\ login'[e].active = login[e].active /\ employee'[e].active = employee[e].active
           /\ In(r, "login") => request[r].e # e

LEMMA FrameAgreeing ==
    ASSUME TypeInv, OneSwitch, NEW r \in Slots, NEW q, Others(r, q), Agreeing(r, q)
    PROVE  OneSwitch'
<1> SUFFICES ASSUME NEW e \in HasLogin' \ apart',
                    \A s \in Slots : request'[s].phase = "login" => request'[s].e # e
             PROVE  login'[e].active = employee'[e].active
  BY DEF OneSwitch, In
<1>1. request'[r] = q
  BY DEF Others
<1>2. ASSUME NEW s \in Slots \ {r}, In(s, "login") PROVE request[s].e # e
  BY <1>2 DEF Others, Like, In
<1> QED BY <1>1, <1>2 DEF Agreeing, OneSwitch, In

\* Steps that write: nobody else is alone any more.
LEMMA WriteFresh ==
    ASSUME TypeInv, SwitchInv, NEW r \in Slots, NEW q, Others(r, q), Disturbs(r),
           Fresh(q, employee', login', Hired'), q.phase # "hire",
           Hired' \subseteq Hired \cup {request[r].e}, ~In(r, "hire") => Hired' \subseteq Hired,
           Agreeing(r, q)
    PROVE  SwitchInv'
<1>1. OneSwitch'
  BY FrameAgreeing DEF SwitchInv
<1>2. ASSUME NEW s \in Slots PROVE Fresh(request'[s], employee', login', Hired')
  <2>1. CASE s = r
    BY <2>1 DEF Others
  <2>2. CASE s # r
    <3>1. Like(request'[s], request[s]) /\ (request'[s].phase # "none" => ~request'[s].alone)
      BY <2>2 DEF Others, Disturbs
    <3>2. ASSUME request[s].phase = "hire" PROVE request[s].e \notin Hired'
      BY <2>2, <3>2 DEF SwitchInv, OneHire, Fresh, In
    <3> QED BY <3>1, <3>2 DEF Like, Fresh
  <2> QED BY <2>1, <2>2
<1>3. OneHire'
  <2> SUFFICES ASSUME NEW s \in Slots, NEW t \in Slots, s # t,
                      request'[s].phase = "hire", request'[t].phase = "hire"
               PROVE  request'[s].e # request'[t].e
    BY DEF OneHire, In
  <2>1. s # r /\ t # r
    BY DEF Others
  <2>2. Like(request'[s], request[s]) /\ Like(request'[t], request[t])
    BY <2>1 DEF Others
  <2> QED BY <2>2 DEF Like, SwitchInv, OneHire, In
<1> QED BY <1>1, <1>2, <1>3 DEF SwitchInv

\* Steps that do not.
LEMMA QuietFresh ==
    ASSUME TypeInv, SwitchInv, NEW r \in Slots, NEW q \in Requests, Arrive(r, q) \/ Goto(r, q),
           Fresh(q, employee, login, Hired), ~In(r, "login"),
           q.phase = "hire" => \A s \in Slots : In(s, "hire") => request[s].e # q.e
    PROVE  SwitchInv'
<1>1. Others(r, q) /\ \A s \in Slots \ {r} : request'[s] = request[s]
  BY OthersStay DEF TypeInv
<1>2. UNCHANGED <<employee, login, apart>>
  BY DEF Arrive, Goto, tables, history
<1>3. Hired' = Hired /\ HasLogin' = HasLogin
  BY <1>2 DEF Hired, HasLogin
<1>4. Agreeing(r, q)
  BY <1>2, <1>3 DEF Agreeing
<1>5. OneSwitch'
  BY <1>1, <1>4, FrameAgreeing DEF SwitchInv
<1>6. \A s \in Slots : Fresh(request'[s], employee', login', Hired')
  BY <1>1, <1>2, <1>3 DEF Others, SwitchInv
<1>7. OneHire'
  BY <1>1 DEF Others, SwitchInv, OneHire, In
<1> QED BY <1>5, <1>6, <1>7 DEF SwitchInv

LEMMA BootSwitch == TypeInv /\ SwitchInv /\ Restart => SwitchInv'
<1> SUFFICES ASSUME TypeInv, SwitchInv, Restart PROVE SwitchInv'
  OBVIOUS
<1>1. \A r \in Slots : request'[r] = None
  BY DEF Restart, BootFails, BootSeeds, Boot
<1>2. /\ \A r \in Slots : Fresh(request'[r], employee', login', Hired')
      /\ OneHire'
  BY <1>1, NoneFresh DEF OneHire, In
<1>3. \A e \in HasLogin \ (apart \cup Cut({"login"})) : login[e].active = employee[e].active
  BY DEF SwitchInv, OneSwitch, Cut, In
<1>4. CASE BootFails
  <2>1. UNCHANGED <<employee, login>> /\ apart' = apart \cup Cut({"login"})
    BY <1>4 DEF BootFails
  <2>2. OneSwitch'
    BY <1>3, <2>1 DEF OneSwitch, HasLogin
  <2> QED BY <1>2, <2>2 DEF SwitchInv
<1>5. ASSUME NEW at \in Injection(Missing, Employees \ Hired), BootSeeds(at) PROVE SwitchInv'
  <2>1. apart' = apart \cup Cut({"login"})
                   \cup {e \in Enrolled(at) \ Added(at) : ~employee[e].active}
    BY <1>5 DEF BootSeeds
  <2>2. ASSUME NEW e \in HasLogin' \ apart' PROVE login'[e].active = employee'[e].active
    <3>1. e \in Employees
      BY DEF HasLogin
    <3>2. CASE e \in Enrolled(at)
      <4>1. login'[e].active = TRUE
        BY <1>5, <3>2, BootFields
      <4>2. CASE e \in Added(at)
        BY <1>5, <4>1, <4>2, BootFields
      <4>3. CASE e \notin Added(at)
        <5>1. employee'[e] = employee[e] /\ e \in Hired
          BY <1>5, <3>1, <3>2, <4>3, BootRows, SeedFacts DEF TypeInv
        <5>2. employee[e].active \in BOOLEAN
          BY <5>1 DEF Hired, EmployeeRows, TypeInv, TypeOK
        <5>3. employee[e].active
          BY <2>1, <2>2, <3>2, <4>3
        <5> QED BY <4>1, <5>1, <5>2, <5>3
      <4> QED BY <4>2, <4>3
    <3>3. CASE e \notin Enrolled(at)
      <4>1. e \in HasLogin /\ login'[e] = login[e]
        BY <1>5, <2>2, <3>1, <3>3, BootRows
      <4>2. e \in Hired /\ e \notin Added(at)
        BY <3>1, <4>1, SeedFacts DEF TypeInv, Employed
      <4>3. employee'[e] = employee[e]
        BY <1>5, <3>1, <4>2, BootRows
      <4> QED BY <1>3, <2>1, <2>2, <4>1, <4>3
    <3> QED BY <3>2, <3>3
  <2>3. OneSwitch'
    BY <2>2 DEF OneSwitch
  <2> QED BY <1>2, <2>3 DEF SwitchInv
<1> QED BY <1>4, <1>5 DEF Restart

LEMMA NextSwitch == TypeInv /\ SwitchInv /\ [Next]_vars => SwitchInv'
<1> SUFFICES ASSUME TypeInv, SwitchInv, [Next]_vars PROVE SwitchInv'
  OBVIOUS
<1>1. CASE UNCHANGED vars
  <2>1. UNCHANGED <<employee, login, apart, request>>
    BY <1>1 DEF vars
  <2>2. Hired' = Hired /\ HasLogin' = HasLogin
    BY <2>1 DEF Hired, HasLogin
  <2> QED BY <2>1, <2>2 DEF SwitchInv, OneSwitch, OneHire, In
<1>2. ASSUME NEW e \in Employees, SignIn(e) PROVE SwitchInv'
  <2>1. UNCHANGED <<employee, login, apart, request>>
    BY <1>2 DEF SignIn, history
  <2>2. Hired' = Hired /\ HasLogin' = HasLogin
    BY <2>1 DEF Hired, HasLogin
  <2> QED BY <2>1, <2>2 DEF SwitchInv, OneSwitch, OneHire, In
<1>3. \A e \in HasLogin : e \in Hired /\ e \in Employees /\ login[e] \in Logins
  BY DEF HasLogin, TypeInv, TypeOK, Employed
<1>4. \A e \in Hired : e \in Employees /\ employee[e] \in EmployeeRows
  BY DEF Hired, TypeInv, TypeOK
<1>5. ASSUME NEW r \in Slots, SaveEmployee(r) PROVE SwitchInv'
  <2> DEFINE q == request[r]
             p == [phase |-> "provision", e |-> q.e, alone |-> q.alone]
             next == IF q.phase = "hire" THEN p ELSE None
  <2>1. q \in Requests /\ q.phase \in {"hire", "edit"}
    BY <1>5 DEF SaveEmployee, In, TypeInv, TypeOK
  <2>2. q.e \in Employees /\ q.row \in EmployeeRows /\ q.alone \in BOOLEAN
    BY <2>1, RequestFields, AccountsAssumption
  <2>3. next \in Requests /\ next.phase \in {"provision", "none"}
    BY <2>2, NoneStands, NoneFresh DEF Requests
  <2>4. \A emp, log, hired : Fresh(next, emp, log, hired)
    BY <2>3 DEF Fresh
  <2>5. CASE Unique(q.e, q.row)
    <3>1. /\ employee' = [employee EXCEPT ![q.e] = q.row] /\ login' = login
          /\ apart' = IF q.phase = "hire" \/ q.row.active = employee[q.e].active
                      THEN apart ELSE apart \cup {q.e}
      BY <1>5, <2>5 DEF SaveEmployee
    <3>2. Others(r, next) /\ Disturbs(r)
      BY <1>5, <2>3, <2>5, OthersWrote DEF SaveEmployee, Wrote, TypeInv
    <3>3. Hired' = Hired \cup {q.e} /\ HasLogin' = HasLogin
      BY <2>2, <3>1, HiredGrows DEF TypeInv, HasLogin
    <3>4. q.phase = "hire" => q.e \notin HasLogin
      BY <1>3 DEF SwitchInv, Fresh
    <3>5. q.phase = "edit" => q.e \in Hired
      BY DEF TypeInv, Employed, Standing
    <3> HIDE DEF next
    <3>6. Agreeing(r, next)
      BY <1>3, <2>1, <2>2, <3>1, <3>3, <3>4 DEF Agreeing, In, TypeInv, TypeOK
    <3> QED BY <2>1, <2>3, <2>4, <3>2, <3>3, <3>5, <3>6, WriteFresh DEF In
  <2>6. CASE ~Unique(q.e, q.row)
    BY <1>5, <2>1, <2>6, NoneStands, NoneFresh, QuietFresh DEF SaveEmployee, In
  <2> QED BY <2>5, <2>6
<1>6. ASSUME NEW r \in Slots, Provision(r) \/ TryName(r) PROVE SwitchInv'
  <2> DEFINE q == request[r]
             p == [phase |-> "naming", e |-> q.e, name |-> <<employee[q.e].no, 1>>,
                   alone |-> q.alone]
             another == [q EXCEPT !.name = <<@[1], @[2] + 1>>]
             found == [q EXCEPT !.phase = "creating"]
  <2>1. q \in Requests /\ q.phase \in {"provision", "naming"} /\ q.e \in Hired
    BY <1>6 DEF Provision, TryName, In, TypeInv, TypeOK, Employed, Standing
  <2>2. ASSUME NEW to \in Requests, Goto(r, to), to.phase \in {"none", "naming", "creating"}
        PROVE  SwitchInv'
    BY <2>1, <2>2, QuietFresh DEF Fresh, In
  <2>3. CASE Provision(r)
    <3>1. q.e \in Employees /\ q.alone \in BOOLEAN /\ employee[q.e] \in EmployeeRows
      BY <1>4, <2>1, RequestFields
    <3>2. p \in Requests
      BY <3>1, NamesType DEF EmployeeRows, Suffixes, Requests
    <3> QED BY <2>2, <2>3, <3>2, NoneStands, NoneFresh DEF Provision
  <2>4. CASE TryName(r)
    <3>1. q \in [phase: {"naming", "creating"}, e: Employees, name: Names, alone: BOOLEAN]
      BY <2>1, <2>4 DEF TryName, In, Requests, None
    <3>2. <<q.name[1], q.name[2] + 1>> \in Names
      BY <3>1 DEF Names, Suffixes
    <3>3. /\ another \in Requests /\ another.phase \in {"naming", "creating"}
          /\ found \in Requests /\ found.phase \in {"naming", "creating"}
      BY <3>1, <3>2 DEF Requests
    <3> QED BY <2>2, <2>4, <3>3 DEF TryName
  <2> QED BY <1>6, <2>3, <2>4
<1>7. ASSUME NEW r \in Slots, CreateLogin(r) PROVE SwitchInv'
  <2> DEFINE q == request[r]
             row == [name |-> q.name, password |-> 0, active |-> TRUE]
             p == [phase |-> "password", e |-> q.e, row |-> row, alone |-> q.alone]
  <2>1. q \in Requests /\ q.phase = "creating" /\ q.e \in Hired
    BY <1>7 DEF CreateLogin, In, TypeInv, TypeOK, Employed, Standing
  <2>2. q.e \in Employees /\ q.name \in Names /\ q.alone \in BOOLEAN
    BY <2>1, RequestFields
  <2>3. CASE Taken(q.name) \/ q.e \in HasLogin
    <3>1. /\ request' = [request EXCEPT ![r] = None]
          /\ UNCHANGED <<employee, login, apart>>
      BY <1>7, <2>3 DEF CreateLogin, tables
    <3>2. Hired' = Hired /\ HasLogin' = HasLogin
      BY <3>1 DEF Hired, HasLogin
    <3>3. \A s \in Slots : Fresh(request'[s], employee', login', Hired')
      BY <3>1, <3>2, NoneFresh DEF SwitchInv, TypeInv, TypeOK
    <3>4. OneHire'
      BY <3>1, NoneFresh DEF SwitchInv, OneHire, In, TypeInv, TypeOK
    <3>5. OneSwitch'
      BY <2>1, <3>1, <3>2, NoneFresh DEF SwitchInv, OneSwitch, In, TypeInv, TypeOK
    <3> QED BY <3>3, <3>4, <3>5 DEF SwitchInv
  <2>4. CASE ~(Taken(q.name) \/ q.e \in HasLogin)
    <3>1. row \in Logins /\ p \in Requests /\ row.active = TRUE
      BY <2>2 DEF Logins, Requests
    <3>2. /\ login' = [login EXCEPT ![q.e] = row] /\ employee' = employee
          /\ apart' = IF employee[q.e].active THEN apart ELSE apart \cup {q.e}
      BY <1>7, <2>4 DEF CreateLogin
    <3>3. Others(r, p) /\ Disturbs(r)
      BY <1>7, <2>4, <3>1, OthersWrote DEF CreateLogin, Wrote, TypeInv
    <3>4. p.phase = "password" /\ p.e = q.e /\ p.row = row
      OBVIOUS
    <3>5. login'[q.e] = row /\ Hired' = Hired
      BY <2>2, <3>2 DEF Hired, TypeInv, TypeOK
    <3>6. employee[q.e].active \in BOOLEAN
      BY <1>4, <2>1 DEF EmployeeRows
    <3> HIDE DEF p, row
    <3>7. Agreeing(r, p)
      <4> SUFFICES ASSUME NEW e \in HasLogin' \ apart',
                          ~(login'[e].active = employee'[e].active)
                   PROVE  /\ e \in HasLogin \ apart
                          /\ login'[e].active = login[e].active
                          /\ employee'[e].active = employee[e].active
                          /\ In(r, "login") => request[r].e # e
        BY DEF Agreeing
      <4>1. e # q.e
        BY <3>1, <3>2, <3>5, <3>6
      <4>2. login'[e] = login[e] /\ e \in HasLogin
        BY <3>2, <4>1 DEF HasLogin, TypeInv, TypeOK
      <4> QED BY <2>1, <3>2, <4>1, <4>2 DEF In
    <3>8. Fresh(p, employee', login', Hired')
      BY <3>4, <3>5 DEF Fresh
    <3> QED BY <3>3, <3>4, <3>5, <3>7, <3>8, WriteFresh
  <2> QED BY <2>3, <2>4
<1>8. ASSUME NEW r \in Slots, SavePassword(r) PROVE SwitchInv'
  <2> DEFINE q == request[r]
             row == [q.row EXCEPT !.password = passwords + 1]
  <2>1. q \in Requests /\ q.phase \in {"password", "reset"} /\ q.e \in HasLogin
    BY <1>8 DEF SavePassword, In, TypeInv, TypeOK, Employed, Standing
  <2>2. q.e \in Employees /\ q.row \in Logins /\ q.alone \in BOOLEAN
    BY <2>1, RequestFields
  <2>3. q.alone => login[q.e].active = q.row.active
    BY <2>1 DEF SwitchInv, Fresh
  <2>4. CASE TakenBut(q.e, q.row.name)
    BY <1>8, <2>1, <2>4, NoneStands, NoneFresh, QuietFresh DEF SavePassword, In
  <2>5. CASE ~TakenBut(q.e, q.row.name)
    <3>1. /\ login' = [login EXCEPT ![q.e] = row] /\ employee' = employee
          /\ apart' = IF q.alone THEN apart ELSE apart \cup {q.e}
      BY <1>8, <2>5 DEF SavePassword
    <3>2. Others(r, None) /\ Disturbs(r)
      BY <1>8, <2>5, NoneStands, OthersWrote DEF SavePassword, Wrote, TypeInv
    <3>3. row.active = q.row.active
      BY <2>2 DEF Logins
    <3> HIDE DEF row
    <3>4. Agreeing(r, None)
      BY <2>1, <2>2, <2>3, <3>1, <3>3 DEF Agreeing, In, HasLogin, TypeInv, TypeOK
    <3>5. Hired' = Hired
      BY <3>1 DEF Hired
    <3> QED BY <3>2, <3>4, <3>5, NoneFresh, WriteFresh
  <2> QED BY <2>4, <2>5
<1>9. ASSUME NEW r \in Slots, SwitchEmployee(r) PROVE SwitchInv'
  <2> DEFINE q == request[r]
             p == [q EXCEPT !.phase = "login"]
  <2>1. q.phase = "switch" /\ q.e \in Hired
    BY <1>9 DEF SwitchEmployee, In, TypeInv, Employed, Standing
  <2>2. q \in [phase: {"switch", "login"}, e: Employees, active: BOOLEAN, alone: BOOLEAN]
    BY <2>1 DEF Requests, None, TypeInv, TypeOK
  <2>3. p \in Requests /\ p.phase = "login" /\ p.e = q.e /\ p.active = q.active
    BY <2>2 DEF Requests
  <2>4. Others(r, p) /\ Disturbs(r)
    BY <1>9, <2>3, OthersWrote DEF SwitchEmployee, Wrote, TypeInv
  <2>5. /\ employee' = [employee EXCEPT ![q.e] = [employee[q.e] EXCEPT !.active = q.active]]
        /\ login' = login /\ apart' = apart
    BY <1>9 DEF SwitchEmployee, history
  <2>6. employee'[q.e].active = q.active /\ employee'[q.e] \in EmployeeRows
    BY <1>4, <2>1, <2>2, <2>5 DEF EmployeeRows, TypeInv, TypeOK
  <2>7. \A e \in Employees \ {q.e} : employee'[e] = employee[e]
    BY <2>5 DEF TypeInv, TypeOK
  <2>8. Hired' = Hired /\ HasLogin' = HasLogin
    BY <2>1, <2>5, <2>6, <2>7, NotRows DEF Hired, HasLogin
  <2> HIDE DEF p
  <2>9. Agreeing(r, p)
    BY <1>3, <2>1, <2>3, <2>5, <2>7, <2>8 DEF Agreeing, In
  <2>10. Fresh(p, employee', login', Hired')
    BY <2>3, <2>6 DEF Fresh
  <2> QED BY <2>3, <2>4, <2>8, <2>9, <2>10, WriteFresh
<1>10. ASSUME NEW r \in Slots, SwitchLogin(r) PROVE SwitchInv'
  <2> DEFINE q == request[r]
  <2>1. q \in Requests /\ q.phase = "login" /\ q.e \in Employees
    BY <1>10, RequestFields DEF SwitchLogin, In, TypeInv, TypeOK
  <2>2. q.alone => employee[q.e].active = q.active
    BY <2>1 DEF SwitchInv, Fresh
  <2>3. /\ apart' = IF q.alone THEN apart \ {q.e} ELSE apart \cup {q.e}
        /\ employee' = employee
        /\ q.e \in HasLogin =>
              login' = [login EXCEPT ![q.e] = [login[q.e] EXCEPT !.active = q.active]]
        /\ q.e \notin HasLogin => login' = login
    BY <1>10 DEF SwitchLogin
  <2>4. Others(r, None) /\ Disturbs(r)
    BY <1>10, NoneStands, OthersWrote DEF SwitchLogin, Wrote, TypeInv
  <2>5. \A e \in Employees \ {q.e} : login'[e] = login[e]
    BY <2>3 DEF TypeInv, TypeOK
  <2>6. q.e \in HasLogin => login'[q.e].active = q.active
    BY <1>3, <2>3 DEF Logins, TypeInv, TypeOK
  <2>7. q.e \notin HasLogin => q.e \notin HasLogin'
    BY <2>3 DEF HasLogin
  <2>8. Agreeing(r, None)
    BY <2>1, <2>2, <2>3, <2>5, <2>6, <2>7 DEF Agreeing, In, HasLogin
  <2>9. Hired' = Hired
    BY <2>3 DEF Hired
  <2> QED BY <2>4, <2>8, <2>9, NoneFresh, WriteFresh
<1>11. ASSUME NEW r \in Slots, SaveName(r) \/ SaveChange(r) PROVE SwitchInv'
  <2> DEFINE q == request[r]
  <2>1. q \in Requests /\ q.phase \in {"rename", "change"} /\ q.e \in HasLogin
    BY <1>11 DEF SaveName, SaveChange, In, TypeInv, TypeOK, Employed, Standing
  <2>2. ASSUME UNCHANGED <<employee, apart>>, Others(r, None), Disturbs(r),
               \A e \in HasLogin' : e \in HasLogin /\ login'[e].active = login[e].active
        PROVE  SwitchInv'
    <3>1. Agreeing(r, None) /\ Hired' = Hired
      BY <2>1, <2>2 DEF Agreeing, In, Hired
    <3> QED BY <2>2, <3>1, NoneFresh, WriteFresh
  <2>3. CASE SaveName(r)
    <3>1. CASE TakenBut(q.e, q.name)
      BY <2>1, <2>3, <3>1, NoneStands, NoneFresh, QuietFresh DEF SaveName, In
    <3>2. CASE ~TakenBut(q.e, q.name)
      <4>1. /\ login' = [login EXCEPT ![q.e] = [login[q.e] EXCEPT !.name = q.name]]
            /\ UNCHANGED <<employee, apart>>
        BY <2>3, <3>2 DEF SaveName, history
      <4>2. Others(r, None) /\ Disturbs(r)
        BY <2>3, <3>2, NoneStands, OthersWrote DEF SaveName, Wrote, TypeInv
      <4>3. \A e \in HasLogin' : e \in HasLogin /\ login'[e].active = login[e].active
        BY <1>3, <2>1, <4>1 DEF HasLogin, Logins, TypeInv, TypeOK
      <4> QED BY <2>2, <4>1, <4>2, <4>3
    <3> QED BY <3>1, <3>2
  <2>4. CASE SaveChange(r)
    <3>1. /\ login' = [login EXCEPT ![q.e] = [login[q.e] EXCEPT !.password = passwords + 1]]
          /\ UNCHANGED <<employee, apart>>
      BY <2>4 DEF SaveChange, history
    <3>2. request' = [s \in Slots |-> IF s = r THEN None
                                      ELSE IF request[s] = None THEN None
                                      ELSE [request[s] EXCEPT !.alone = FALSE]]
      BY <2>4 DEF SaveChange
    <3>3. Others(r, None) /\ Disturbs(r)
      BY <3>2, NoneStands, OthersWrote DEF TypeInv
    <3>4. \A e \in HasLogin' : e \in HasLogin /\ login'[e].active = login[e].active
      BY <1>3, <2>1, <3>1 DEF HasLogin, Logins, TypeInv, TypeOK
    <3> QED BY <2>2, <3>1, <3>3, <3>4
  <2> QED BY <1>11, <2>3, <2>4
<1>12. ASSUME NEW r \in Slots, NEW e \in Employees,
              \/ \E form \in Forms : PostHire(r, e, form) \/ PostEdit(r, e, form)
              \/ \E active \in BOOLEAN : PostSwitch(r, e, active)
              \/ \E name \in Choices : PostRename(r, e, name)
              \/ PostCreate(r, e) \/ PostReset(r, e) \/ PostChange(r, e)
       PROVE  SwitchInv'
  <2>1. ASSUME NEW q \in Requests, Arrive(r, q),
               q.phase \in {"edit", "switch", "provision", "change", "rename"}
        PROVE  SwitchInv'
    BY <2>1, QuietFresh, NoneFresh DEF Fresh, Arrive, In
  <2>2. ASSUME NEW form \in Forms, PostHire(r, e, form) PROVE SwitchInv'
    <3> DEFINE q == [phase |-> "hire", e |-> e, row |-> form, alone |-> TRUE]
    <3>1. q \in Requests /\ Fresh(q, employee, login, Hired)
      BY <2>2 DEF Requests, Fresh, PostHire
    <3> QED BY <2>2, <3>1, QuietFresh, NoneFresh DEF PostHire, Arrive, In
  <2>3. ASSUME NEW form \in Forms, PostEdit(r, e, form) PROVE SwitchInv'
    BY <2>1, <2>3 DEF PostEdit, Requests
  <2>4. ASSUME NEW active \in BOOLEAN, PostSwitch(r, e, active) PROVE SwitchInv'
    BY <2>1, <2>4 DEF PostSwitch, Requests
  <2>5. CASE PostCreate(r, e) \/ PostChange(r, e)
    BY <2>1, <2>5 DEF PostCreate, PostChange, Requests
  <2>6. ASSUME NEW name \in Choices, PostRename(r, e, name) PROVE SwitchInv'
    <3> DEFINE q == [phase |-> "rename", e |-> e, row |-> login[e], name |-> name,
                     alone |-> TRUE]
    <3>1. q \in Requests /\ q.phase = "rename"
      BY <1>3, <2>6 DEF Requests, PostRename, SignedIn, Usable
    <3> QED BY <2>1, <2>6, <3>1 DEF PostRename
  <2>7. CASE PostReset(r, e)
    <3> DEFINE q == [phase |-> "reset", e |-> e, row |-> login[e], alone |-> TRUE]
    <3>1. q \in Requests /\ q.phase = "reset" /\ Fresh(q, employee, login, Hired)
      BY <1>3, <2>7 DEF Requests, Fresh, PostReset
    <3> QED BY <2>7, <3>1, QuietFresh, NoneFresh DEF PostReset, Arrive, In
  <2> QED BY <1>12, <2>2, <2>3, <2>4, <2>5, <2>6, <2>7
<1> QED
  BY <1>1, <1>2, <1>5, <1>6, <1>7, <1>8, <1>9, <1>10, <1>11, <1>12, BootSwitch DEF Next

\* An employee and their login disagree on being active only for one of the
\* reasons OneSwitch lists, and an undisturbed press of the button ends it.
THEOREM OneSwitchAlways == Spec => []OneSwitch
<1>1. Init => SwitchInv
  <2> SUFFICES ASSUME Init PROVE SwitchInv
    OBVIOUS
  <2>1. \A r \in Slots : request[r] = None
    BY DEF Init
  <2>2. \A e \in HasLogin : login[e].active = TRUE /\ employee[e].active = TRUE
    BY DEF Init, HasLogin
  <2> QED BY <2>1, <2>2, NoneFresh DEF SwitchInv, OneSwitch, OneHire, In
<1>2. SwitchInv => OneSwitch
  BY DEF SwitchInv
<1> QED BY <1>1, <1>2, InitType, NextType, NextSwitch, PTL DEF Spec

----------------------------------------------------------------------------
(* Logins for hires.                                                       *)

Provisions == {"provision", "naming", "creating", "password"}

\* Some request but r is in one of these phases for employee e.
Elsewhere(r, e, phases) ==
    \E s \in Slots \ {r} : request[s].phase \in phases /\ request[s].e = e

\* What a request relies on: that its name is free as long as nobody else has
\* written, and that a login that has no password yet kept its name.
Ready(q, has, log) ==
    /\ q.phase \in {"naming", "creating"} /\ q.alone => q.e \notin has
    /\ q.phase = "creating" /\ q.alone =>
          q.name \notin AdminNames \cup {log[o].name : o \in has}
    /\ q.phase = "password" /\ log[q.e].password = 0 => log[q.e].name = q.row.name
    /\ q.phase \in {"rename", "change"} => log[q.e].password # 0

DistinctNames ==
    \A e \in HasLogin : ~TakenBut(e, login[e].name)

\* A login without a password is about to get one.
Settling ==
    \A e \in HasLogin \ unlucky :
        \/ login[e].password # 0
        \/ \E s \in Slots : request[s].phase = "password" /\ request[s].e = e

LoginInv ==
    /\ HiresGetLogins
    /\ Settling
    /\ DistinctNames
    /\ \A r \in Slots : Ready(request[r], HasLogin, login)

LEMMA NoneReady == \A has, log : Ready(None, has, log) /\ None.phase = "none"
BY DEF None, Ready

\* Passwords are never unset, and a login without one keeps its name.
Steady ==
    \A e \in HasLogin :
        /\ login[e].password # 0 => login'[e].password # 0
        /\ login'[e].password = 0 => login'[e].name = login[e].name

\* Every employee is, after a step that sends r to q, as well off as before, or
\* has a login with a password, or is provisioned.
Served(r, q) ==
    \A e \in Hired' \ unlucky' :
        \/ e \in Hired \ unlucky /\ ~(request[r].phase \in Provisions /\ request[r].e = e)
        \/ q.phase \in Provisions /\ q.e = e
        \/ e \in HasLogin' /\ login'[e].password # 0
        \/ Elsewhere(r, e, Provisions)

Settled(r, q) ==
    \A e \in HasLogin' \ unlucky' :
        \/ e \in HasLogin \ unlucky /\ ~(request[r].phase = "password" /\ request[r].e = e)
        \/ q.phase = "password" /\ q.e = e
        \/ login'[e].password # 0

LEMMA FrameServed ==
    ASSUME TypeInv, LoginInv, NEW r \in Slots, NEW q, Others(r, q), Steady,
           HasLogin \subseteq HasLogin', Served(r, q), Settled(r, q)
    PROVE  HiresGetLogins' /\ Settling'
<1>1. \A s \in Slots \ {r} : /\ request'[s].phase = request[s].phase
                             /\ request[s].phase # "none" => request'[s].e = request[s].e
  BY DEF Others, Like
<1>2. request'[r] = q
  BY DEF Others
<1>3. ASSUME NEW e \in Hired' \ unlucky', ~(e \in HasLogin' /\ login'[e].password # 0)
      PROVE  \E s \in Slots : request'[s].phase \in Provisions /\ request'[s].e = e
  <2>1. CASE q.phase \in Provisions /\ q.e = e
    BY <1>2, <2>1
  <2>2. CASE Elsewhere(r, e, Provisions)
    BY <1>1, <2>2 DEF Elsewhere, Provisions
  <2>3. CASE e \in Hired \ unlucky /\ ~(request[r].phase \in Provisions /\ request[r].e = e)
    <3>1. ~Usable(e)
      BY <1>3 DEF Usable, Steady
    <3>2. Provisioning(e)
      BY <2>3, <3>1 DEF LoginInv, HiresGetLogins
    <3>3. Elsewhere(r, e, Provisions)
      BY <2>3, <3>2 DEF Provisioning, Elsewhere, Provisions
    <3> QED BY <2>2, <3>3
  <2> QED BY <1>3, <2>1, <2>2, <2>3 DEF Served
<1>4. HiresGetLogins'
  BY <1>3 DEF HiresGetLogins, Usable, Provisioning, Provisions
<1>5. ASSUME NEW e \in HasLogin' \ unlucky', login'[e].password = 0
      PROVE  \E s \in Slots : request'[s].phase = "password" /\ request'[s].e = e
  <2>1. CASE q.phase = "password" /\ q.e = e
    BY <1>2, <2>1
  <2>2. CASE e \in HasLogin \ unlucky /\ ~(request[r].phase = "password" /\ request[r].e = e)
    <3>1. login[e].password = 0
      BY <1>5, <2>2 DEF Steady
    <3>2. PICK s \in Slots : request[s].phase = "password" /\ request[s].e = e
      BY <2>2, <3>1 DEF LoginInv, Settling
    <3>3. s # r
      BY <2>2, <3>2
    <3> QED BY <1>1, <3>2, <3>3
  <2> QED BY <1>5, <2>1, <2>2 DEF Settled
<1>6. Settling'
  BY <1>5 DEF Settling
<1> QED BY <1>4, <1>6

\* Steps that write: nobody else is alone any more.
LEMMA WriteReady ==
    ASSUME TypeInv, LoginInv, NEW r \in Slots, NEW q, Others(r, q), Disturbs(r), Steady,
           HasLogin \subseteq HasLogin', Served(r, q), Settled(r, q), DistinctNames',
           Ready(q, HasLogin', login')
    PROVE  LoginInv'
<1>1. ASSUME NEW s \in Slots PROVE Ready(request'[s], HasLogin', login')
  <2>1. CASE s = r
    BY <2>1 DEF Others
  <2>2. CASE s # r
    <3>1. Like(request'[s], request[s]) /\ (request'[s].phase # "none" => ~request'[s].alone)
      BY <2>2 DEF Others, Disturbs
    <3>2. /\ Ready(request[s], HasLogin, login)
          /\ request[s].phase \in {"password", "rename", "change"} => request[s].e \in HasLogin
      BY DEF LoginInv, TypeInv, Employed, Standing
    <3> QED BY <3>1, <3>2 DEF Like, Ready, Steady
  <2> QED BY <2>1, <2>2
<1> QED BY <1>1, FrameServed DEF LoginInv

\* Steps that do not.
LEMMA QuietReady ==
    ASSUME TypeInv, LoginInv, NEW r \in Slots, NEW q \in Requests, Arrive(r, q) \/ Goto(r, q),
           Served(r, q), Settled(r, q), Ready(q, HasLogin, login)
    PROVE  LoginInv'
<1>1. Others(r, q) /\ \A s \in Slots \ {r} : request'[s] = request[s]
  BY OthersStay DEF TypeInv
<1>2. login' = login
  BY DEF Arrive, Goto, tables
<1>3. HasLogin' = HasLogin
  BY <1>2 DEF HasLogin
<1>4. HiresGetLogins' /\ Settling'
  BY <1>1, <1>2, <1>3, FrameServed DEF Steady
<1>5. DistinctNames'
  BY <1>2, <1>3 DEF LoginInv, DistinctNames, TakenBut, HasLogin
<1>6. \A s \in Slots : Ready(request'[s], HasLogin', login')
  BY <1>1, <1>2, <1>3 DEF Others, LoginInv
<1> QED BY <1>4, <1>5, <1>6 DEF LoginInv

\* A request that ends without a write, in a phase that provisions nobody.
LEMMA QuietServes ==
    ASSUME TypeInv, NEW r \in Slots, NEW q, Arrive(r, q) \/ Goto(r, q),
           request[r].phase \in Provisions => q.phase \in Provisions /\ q.e = request[r].e,
           request[r].phase = "password" => q.phase = "password"
    PROVE  Served(r, q) /\ Settled(r, q)
<1>1. UNCHANGED <<employee, login, unlucky>>
  BY DEF Arrive, Goto, tables, history
<1>2. Hired' = Hired /\ HasLogin' = HasLogin
  BY <1>1 DEF Hired, HasLogin
<1> QED BY <1>1, <1>2 DEF Served, Settled, Provisions

\* Which number seed_data finds for an employee is not in doubt.
LEMMA OneNumber ==
    ASSUME TypeOK, NEW at \in Injection(Missing, Employees \ Hired), NEW e \in Employees,
           NEW m \in NumberOf(e, at), NEW n \in NumberOf(e, at)
    PROVE  m = n
<1>1. at \in [Missing -> Employees \ Hired] /\ \A a, b \in Missing : at[a] = at[b] => a = b
  BY DEF Injection, IsInjective
<1>2. ASSUME NEW k \in NumberOf(e, at), k \notin Missing
      PROVE  e \in Hired /\ employee[e].no = k
  <2>1. \E o \in Hired : employee[o].no = k
    BY <1>2 DEF NumberOf, Missing
  <2>2. Of(k) \in Hired /\ employee[Of(k)].no = k
    BY <2>1 DEF Of
  <2> QED BY <1>2, <2>2 DEF NumberOf
<1>3. ASSUME NEW k \in NumberOf(e, at), k \in Missing PROVE at[k] = e /\ e \notin Hired
  BY <1>1, <1>3 DEF NumberOf
<1> QED BY <1>1, <1>2, <1>3

LEMMA BootReady == TypeInv /\ LoginInv /\ Restart => LoginInv'
<1> SUFFICES ASSUME TypeInv, LoginInv, Restart PROVE LoginInv'
  OBVIOUS
<1>1. \A r \in Slots : request'[r] = None
  BY DEF Restart, BootFails, BootSeeds, Boot
<1>2. \A r \in Slots : Ready(request'[r], HasLogin', login')
  BY <1>1, NoneReady
<1>3. \A e \in Employees : e \notin Provisioned => ~Provisioning(e)
  BY DEF Provisioned, Cut, Provisioning
<1>4. /\ \A e \in Hired \ (unlucky \cup Provisioned) : Usable(e)
      /\ \A e \in HasLogin \ (unlucky \cup Provisioned) : login[e].password # 0
  BY <1>3 DEF LoginInv, HiresGetLogins, Settling, Provisioning, Hired, HasLogin
<1>5. CASE BootFails
  <2>1. UNCHANGED <<employee, login>> /\ unlucky' = unlucky \cup Provisioned
    BY <1>5 DEF BootFails
  <2>2. Hired' = Hired /\ HasLogin' = HasLogin
    BY <2>1 DEF Hired, HasLogin
  <2>3. HiresGetLogins' /\ Settling'
    BY <1>4, <2>1, <2>2 DEF HiresGetLogins, Settling, Usable
  <2>4. DistinctNames'
    BY <2>1, <2>2 DEF LoginInv, DistinctNames, TakenBut, HasLogin
  <2> QED BY <1>2, <2>3, <2>4 DEF LoginInv
<1>6. ASSUME NEW at \in Injection(Missing, Employees \ Hired), BootSeeds(at) PROVE LoginInv'
  <2>1. unlucky' = (unlucky \cup Provisioned \cup Added(at)) \ Enrolled(at)
    BY <1>6 DEF BootSeeds
  <2>2. /\ Hired' = Hired \cup Added(at) /\ HasLogin' = HasLogin \cup Enrolled(at)
        /\ \A e \in Employees : e \notin Enrolled(at) => login'[e] = login[e]
    BY <1>6, BootRows
  <2>3. \A e \in Enrolled(at) : login'[e].password # 0
    <3>1. passwords \in Nat /\ \A e \in Enrolled(at) : login'[e].password = passwords + 1
      BY <1>6, BootFields DEF TypeInv, TypeOK
    <3> QED BY <3>1
  <2>4. \A e \in HasLogin : e \in Employees /\ e \notin Enrolled(at)
    BY DEF HasLogin, Enrolled
  <2>5. HiresGetLogins' /\ Settling'
    BY <1>4, <2>1, <2>2, <2>3, <2>4 DEF HiresGetLogins, Settling, Usable
  \* Names: those of new logins are free, and of different numbers.
  <2>6. ASSUME NEW e \in Enrolled(at)
        PROVE  /\ e \in Employees /\ TheNumber(e, at) \in NumberOf(e, at)
               /\ login'[e].name = <<TheNumber(e, at), 1>> /\ ~Taken(login'[e].name)
    <3>1. PICK n \in NumberOf(e, at) : ~Taken(<<n, 1>>)
      BY DEF Enrolled
    <3>2. e \in Employees /\ TheNumber(e, at) \in NumberOf(e, at)
      BY SeedFacts DEF TypeInv, Enrolled
    <3>3. TheNumber(e, at) = n
      BY <3>1, <3>2, OneNumber DEF TypeInv
    <3>4. login'[e].name = <<TheNumber(e, at), 1>>
      BY <1>6, BootFields
    <3> QED BY <3>1, <3>2, <3>3, <3>4
  <2>7. ASSUME NEW e \in Enrolled(at), NEW o \in Enrolled(at), e # o
        PROVE  login'[e].name # login'[o].name
    <3>1. TheNumber(e, at) # TheNumber(o, at)
      BY <2>6, <2>7 DEF NumberOf
    <3> QED BY <2>6, <3>1
  <2>8. ASSUME NEW e \in HasLogin', NEW o \in HasLogin', e # o
        PROVE  login'[e].name # login'[o].name /\ login'[e].name \notin AdminNames
    <3>1. \A x \in HasLogin : login'[x] = login[x]
      BY <2>2, <2>4
    <3>2. \A x \in Enrolled(at) : \A y \in HasLogin : login'[x].name # login[y].name
      BY <2>6 DEF Taken
    <3>3. \A x \in Enrolled(at) : login'[x].name \notin AdminNames
      BY <2>6 DEF Taken
    <3>4. \A x, y \in HasLogin : x # y => login[x].name # login[y].name
      BY DEF LoginInv, DistinctNames, TakenBut
    <3>5. \A x \in HasLogin : login[x].name \notin AdminNames
      BY DEF LoginInv, DistinctNames, TakenBut
    <3> QED BY <2>2, <2>7, <2>8, <3>1, <3>2, <3>3, <3>4, <3>5
  <2>9. \A e \in HasLogin' : login'[e].name \notin AdminNames
    <3>1. \A x \in HasLogin : login'[x] = login[x] /\ login[x].name \notin AdminNames
      BY <2>2, <2>4 DEF LoginInv, DistinctNames, TakenBut
    <3> QED BY <2>2, <2>6, <3>1 DEF Taken
  <2>10. DistinctNames'
    BY <2>8, <2>9 DEF DistinctNames, TakenBut
  <2> QED BY <1>2, <2>5, <2>10 DEF LoginInv
<1> QED BY <1>5, <1>6 DEF Restart

\* The steps of _provision_employee_account.
LEMMA NamingReady ==
    ASSUME TypeInv, LoginInv, NEW r \in Slots, Provision(r) \/ TryName(r)
    PROVE  LoginInv'
<1> DEFINE q == request[r]
           p == [phase |-> "naming", e |-> q.e, name |-> <<employee[q.e].no, 1>>,
                 alone |-> q.alone]
           another == [q EXCEPT !.name = <<@[1], @[2] + 1>>]
           found == [q EXCEPT !.phase = "creating"]
<1>1. q \in Requests /\ q.phase \in {"provision", "naming"} /\ q.e \in Hired
  BY DEF Provision, TryName, In, TypeInv, TypeOK, Employed, Standing
<1>2. CASE Provision(r)
  <2>1. q.e \in Employees /\ q.alone \in BOOLEAN /\ employee[q.e] \in EmployeeRows
    BY <1>1, RequestFields DEF Hired, TypeInv, TypeOK
  <2>2. p \in Requests
    BY <2>1, NamesType DEF EmployeeRows, Suffixes, Requests
  <2>3. q.phase = "provision"
    BY <1>2 DEF Provision, In
  <2>4. CASE q.e \notin HasLogin
    <3>1. Goto(r, p)
      BY <1>2, <2>4 DEF Provision
    <3>2. Served(r, p) /\ Settled(r, p)
      BY <2>3, <3>1, QuietServes DEF Provisions
    <3>3. Ready(p, HasLogin, login)
      BY <2>4 DEF Ready
    <3> QED BY <2>2, <3>1, <3>2, <3>3, QuietReady
  <2>5. CASE q.e \in HasLogin
    <3>1. Goto(r, None)
      BY <1>2, <2>5 DEF Provision
    <3>2. UNCHANGED <<employee, login, unlucky>>
      BY <3>1 DEF Goto, tables, history
    <3>3. Hired' = Hired /\ HasLogin' = HasLogin
      BY <3>2 DEF Hired, HasLogin
    <3>4. \/ q.e \in unlucky \/ login[q.e].password # 0
          \/ Elsewhere(r, q.e, Provisions)
      BY <2>3, <2>5 DEF LoginInv, Settling, Elsewhere, Provisions
    <3>5. Served(r, None) /\ Settled(r, None)
      BY <2>3, <2>5, <3>2, <3>3, <3>4 DEF Served, Settled
    <3> QED BY <3>1, <3>5, NoneReady, NoneStands, QuietReady
  <2> QED BY <2>4, <2>5
<1>3. CASE TryName(r)
  <2>1. q.phase = "naming"
    BY <1>3 DEF TryName, In
  <2>2. q \in [phase: {"naming", "creating"}, e: Employees, name: Names, alone: BOOLEAN]
    BY <1>1, <2>1 DEF Requests, None
  <2>3. <<q.name[1], q.name[2] + 1>> \in Names
    BY <2>2 DEF Names, Suffixes
  <2>4. /\ another \in Requests /\ another.phase = "naming" /\ another.e = q.e
        /\ another.alone = q.alone
    BY <2>1, <2>2, <2>3 DEF Requests
  <2>5. /\ found \in Requests /\ found.phase = "creating" /\ found.e = q.e
        /\ found.alone = q.alone /\ found.name = q.name
    BY <2>2 DEF Requests
  <2>6. Ready(q, HasLogin, login)
    BY DEF LoginInv
  <2>7. CASE Taken(q.name)
    <3>1. Goto(r, another)
      BY <1>3, <2>7 DEF TryName
    <3> HIDE DEF another
    <3>2. Served(r, another) /\ Settled(r, another)
      BY <2>1, <2>4, <3>1, QuietServes DEF Provisions
    <3>3. Ready(another, HasLogin, login)
      BY <2>1, <2>4, <2>6 DEF Ready
    <3> QED BY <2>4, <3>1, <3>2, <3>3, QuietReady
  <2>8. CASE ~Taken(q.name)
    <3>1. Goto(r, found)
      BY <1>3, <2>8 DEF TryName
    <3> HIDE DEF found
    <3>2. Served(r, found) /\ Settled(r, found)
      BY <2>1, <2>5, <3>1, QuietServes DEF Provisions
    <3>3. Ready(found, HasLogin, login)
      BY <2>1, <2>5, <2>6, <2>8 DEF Ready, Taken
    <3> QED BY <2>5, <3>1, <3>2, <3>3, QuietReady
  <2> QED BY <2>7, <2>8
<1> QED BY <1>2, <1>3

LEMMA CreateReady ==
    ASSUME TypeInv, LoginInv, NEW r \in Slots, CreateLogin(r)
    PROVE  LoginInv'
<1> DEFINE q == request[r]
           row == [name |-> q.name, password |-> 0, active |-> TRUE]
           p == [phase |-> "password", e |-> q.e, row |-> row, alone |-> q.alone]
<1>1. q \in Requests /\ q.phase = "creating"
  BY DEF CreateLogin, In, TypeInv, TypeOK
<1>2. q.e \in Employees /\ q.name \in Names /\ q.alone \in BOOLEAN
  BY <1>1, RequestFields
<1>3. q.alone => q.e \notin HasLogin /\ ~Taken(q.name)
  BY <1>1 DEF LoginInv, Ready, Taken
<1>4. CASE Taken(q.name) \/ q.e \in HasLogin
  <2>1. /\ request' = [request EXCEPT ![r] = None]
        /\ UNCHANGED <<employee, login>> /\ unlucky' = unlucky \cup {q.e}
    BY <1>3, <1>4 DEF CreateLogin, tables
  <2>2. Hired' = Hired /\ HasLogin' = HasLogin
    BY <2>1 DEF Hired, HasLogin
  <2>3. Others(r, None)
    BY <2>1, NoneStands DEF TypeInv, TypeOK, Others, Like
  <2>4. Steady /\ Served(r, None) /\ Settled(r, None)
    BY <2>1, <2>2 DEF Steady, Served, Settled
  <2>5. HiresGetLogins' /\ Settling'
    BY <2>2, <2>3, <2>4, FrameServed
  <2>6. DistinctNames'
    BY <2>1, <2>2 DEF LoginInv, DistinctNames, TakenBut, HasLogin
  <2>7. \A s \in Slots : Ready(request'[s], HasLogin', login')
    BY <2>1, <2>2, NoneReady DEF LoginInv, TypeInv, TypeOK
  <2> QED BY <2>5, <2>6, <2>7 DEF LoginInv
<1>5. CASE ~(Taken(q.name) \/ q.e \in HasLogin)
  <2>1. row \in Logins /\ p \in Requests /\ row.name = q.name
    BY <1>2 DEF Logins, Requests
  <2>2. login' = [login EXCEPT ![q.e] = row] /\ employee' = employee /\ unlucky' = unlucky
    BY <1>5 DEF CreateLogin
  <2>3. Others(r, p) /\ Disturbs(r)
    BY <1>5, <2>1, OthersWrote DEF CreateLogin, Wrote, TypeInv
  <2>4. p.phase = "password" /\ p.e = q.e /\ p.row = row
    OBVIOUS
  <2> HIDE DEF p, row
  <2>5. HasLogin' = HasLogin \cup {q.e} /\ Hired' = Hired
    BY <1>2, <2>1, <2>2, LoginsGrow DEF TypeInv, Hired
  <2>6. login'[q.e] = row /\ \A e \in Employees \ {q.e} : login'[e] = login[e]
    BY <1>2, <2>2 DEF TypeInv, TypeOK
  <2>7. \A e \in HasLogin : e \in Employees /\ e # q.e
    BY <1>5 DEF HasLogin
  <2>8. Steady
    BY <2>6, <2>7 DEF Steady
  <2>9. Served(r, p) /\ Settled(r, p)
    BY <1>1, <2>2, <2>4, <2>5 DEF Served, Settled, Provisions
  <2>10. Ready(p, HasLogin', login')
    BY <2>4, <2>6 DEF Ready
  <2>11. DistinctNames'
    <3>1. \A x \in HasLogin : login[x].name # q.name /\ login[x].name \notin AdminNames
      BY <1>5 DEF LoginInv, DistinctNames, TakenBut, Taken
    <3>2. q.name \notin AdminNames
      BY <1>5 DEF Taken
    <3>3. \A x, y \in HasLogin : x # y => login[x].name # login[y].name
      BY DEF LoginInv, DistinctNames, TakenBut
    <3> QED BY <2>1, <2>5, <2>6, <2>7, <3>1, <3>2, <3>3 DEF DistinctNames, TakenBut
  <2> QED BY <2>3, <2>5, <2>8, <2>9, <2>10, <2>11, WriteReady
<1> QED BY <1>4, <1>5

\* A row put over the login of an employee who has one.
LEMMA LoginsStand ==
    ASSUME TypeOK, NEW e \in HasLogin, NEW row \in Logins,
           login' = [login EXCEPT ![e] = row]
    PROVE  HasLogin' = HasLogin
<1>1. e \in Employees
  BY DEF HasLogin
<1>2. HasLogin' = HasLogin \cup {e}
  BY <1>1, LoginsGrow
<1> QED BY <1>2

LEMMA PasswordReady ==
    ASSUME TypeInv, LoginInv, NEW r \in Slots, SavePassword(r)
    PROVE  LoginInv'
<1> DEFINE q == request[r]
           row == [q.row EXCEPT !.password = passwords + 1]
<1>1. q \in Requests /\ q.phase \in {"password", "reset"} /\ q.e \in HasLogin
  BY DEF SavePassword, In, TypeInv, TypeOK, Employed, Standing
<1>2. q.e \in Employees /\ q.row \in Logins
  BY <1>1, RequestFields
<1>3. \A x \in HasLogin : x \in Employees /\ login[x].name \notin AdminNames
  BY DEF LoginInv, DistinctNames, TakenBut, HasLogin
<1>4. \A x, y \in HasLogin : x # y => login[x].name # login[y].name
  BY DEF LoginInv, DistinctNames, TakenBut
<1>5. CASE TakenBut(q.e, q.row.name)
  <2>1. Goto(r, None)
    BY <1>5 DEF SavePassword
  <2>2. UNCHANGED <<employee, login, unlucky>>
    BY <2>1 DEF Goto, tables, history
  <2>3. Hired' = Hired /\ HasLogin' = HasLogin
    BY <2>2 DEF Hired, HasLogin
  <2>4. q.phase = "password" => login[q.e].password # 0
    BY <1>1, <1>5 DEF LoginInv, Ready, DistinctNames
  <2>5. Served(r, None) /\ Settled(r, None)
    BY <1>1, <2>2, <2>3, <2>4 DEF Served, Settled, Provisions
  <2> QED BY <2>1, <2>5, NoneReady, NoneStands, QuietReady
<1>6. CASE ~TakenBut(q.e, q.row.name)
  <2>1. /\ login' = [login EXCEPT ![q.e] = row] /\ employee' = employee
        /\ unlucky' = unlucky \ {q.e}
    BY <1>6 DEF SavePassword
  <2>2. Others(r, None) /\ Disturbs(r)
    BY <1>6, NoneStands, OthersWrote DEF SavePassword, Wrote, TypeInv
  <2>3. row \in Logins /\ row.name = q.row.name /\ row.password # 0
    BY <1>2 DEF Logins, TypeInv, TypeOK
  <2> HIDE DEF row
  <2>4. HasLogin' = HasLogin /\ Hired' = Hired
    BY <1>1, <1>2, <2>1, <2>3, LoginsStand DEF TypeInv, Hired
  <2>5. login'[q.e] = row /\ \A e \in Employees \ {q.e} : login'[e] = login[e]
    BY <1>2, <2>1 DEF TypeInv, TypeOK
  <2>6. Steady
    BY <1>3, <2>3, <2>5 DEF Steady
  <2>7. Served(r, None) /\ Settled(r, None)
    BY <1>1, <2>1, <2>3, <2>4, <2>5 DEF Served, Settled
  <2>8. DistinctNames'
    <3>1. \A x \in HasLogin \ {q.e} : login[x].name # q.row.name
      BY <1>6 DEF TakenBut
    <3>2. q.row.name \notin AdminNames
      BY <1>6 DEF TakenBut
    <3> QED BY <1>3, <1>4, <2>3, <2>4, <2>5, <3>1, <3>2 DEF DistinctNames, TakenBut
  <2> QED BY <2>2, <2>4, <2>6, <2>7, <2>8, NoneReady, WriteReady
<1> QED BY <1>5, <1>6

LEMMA EmployeeReady ==
    ASSUME TypeInv, LoginInv, NEW r \in Slots, SaveEmployee(r) \/ SwitchEmployee(r)
    PROVE  LoginInv'
<1> DEFINE q == request[r]
<1>1. ASSUME NEW to \in Requests, NEW e \in Employees, Others(r, to), Disturbs(r),
             UNCHANGED <<login, unlucky>>, Hired' \subseteq Hired \cup {e},
             e \in Hired \/ (to.phase = "provision" /\ to.e = e),
             q.phase \notin Provisions, to.phase \in {"none", "provision", "login"}
      PROVE  LoginInv'
  <2>1. HasLogin' = HasLogin
    BY <1>1 DEF HasLogin
  <2>2. Steady
    BY <1>1 DEF Steady
  <2>3. Served(r, to) /\ Settled(r, to)
    BY <1>1, <2>1 DEF Served, Settled, Provisions
  <2>4. DistinctNames'
    BY <1>1, <2>1 DEF LoginInv, DistinctNames, TakenBut
  <2>5. Ready(to, HasLogin', login')
    BY <1>1 DEF Ready
  <2> QED BY <1>1, <2>1, <2>2, <2>3, <2>4, <2>5, WriteReady
<1>2. CASE SaveEmployee(r)
  <2> DEFINE p == [phase |-> "provision", e |-> q.e, alone |-> q.alone]
             next == IF q.phase = "hire" THEN p ELSE None
  <2>1. q \in Requests /\ q.phase \in {"hire", "edit"}
    BY <1>2 DEF SaveEmployee, In, TypeInv, TypeOK
  <2>2. q.e \in Employees /\ q.row \in EmployeeRows /\ q.alone \in BOOLEAN
    BY <2>1, RequestFields, AccountsAssumption
  <2>3. q.phase = "edit" => q.e \in Hired
    BY DEF TypeInv, Employed, Standing
  <2>4. /\ next \in Requests /\ next.phase \in {"none", "provision"}
        /\ q.e \in Hired \/ (next.phase = "provision" /\ next.e = q.e)
    BY <2>1, <2>2, <2>3, NoneStands, NoneReady DEF Requests
  <2>5. CASE Unique(q.e, q.row)
    <3>1. employee' = [employee EXCEPT ![q.e] = q.row] /\ UNCHANGED <<login, unlucky>>
      BY <1>2, <2>5 DEF SaveEmployee
    <3>2. Others(r, next) /\ Disturbs(r)
      BY <1>2, <2>4, <2>5, OthersWrote DEF SaveEmployee, Wrote, TypeInv
    <3>3. Hired' = Hired \cup {q.e}
      BY <2>2, <3>1, HiredGrows DEF TypeInv
    <3> HIDE DEF next
    <3> QED BY <1>1, <2>1, <2>2, <2>4, <3>1, <3>2, <3>3 DEF Provisions
  <2>6. CASE ~Unique(q.e, q.row)
    <3>1. Goto(r, None)
      BY <1>2, <2>6 DEF SaveEmployee
    <3> QED BY <2>1, <3>1, NoneReady, NoneStands, QuietServes, QuietReady DEF Provisions
  <2> QED BY <2>5, <2>6
<1>3. CASE SwitchEmployee(r)
  <2> DEFINE p == [q EXCEPT !.phase = "login"]
  <2>1. q.phase = "switch" /\ q.e \in Hired
    BY <1>3 DEF SwitchEmployee, In, TypeInv, Employed, Standing
  <2>2. q \in [phase: {"switch", "login"}, e: Employees, active: BOOLEAN, alone: BOOLEAN]
    BY <2>1 DEF Requests, None, TypeInv, TypeOK
  <2>3. p \in Requests /\ p.phase = "login"
    BY <2>2 DEF Requests
  <2>4. Others(r, p) /\ Disturbs(r)
    BY <1>3, <2>3, OthersWrote DEF SwitchEmployee, Wrote, TypeInv
  <2>5. UNCHANGED <<login, unlucky>>
    BY <1>3 DEF SwitchEmployee, history
  <2>6. employee' = [employee EXCEPT ![q.e] = [employee[q.e] EXCEPT !.active = q.active]]
    BY <1>3 DEF SwitchEmployee
  <2>7. Hired' \subseteq Hired \cup {q.e} /\ q.e \in Employees
    BY <2>2, <2>6 DEF Hired, TypeInv, TypeOK
  <2> HIDE DEF p
  <2> QED BY <1>1, <2>1, <2>3, <2>4, <2>5, <2>7 DEF Provisions
<1> QED BY <1>2, <1>3

LEMMA LoginReady ==
    ASSUME TypeInv, LoginInv, NEW r \in Slots, SwitchLogin(r) \/ SaveName(r) \/ SaveChange(r)
    PROVE  LoginInv'
<1> DEFINE q == request[r]
<1>1. q \in Requests /\ q.phase \in {"login", "rename", "change"} /\ q.e \in Employees
  <2>1. q \in Requests /\ q.phase \in {"login", "rename", "change"}
    BY DEF SwitchLogin, SaveName, SaveChange, In, TypeInv, TypeOK
  <2> QED BY <2>1, RequestFields
<1>2. q.phase \in {"rename", "change"} => q.e \in HasLogin /\ login[q.e].password # 0
  BY DEF TypeInv, Employed, Standing, LoginInv, Ready
<1>3. \A x \in HasLogin : x \in Employees /\ login[x] \in Logins
  BY DEF HasLogin, TypeInv, TypeOK
<1>4. \A x \in HasLogin : login[x].name \notin AdminNames
  BY DEF LoginInv, DistinctNames, TakenBut
<1>5. \A x, y \in HasLogin : x # y => login[x].name # login[y].name
  BY DEF LoginInv, DistinctNames, TakenBut
<1>6. ASSUME Others(r, None), Disturbs(r), UNCHANGED <<employee, unlucky>>,
             HasLogin' = HasLogin, Steady, DistinctNames'
      PROVE  LoginInv'
  <2>1. Hired' = Hired
    BY <1>6 DEF Hired
  <2>2. Served(r, None) /\ Settled(r, None)
    BY <1>1, <1>6, <2>1 DEF Served, Settled, Provisions
  <2> QED BY <1>6, <2>2, NoneReady, WriteReady
<1>7. ASSUME HasLogin' = HasLogin, \A x \in HasLogin : login'[x].name = login[x].name
      PROVE  DistinctNames'
  BY <1>4, <1>5, <1>7 DEF DistinctNames, TakenBut
<1>8. CASE SwitchLogin(r)
  <2>1. Others(r, None) /\ Disturbs(r)
    BY <1>8, NoneStands, OthersWrote DEF SwitchLogin, Wrote, TypeInv
  <2>2. UNCHANGED <<employee, unlucky>>
    BY <1>8 DEF SwitchLogin
  <2>3. /\ q.e \in HasLogin =>
              login' = [login EXCEPT ![q.e] = [login[q.e] EXCEPT !.active = q.active]]
        /\ q.e \notin HasLogin => login' = login
    BY <1>8 DEF SwitchLogin
  <2>4. \A x \in HasLogin : login'[x].name = login[x].name /\ login'[x].password = login[x].password
    BY <1>3, <2>3 DEF Logins, TypeInv, TypeOK
  <2>5. HasLogin' = HasLogin
    <3>1. CASE q.e \in HasLogin
      <4> DEFINE row == [login[q.e] EXCEPT !.active = q.active]
      <4>1. row \in Logins
        BY <1>1, <1>3, <1>8, <3>1, RequestFields DEF SwitchLogin, In, Logins
      <4>2. login' = [login EXCEPT ![q.e] = row]
        BY <2>3, <3>1
      <4> HIDE DEF row
      <4> QED BY <1>1, <3>1, <4>1, <4>2, LoginsStand DEF TypeInv
    <3>2. CASE q.e \notin HasLogin
      BY <2>3, <3>2 DEF HasLogin
    <3> QED BY <3>1, <3>2
  <2>6. Steady
    BY <2>4 DEF Steady
  <2> QED BY <1>6, <1>7, <2>1, <2>2, <2>4, <2>5, <2>6
<1>9. CASE SaveName(r)
  <2>1. q.phase = "rename" /\ q.e \in HasLogin /\ login[q.e].password # 0 /\ q.name \in Names
    BY <1>1, <1>2, <1>9, RequestFields, NamesType DEF SaveName, In
  <2>2. CASE TakenBut(q.e, q.name)
    <3>1. Goto(r, None)
      BY <1>9, <2>2 DEF SaveName
    <3> QED BY <2>1, <3>1, NoneReady, NoneStands, QuietServes, QuietReady DEF Provisions
  <2>3. CASE ~TakenBut(q.e, q.name)
    <3> DEFINE row == [login[q.e] EXCEPT !.name = q.name]
    <3>1. login' = [login EXCEPT ![q.e] = row] /\ UNCHANGED <<employee, unlucky>>
      BY <1>9, <2>3 DEF SaveName, history
    <3>2. row \in Logins /\ row.name = q.name /\ row.password = login[q.e].password
      BY <1>3, <2>1 DEF Logins
    <3>3. Others(r, None) /\ Disturbs(r)
      BY <1>9, <2>3, NoneStands, OthersWrote DEF SaveName, Wrote, TypeInv
    <3> HIDE DEF row
    <3>4. HasLogin' = HasLogin
      BY <1>1, <2>1, <3>1, <3>2, LoginsStand DEF TypeInv
    <3>5. login'[q.e] = row /\ \A e \in Employees \ {q.e} : login'[e] = login[e]
      BY <1>1, <3>1 DEF TypeInv, TypeOK
    <3>6. Steady
      BY <1>3, <2>1, <3>2, <3>5 DEF Steady
    <3>7. DistinctNames'
      <4>1. \A x \in HasLogin \ {q.e} : login[x].name # q.name
        BY <2>3 DEF TakenBut
      <4>2. q.name \notin AdminNames
        BY <2>3 DEF TakenBut
      <4> QED BY <1>3, <1>4, <1>5, <3>2, <3>4, <3>5, <4>1, <4>2 DEF DistinctNames, TakenBut
    <3> QED BY <1>6, <3>1, <3>3, <3>4, <3>6, <3>7
  <2> QED BY <2>2, <2>3
<1>10. CASE SaveChange(r)
  <2> DEFINE row == [login[q.e] EXCEPT !.password = passwords + 1]
  <2>1. q.e \in HasLogin
    BY <1>2, <1>10 DEF SaveChange, In
  <2>2. login' = [login EXCEPT ![q.e] = row] /\ UNCHANGED <<employee, unlucky>>
    BY <1>10 DEF SaveChange, history
  <2>3. row \in Logins /\ row.name = login[q.e].name /\ row.password # 0
    BY <1>3, <2>1 DEF Logins, TypeInv, TypeOK
  <2>4. request' = [s \in Slots |-> IF s = r THEN None
                                    ELSE IF request[s] = None THEN None
                                    ELSE [request[s] EXCEPT !.alone = FALSE]]
    BY <1>10 DEF SaveChange
  <2>5. Others(r, None) /\ Disturbs(r)
    BY <2>4, NoneStands, OthersWrote DEF TypeInv
  <2> HIDE DEF row
  <2>6. HasLogin' = HasLogin
    BY <1>1, <2>1, <2>2, <2>3, LoginsStand DEF TypeInv
  <2>7. login'[q.e] = row /\ \A e \in Employees \ {q.e} : login'[e] = login[e]
    BY <1>1, <2>2 DEF TypeInv, TypeOK
  <2>8. \A x \in HasLogin : login'[x].name = login[x].name
    BY <1>3, <2>3, <2>7
  <2>9. Steady
    BY <1>3, <2>3, <2>7 DEF Steady
  <2> QED BY <1>6, <1>7, <2>2, <2>5, <2>6, <2>8, <2>9
<1> QED BY <1>8, <1>9, <1>10

LEMMA PostReady ==
    ASSUME TypeInv, LoginInv, NEW r \in Slots, NEW e \in Employees,
           \/ \E form \in Forms : PostHire(r, e, form) \/ PostEdit(r, e, form)
           \/ \E active \in BOOLEAN : PostSwitch(r, e, active)
           \/ \E name \in Choices : PostRename(r, e, name)
           \/ PostCreate(r, e) \/ PostReset(r, e) \/ PostChange(r, e)
    PROVE  LoginInv'
<1>1. ASSUME NEW q \in Requests, Arrive(r, q), Ready(q, HasLogin, login) PROVE LoginInv'
  <2>1. request[r].phase = "none"
    BY <1>1, NoneReady DEF Arrive
  <2> QED BY <1>1, <2>1, QuietServes, QuietReady DEF Provisions
<1>2. ASSUME NEW form \in Forms, PostHire(r, e, form) \/ PostEdit(r, e, form) PROVE LoginInv'
  BY <1>1, <1>2 DEF PostHire, PostEdit, Requests, Ready
<1>3. ASSUME NEW active \in BOOLEAN, PostSwitch(r, e, active) PROVE LoginInv'
  BY <1>1, <1>3 DEF PostSwitch, Requests, Ready
<1>4. ASSUME NEW name \in Choices, PostRename(r, e, name) PROVE LoginInv'
  <2> DEFINE q == [phase |-> "rename", e |-> e, row |-> login[e], name |-> name, alone |-> TRUE]
  <2>1. login[e] \in Logins /\ login[e].password # 0
    BY <1>4 DEF PostRename, SignedIn, Usable, HasLogin, TypeInv, TypeOK
  <2>2. q \in Requests /\ Ready(q, HasLogin, login)
    BY <2>1 DEF Requests, Ready
  <2> QED BY <1>1, <1>4, <2>2 DEF PostRename
<1>5. CASE PostCreate(r, e)
  BY <1>1, <1>5 DEF PostCreate, Requests, Ready
<1>6. CASE PostReset(r, e)
  <2> DEFINE q == [phase |-> "reset", e |-> e, row |-> login[e], alone |-> TRUE]
  <2>1. login[e] \in Logins
    BY <1>6 DEF PostReset, HasLogin, TypeInv, TypeOK
  <2>2. q \in Requests /\ Ready(q, HasLogin, login)
    BY <2>1 DEF Requests, Ready
  <2> QED BY <1>1, <1>6, <2>2 DEF PostReset
<1>7. CASE PostChange(r, e)
  <2> DEFINE q == [phase |-> "change", e |-> e, alone |-> TRUE]
  <2>1. login[e].password # 0
    BY <1>7 DEF PostChange, SignedIn, Usable
  <2>2. q \in Requests /\ Ready(q, HasLogin, login)
    BY <2>1 DEF Requests, Ready
  <2> QED BY <1>1, <1>7, <2>2 DEF PostChange
<1> QED BY <1>2, <1>3, <1>4, <1>5, <1>6, <1>7

LEMMA NextReady == TypeInv /\ LoginInv /\ [Next]_vars => LoginInv'
<1> SUFFICES ASSUME TypeInv, LoginInv, [Next]_vars PROVE LoginInv'
  OBVIOUS
<1>1. ASSUME UNCHANGED <<employee, login, request, unlucky>> PROVE LoginInv'
  <2>1. Hired' = Hired /\ HasLogin' = HasLogin
    BY <1>1 DEF Hired, HasLogin
  <2>2. HiresGetLogins'
    BY <1>1, <2>1 DEF LoginInv, HiresGetLogins, Usable, Provisioning
  <2>3. Settling' /\ DistinctNames'
    BY <1>1, <2>1 DEF LoginInv, Settling, DistinctNames, TakenBut
  <2> QED BY <1>1, <2>1, <2>2, <2>3 DEF LoginInv
<1>2. CASE UNCHANGED vars
  BY <1>1, <1>2 DEF vars
<1>3. ASSUME NEW e \in Employees, SignIn(e) PROVE LoginInv'
  BY <1>1, <1>3 DEF SignIn, history
<1>4. ASSUME NEW r \in Slots,
             \/ SaveEmployee(r) \/ Provision(r) \/ TryName(r) \/ CreateLogin(r)
             \/ SavePassword(r) \/ SwitchEmployee(r) \/ SwitchLogin(r) \/ SaveName(r)
             \/ SaveChange(r)
      PROVE  LoginInv'
  BY <1>4, EmployeeReady, NamingReady, CreateReady, PasswordReady, LoginReady
<1> QED BY <1>2, <1>3, <1>4, BootReady, PostReady DEF Next

\* Every employee gets a login with a password, or is about to, whatever names
\* others have taken: only an overlapping write, a restart or seed_data itself
\* leaves somebody without one.
THEOREM HiresAlwaysGetLogins == Spec => []HiresGetLogins
<1>1. Init => LoginInv
  <2> SUFFICES ASSUME Init PROVE LoginInv
    OBVIOUS
  <2>1. \A r \in Slots : request[r] = None
    BY DEF Init
  <2>2. PICK at \in Injection(SeedNumbers, Employees) :
          employee = [e \in Employees |->
                 IF \E n \in SeedNumbers : at[n] = e
                 THEN LET n == CHOOSE m \in SeedNumbers : at[m] = e
                      IN  [no |-> n, bio |-> SeedBio[n], active |-> TRUE]
                 ELSE NotHired]
    BY DEF Init
  <2>3. \A e \in Employees : login[e] = IF employee[e] = NotHired THEN NoLogin
          ELSE [name |-> <<employee[e].no, 1>>, password |-> 1, active |-> TRUE]
    BY DEF Init
  <2>4. ASSUME NEW e \in Hired
        PROVE  employee[e].no \in SeedNumbers /\ at[employee[e].no] = e
    <3> DEFINE n == CHOOSE m \in SeedNumbers : at[m] = e
    <3>1. \E m \in SeedNumbers : at[m] = e
      BY <2>2 DEF Hired
    <3>2. n \in SeedNumbers /\ at[n] = e
      BY <3>1
    <3>3. employee[e] = [no |-> n, bio |-> SeedBio[n], active |-> TRUE]
      BY <2>2, <3>1 DEF Hired
    <3> HIDE DEF n
    <3>4. employee[e].no = n
      BY <3>3
    <3> QED BY <3>2, <3>4
  <2>5. ASSUME NEW e \in Hired
        PROVE  /\ login[e].name = <<employee[e].no, 1>> /\ login[e].password = 1
               /\ e \in HasLogin
    <3> DEFINE name == <<employee[e].no, 1>>
    <3>1. login[e] = [name |-> name, password |-> 1, active |-> TRUE]
      BY <2>3 DEF Hired
    <3>2. name \in Names
      BY <2>4, NamesType, AccountsAssumption DEF Suffixes
    <3> HIDE DEF name
    <3>3. login[e] \in Logins
      BY <3>1, <3>2 DEF Logins
    <3>4. login[e].name = name /\ login[e].password = 1 /\ e \in HasLogin
      BY <3>1, <3>3, NotRows DEF HasLogin, Hired
    <3> QED BY <3>4 DEF name
  <2>6. HasLogin \subseteq Hired
    BY <2>3 DEF HasLogin, Hired
  <2>7. HiresGetLogins /\ Settling
    BY <2>5, <2>6 DEF HiresGetLogins, Usable, Settling
  <2>8. DistinctNames
    <3>1. ASSUME NEW e \in HasLogin PROVE login[e].name \notin AdminNames
      BY <2>4, <2>5, <2>6, AccountsAssumption
    <3>2. ASSUME NEW e \in HasLogin, NEW o \in HasLogin, e # o
          PROVE  login[e].name # login[o].name
      <4>1. employee[e].no # employee[o].no
        BY <2>4, <2>6, <3>2
      <4> QED BY <2>5, <2>6, <4>1
    <3> QED BY <3>1, <3>2 DEF DistinctNames, TakenBut
  <2> QED BY <2>1, <2>7, <2>8, NoneReady DEF LoginInv
<1>2. LoginInv => HiresGetLogins
  BY DEF LoginInv
<1> QED BY <1>1, <1>2, InitType, NextType, NextReady, PTL DEF Spec
=============================================================================
