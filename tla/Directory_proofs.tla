--------------------------- MODULE Directory_proofs ---------------------------
(***************************************************************************)
(* Proofs about Directory, for any sets of users, roles, names and         *)
(* requests, and any token life, login delay and clock bound.              *)
(***************************************************************************)
EXTENDS Directory, TLAPS

(* The tables, tokens, clock and requests; the rest of TypeOK is history.  *)
CoreType ==
  /\ user \in [User -> RowState]
  /\ role \in [Role -> [row : RowState, name : Name]]
  /\ holds \in [User -> SUBSET Role]
  /\ token \subseteq Token
  /\ now \in Nat
  /\ call \in [Call -> Request]
  /\ granted \in [User -> SUBSET Role]

HistoryType ==
  /\ lastLive \in [User -> Nat \cup {-1}]
  /\ lastHeld \in [User -> [Role -> Nat \cup {-1}]]
  /\ everNamed \in [Role -> SUBSET Name]

LEMMA TypeParts == TypeOK <=> CoreType /\ HistoryType
  BY DEF TypeOK, CoreType, HistoryType

-----------------------------------------------------------------------------
(* The requests a handler starts are well-formed. *)

LEMMA StartType ==
  ASSUME CoreType, NEW c \in Call, NEW rec \in Request, Start(c, rec)
  PROVE  CoreType'
  BY DEF CoreType, Start, ReadOnly

LEMMA AdminStartType ==
  ASSUME CoreType, NEW c \in Call, NEW rec \in Request, AdminStart(c, rec)
  PROVE  CoreType'
<1>1. PICK t \in token : Start(c, [rec EXCEPT !.by = t.sub])
  BY DEF AdminStart
<1>2. t \in Token
  BY <1>1 DEF CoreType
<1>3. [rec EXCEPT !.by = t.sub] \in Request
  BY <1>2 DEF Token, Request, Record
<1> QED BY <1>1, <1>3, StartType

LEMMA FinishType ==
  ASSUME CoreType, NEW c \in Call, Finish(c)
  PROVE  call' \in [Call -> Request]
<1>1. call[c] \in Request
  BY DEF CoreType
<1>2. [Blank EXCEPT !.op = call[c].op, !.pc = "done", !.by = call[c].by] \in Request
  BY <1>1 DEF Request, Record, Blank, Pc, Name
<1> QED BY <1>2 DEF CoreType, Finish

LEMMA BlankType == Blank \in Request
  BY DEF Blank, Request, Record, OnUser, OnRole, Op, Pc, Name

(* What a request about to write has read is there to be written. *)
LEMMA Targets ==
  ASSUME CoreType, NEW c \in Call, Running(c)
  PROVE  /\ call[c].op \in OnUser => call[c].user \in User
         /\ call[c].op \in OnRole => call[c].role \in Role
         /\ call[c].pc = "joins" => call[c].op \in {"Login", "UpdateUser"}
         /\ call[c].snap \subseteq Role
         /\ call[c].names \subseteq Name
         /\ call[c].name \in Name
<1>1. call[c] \in Request
  BY DEF CoreType
<1> QED BY <1>1 DEF Running, Request, Record

LEMMA InitType == Init => TypeOK
<1> SUFFICES ASSUME Init PROVE TypeOK
  OBVIOUS
<1>1. user \in [User -> RowState]
  BY DEF Init, RowState
<1>2. role \in [Role -> [row : RowState, name : Name]]
  BY IdAssumption DEF Init, RowState, Name
<1>3. holds \in [User -> SUBSET Role] /\ granted \in [User -> SUBSET Role]
  BY IdAssumption DEF Init
<1>4. token \subseteq Token /\ now \in Nat /\ call \in [Call -> Request]
  BY BlankType DEF Init
<1>5. now = 0 /\ lastLive = [u \in User |-> IF LiveUser(u) THEN now ELSE -1]
      /\ lastHeld = [u \in User |-> [r \in Role |-> IF r \in holds[u] THEN now ELSE -1]]
  BY DEF Init
<1>6. lastLive \in [User -> Nat \cup {-1}] /\ lastHeld \in [User -> [Role -> Nat \cup {-1}]]
  BY <1>5
<1>7. everNamed \in [Role -> SUBSET Name]
  <2>1. everNamed = [r \in Role |-> {role[r].name}]
    BY DEF Init
  <2>2. \A r \in Role : role[r].name \in Name
    BY <1>2
  <2> QED BY <2>1, <2>2
<1> QED BY <1>1, <1>2, <1>3, <1>4, <1>6, <1>7 DEF TypeOK

-----------------------------------------------------------------------------
(* Every step of a request keeps the types. *)

LEMMA PublicType ==
  ASSUME CoreType, NEW c \in Call, PublicStep(c)
  PROVE  CoreType'
<1>1. ASSUME NEW u \in User, BeginLogin(c, u) PROVE CoreType'
  <2>1. [Blank EXCEPT !.op = "Login", !.pc = "joins", !.user = u, !.at = now] \in Request
    BY DEF CoreType, Blank, Request, Record, OnUser, OnRole, Op, AdminOp, Pc, Name
  <2> QED BY <1>1, <2>1, StartType DEF BeginLogin
<1>2. CASE IssueToken(c)
  <2>1. call' \in [Call -> Request]
    BY <1>2, FinishType DEF IssueToken
  <2>2. call[c].user \in User /\ call[c].names \subseteq Name
    <3>1. Running(c) /\ call[c].op \in OnUser
      BY <1>2 DEF IssueToken, AtWrite, Running, OnUser
    <3> QED BY <3>1, Targets
  <2>3. now + TTL \in Nat
    BY TimeAssumption DEF CoreType
  <2>4. token' = token \cup {[sub |-> call[c].user, roles |-> call[c].names, exp |-> now + TTL]}
    BY <1>2 DEF IssueToken
  <2>5. token' \subseteq Token
    BY <2>2, <2>3, <2>4 DEF CoreType, Token
  <2> QED BY <1>2, <2>1, <2>5 DEF IssueToken, CoreType
<1>3. CASE BeginRegister(c)
  <2>1. PICK r \in Role : Start(c, [Blank EXCEPT !.op = "Register", !.pc = "write", !.snap = {r}])
    BY <1>3 DEF BeginRegister
  <2>2. [Blank EXCEPT !.op = "Register", !.pc = "write", !.snap = {r}] \in Request
    BY DEF Blank, Request, Record, OnUser, OnRole, Op, Pc, Name
  <2> QED BY <2>1, <2>2, StartType
<1>4. ASSUME NEW u \in User, Register(c, u) PROVE CoreType'
  <2>1. call' \in [Call -> Request]
    BY <1>4, FinishType DEF Register
  <2>2. Running(c)
    BY <1>4 DEF Register, AtWrite, Running
  <2> QED BY <1>4, <2>1, <2>2, Targets DEF Register, CoreType, AtWrite, RowState, OnUser, OnRole
<1> QED BY <1>1, <1>2, <1>3, <1>4 DEF PublicStep

LEMMA UserType ==
  ASSUME CoreType, NEW c \in Call, UserStep(c)
  PROVE  CoreType'
<1>1. CASE BeginCreateUser(c)
  <2>1. [Blank EXCEPT !.op = "CreateUser", !.pc = "write"] \in Request
    BY DEF Blank, Request, Record, OnUser, OnRole, Op, AdminOp, Pc, Name
  <2> QED BY <1>1, <2>1, AdminStartType DEF BeginCreateUser
<1>2. ASSUME NEW u \in User, CreateUser(c, u) PROVE CoreType'
  <2>1. call' \in [Call -> Request]
    BY <1>2, FinishType DEF CreateUser
  <2>2. Running(c)
    BY <1>2 DEF CreateUser, AtWrite, Running
  <2> QED BY <1>2, <2>1, <2>2, Targets DEF CreateUser, CoreType, AtWrite, RowState, OnUser, OnRole
<1>3. ASSUME NEW u \in User, BeginUpdateUser(c, u) PROVE CoreType'
  <2>1. [Blank EXCEPT !.op = "UpdateUser", !.pc = "joins", !.user = u] \in Request
    BY DEF Blank, Request, Record, OnUser, OnRole, Op, AdminOp, Pc, Name
  <2> QED BY <1>3, <2>1, AdminStartType DEF BeginUpdateUser
<1>4. CASE UpdateUser(c)
  <2>1. call' \in [Call -> Request]
    BY <1>4, FinishType DEF UpdateUser
  <2>2. Running(c)
    BY <1>4 DEF UpdateUser, AtWrite, Running
  <2> QED BY <1>4, <2>1, <2>2, Targets DEF UpdateUser, CoreType, AtWrite, RowState, OnUser, OnRole
<1>5. ASSUME NEW u \in User, BeginDeleteUser(c, u) PROVE CoreType'
  <2>1. [Blank EXCEPT !.op = "DeleteUser", !.pc = "write", !.user = u] \in Request
    BY DEF Blank, Request, Record, OnUser, OnRole, Op, AdminOp, Pc, Name
  <2> QED BY <1>5, <2>1, AdminStartType DEF BeginDeleteUser
<1>6. CASE DeleteUser(c)
  <2>1. call' \in [Call -> Request]
    BY <1>6, FinishType DEF DeleteUser
  <2>2. Running(c)
    BY <1>6 DEF DeleteUser, AtWrite, Running
  <2> QED BY <1>6, <2>1, <2>2, Targets DEF DeleteUser, CoreType, AtWrite, RowState, OnUser, OnRole
<1> QED BY <1>1, <1>2, <1>3, <1>4, <1>5, <1>6 DEF UserStep

LEMMA RoleType ==
  ASSUME CoreType, NEW c \in Call, RoleStep(c)
  PROVE  CoreType'
<1>1. ASSUME NEW n \in RoleName, BeginCreateRole(c, n) PROVE CoreType'
  <2>1. [Blank EXCEPT !.op = "CreateRole", !.pc = "write", !.name = n] \in Request
    BY DEF Blank, Request, Record, OnUser, OnRole, Op, AdminOp, Pc, Name
  <2> QED BY <1>1, <2>1, AdminStartType DEF BeginCreateRole
<1>2. ASSUME NEW r \in Role, CreateRole(c, r) PROVE CoreType'
  <2>1. call' \in [Call -> Request]
    BY <1>2, FinishType DEF CreateRole
  <2>2. Running(c)
    BY <1>2 DEF CreateRole, AtWrite, Running
  <2> QED BY <1>2, <2>1, <2>2, Targets DEF CreateRole, CoreType, AtWrite, RowState, OnUser, OnRole
<1>3. ASSUME NEW r \in Role, NEW n \in RoleName, BeginUpdateRole(c, r, n) PROVE CoreType'
  <2>1. [Blank EXCEPT !.op = "UpdateRole", !.pc = "write", !.role = r, !.name = n] \in Request
    BY DEF Blank, Request, Record, OnUser, OnRole, Op, AdminOp, Pc, Name
  <2> QED BY <1>3, <2>1, AdminStartType DEF BeginUpdateRole
<1>4. CASE UpdateRole(c)
  <2>1. call' \in [Call -> Request]
    BY <1>4, FinishType DEF UpdateRole
  <2>2. Running(c)
    BY <1>4 DEF UpdateRole, AtWrite, Running
  <2> QED BY <1>4, <2>1, <2>2, Targets DEF UpdateRole, CoreType, AtWrite, RowState, OnUser, OnRole
<1>5. ASSUME NEW r \in Role, BeginDeleteRole(c, r) PROVE CoreType'
  <2>1. [Blank EXCEPT !.op = "DeleteRole", !.pc = "write", !.role = r] \in Request
    BY DEF Blank, Request, Record, OnUser, OnRole, Op, AdminOp, Pc, Name
  <2> QED BY <1>5, <2>1, AdminStartType DEF BeginDeleteRole
<1>6. CASE DeleteRole(c)
  <2>1. call' \in [Call -> Request]
    BY <1>6, FinishType DEF DeleteRole
  <2>2. Running(c)
    BY <1>6 DEF DeleteRole, AtWrite, Running
  <2> QED BY <1>6, <2>1, <2>2, Targets DEF DeleteRole, CoreType, AtWrite, RowState, OnUser, OnRole
<1> QED BY <1>1, <1>2, <1>3, <1>4, <1>5, <1>6 DEF RoleStep

LEMMA GrantType ==
  ASSUME CoreType, NEW c \in Call, GrantStep(c)
  PROVE  CoreType'
<1>1. ASSUME NEW op \in {"AssignUserRole", "RemoveUserRole"}, NEW u \in User, NEW r \in Role, BeginGrant(c, op, u, r) PROVE CoreType'
  <2>1. [Blank EXCEPT !.op = op, !.pc = "role", !.user = u, !.role = r] \in Request
    BY DEF Blank, Request, Record, OnUser, OnRole, Op, AdminOp, Pc, Name
  <2> QED BY <1>1, <2>1, AdminStartType DEF BeginGrant
<1>2. CASE ReadRole(c)
  <2>1. call[c] \in Request
    BY DEF CoreType
  <2>2. [call[c] EXCEPT !.pc = "write"] \in Request
    BY <1>2, <2>1 DEF ReadRole, Request, Record, Pc
  <2>3. call' = [call EXCEPT ![c] = [call[c] EXCEPT !.pc = "write"]]
    BY <1>2 DEF ReadRole
  <2> QED BY <1>2, <2>2, <2>3 DEF ReadRole, ReadOnly, CoreType
<1>3. CASE AssignUserRole(c)
  <2>1. call' \in [Call -> Request]
    BY <1>3, FinishType DEF AssignUserRole
  <2>2. Running(c)
    BY <1>3 DEF AssignUserRole, AtWrite, Running
  <2> QED BY <1>3, <2>1, <2>2, Targets DEF AssignUserRole, CoreType, AtWrite, RowState, OnUser, OnRole
<1>4. CASE RemoveUserRole(c)
  <2>1. call' \in [Call -> Request]
    BY <1>4, FinishType DEF RemoveUserRole
  <2>2. Running(c)
    BY <1>4 DEF RemoveUserRole, AtWrite, Running
  <2> QED BY <1>4, <2>1, <2>2, Targets DEF RemoveUserRole, CoreType, AtWrite, RowState, OnUser, OnRole
<1> QED BY <1>1, <1>2, <1>3, <1>4 DEF GrantStep

LEMMA ReadType ==
  ASSUME CoreType, NEW c \in Call, ReadStep(c)
  PROVE  CoreType'
<1>0. call[c] \in Request
  BY DEF CoreType
<1>1. CASE ReadJoins(c)
  <2> DEFINE rec == [call[c] EXCEPT !.pc = "roles", !.snap = holds[call[c].user]]
  <2>1. holds[call[c].user] \subseteq Role
    <3>1. Running(c) /\ call[c].op \in OnUser
      BY <1>0, <1>1 DEF ReadJoins, Running, Request, OnUser
    <3> QED BY <3>1, Targets DEF CoreType
  <2>2. rec \in Request
    BY <1>0, <1>1, <2>1 DEF ReadJoins, Request, Record, Pc
  <2>3. call' = [call EXCEPT ![c] = rec]
    BY <1>1 DEF ReadJoins
  <2> QED BY <1>1, <2>2, <2>3 DEF ReadJoins, ReadOnly, CoreType
<1>2. CASE ReadRoles(c)
  <2> DEFINE names == IF call[c].op = "Login" THEN {role[r].name : r \in Preloaded(c)} ELSE {}
             rec == [call[c] EXCEPT !.pc = "write", !.snap = Preloaded(c), !.names = names]
  <2>1. Preloaded(c) \subseteq Role
    BY <1>0 DEF Preloaded, Request, Record
  <2>2. names \subseteq Name
    BY <2>1 DEF CoreType
  <2>3. rec \in Request
    BY <1>0, <1>2, <2>1, <2>2 DEF ReadRoles, Request, Record, Pc
  <2>4. call' = [call EXCEPT ![c] = rec]
    BY <1>2 DEF ReadRoles
  <2> QED BY <1>2, <2>3, <2>4 DEF ReadRoles, ReadOnly, CoreType
<1> QED BY <1>1, <1>2 DEF ReadStep

LEMMA ObserveType ==
  ASSUME TypeOK, CoreType', Observe
  PROVE  HistoryType'
<1>1. lastLive' \in [User -> Nat \cup {-1}]
  BY DEF TypeOK, CoreType, Observe
<1>2. lastHeld' \in [User -> [Role -> Nat \cup {-1}]]
  BY DEF TypeOK, CoreType, Observe
<1>3. everNamed' \in [Role -> SUBSET Name]
  BY DEF TypeOK, CoreType, Observe
<1> QED BY <1>1, <1>2, <1>3 DEF HistoryType

LEMMA NextType == TypeOK /\ [Next]_vars => TypeOK'
<1> SUFFICES ASSUME TypeOK, [Next]_vars PROVE TypeOK'
  OBVIOUS
<1>0. CoreType
  BY TypeParts
<1>1. ASSUME NEW c \in Call, Step(c) PROVE CoreType'
  <2>1. CASE Fail(c)
    BY <1>0, <2>1, FinishType DEF Fail, ReadOnly, CoreType
  <2> QED BY <1>0, <1>1, <2>1, PublicType, UserType, RoleType, GrantType, ReadType DEF Step
<1>2. ASSUME Tick PROVE CoreType'
  BY <1>0, <1>2 DEF Tick, CoreType
<1>3. CASE UNCHANGED vars
  BY <1>3 DEF TypeOK, vars
<1>4. CASE ((\E c \in Call : Step(c)) \/ Tick) /\ Observe
  <2>1. CoreType'
    <3>1. CASE Tick
      BY <1>2, <3>1
    <3>2. CASE \E c \in Call : Step(c)
      BY <1>1, <3>2
    <3> QED BY <1>4, <3>1, <3>2
  <2>2. HistoryType'
    BY <1>4, <2>1, ObserveType
  <2> QED BY <2>1, <2>2 DEF TypeOK, CoreType, HistoryType
<1> QED BY <1>3, <1>4 DEF Next, Over

(* TypeOK holds in every state.  Among the rest it says that a request past  *)
(* its first read carries the ids its write needs.                           *)
THEOREM TypeCorrect == Spec => []TypeOK
  BY InitType, NextType, PTL DEF Spec
-----------------------------------------------------------------------------
(* What one step of a request may do to the tables. *)

UserEffect(c, u) ==
  \/ user'[u] = user[u]
  \/ user[u] = "absent" /\ user'[u] = "live"
  \/ user'[u] = "deleted"
  \/ user'[u] = "live" /\ AtWrite(c, "UpdateUser") /\ call[c].user = u

RoleEffect(c, r) ==
  \/ role'[r] = role[r]
  \/ role[r].row = "absent" /\ AtWrite(c, "CreateRole")
  \/ role'[r].row = "deleted" /\ role'[r].name = role[r].name
  \/ AtWrite(c, "UpdateRole") /\ call[c].role = r

HoldsEffect(c, u, r) ==
  r \in holds'[u] =>
    \/ r \in holds[u]
    \/ AtWrite(c, "Register") /\ user[u] = "absent" /\ r \in call[c].snap
    \/ AtWrite(c, "UpdateUser") /\ call[c].user = u /\ r \in call[c].snap
    \/ AtWrite(c, "AssignUserRole") /\ call[c].user = u /\ call[c].role = r

LEMMA UserEffects ==
  ASSUME TypeOK, NEW c \in Call, Step(c), NEW u \in User
  PROVE  UserEffect(c, u)
<1> USE DEF UserEffect, TypeOK
<1>1. CASE UNCHANGED user
  BY <1>1
<1>2. ASSUME NEW w \in User, Register(c, w) PROVE UserEffect(c, u)
  BY <1>2 DEF Register
<1>3. ASSUME NEW w \in User, CreateUser(c, w) PROVE UserEffect(c, u)
  BY <1>3 DEF CreateUser
<1>4. CASE UpdateUser(c)
  BY <1>4 DEF UpdateUser
<1>5. CASE DeleteUser(c)
  BY <1>5 DEF DeleteUser
<1>6. CASE UNCHANGED user \/ (\E w \in User : Register(c, w) \/ CreateUser(c, w))
           \/ UpdateUser(c) \/ DeleteUser(c)
  BY <1>1, <1>2, <1>3, <1>4, <1>5, <1>6
<1>7. QED
  BY <1>6 DEF Step, PublicStep, UserStep, RoleStep, GrantStep, ReadStep, Fail, ReadOnly,
     BeginLogin, IssueToken, BeginRegister, BeginCreateUser, BeginUpdateUser, BeginDeleteUser,
     BeginCreateRole, CreateRole, BeginUpdateRole, UpdateRole, BeginDeleteRole, DeleteRole,
     BeginGrant, ReadRole, AssignUserRole, RemoveUserRole, ReadJoins, ReadRoles,
     Start, AdminStart

LEMMA RoleEffects ==
  ASSUME TypeOK, NEW c \in Call, Step(c), NEW r \in Role
  PROVE  RoleEffect(c, r)
<1> USE DEF RoleEffect, TypeOK
<1>1. CASE UNCHANGED role
  BY <1>1
<1>2. ASSUME NEW q \in Role, CreateRole(c, q) PROVE RoleEffect(c, r)
  BY <1>2 DEF CreateRole
<1>3. CASE UpdateRole(c)
  BY <1>3 DEF UpdateRole
<1>4. CASE DeleteRole(c)
  BY <1>4 DEF DeleteRole
<1>5. CASE UNCHANGED role \/ (\E q \in Role : CreateRole(c, q)) \/ UpdateRole(c) \/ DeleteRole(c)
  BY <1>1, <1>2, <1>3, <1>4, <1>5
<1> QED
  BY <1>5 DEF Step, PublicStep, UserStep, RoleStep, GrantStep, ReadStep, Fail, ReadOnly,
     BeginLogin, IssueToken, BeginRegister, Register, BeginCreateUser, CreateUser,
     BeginUpdateUser, UpdateUser, BeginDeleteUser, DeleteUser, BeginCreateRole,
     BeginUpdateRole, BeginDeleteRole, BeginGrant, ReadRole, AssignUserRole,
     RemoveUserRole, ReadJoins, ReadRoles, Start, AdminStart

\* a step that gives a role, and is not an UpdateUser, records it as granted
GrantEffect(c, u, r) ==
  /\ granted[u] \subseteq granted'[u]
  /\ r \in holds'[u] =>
       r \in holds[u] \/ r \in granted'[u] \/
       (AtWrite(c, "UpdateUser") /\ call[c].user = u /\ r \in call[c].snap)

LEMMA HoldsEffects ==
  ASSUME TypeOK, NEW c \in Call, Step(c), NEW u \in User, NEW r \in Role
  PROVE  HoldsEffect(c, u, r) /\ GrantEffect(c, u, r)
<1> USE DEF HoldsEffect, GrantEffect, TypeOK
<1>1. CASE UNCHANGED <<holds, granted>>
  BY <1>1
<1>2. ASSUME NEW w \in User, Register(c, w) PROVE HoldsEffect(c, u, r) /\ GrantEffect(c, u, r)
  BY <1>2 DEF Register
<1>3. CASE UpdateUser(c)
  BY <1>3 DEF UpdateUser
<1>4. CASE AssignUserRole(c)
  BY <1>4 DEF AssignUserRole
<1>5. CASE RemoveUserRole(c)
  BY <1>5 DEF RemoveUserRole
<1>6. CASE UNCHANGED <<holds, granted>> \/ (\E w \in User : Register(c, w)) \/ UpdateUser(c)
           \/ AssignUserRole(c) \/ RemoveUserRole(c)
  BY <1>1, <1>2, <1>3, <1>4, <1>5, <1>6
<1> QED
  BY <1>6 DEF Step, PublicStep, UserStep, RoleStep, GrantStep, ReadStep, Fail, ReadOnly,
     BeginLogin, IssueToken, BeginRegister, BeginCreateUser, CreateUser, BeginUpdateUser,
     BeginDeleteUser, DeleteUser, BeginCreateRole, CreateRole, BeginUpdateRole, UpdateRole,
     BeginDeleteRole, DeleteRole, BeginGrant, ReadRole, ReadJoins, ReadRoles, Start, AdminStart

-----------------------------------------------------------------------------
(* What one step does to the request that takes it. *)

\* it begins, and what its first checks found holds now
Begun(c) ==
  /\ call[c].pc = "new"
  /\ ReadOnly
  /\ call'[c].op # "none" /\ call'[c].pc \notin {"new", "done"}
  /\ call'[c].op = "UpdateUser" => call'[c].snap = {} /\ LiveUser(call'[c].user)
  /\ call'[c].op = "UpdateRole" => LiveRole(call'[c].role)
  /\ call'[c].op \in AdminOp => \E t \in token : Authorised(t) /\ call'[c].by = t.sub
  /\ call'[c].op \notin AdminOp => call'[c].by = NoUser
  /\ call'[c].op = "Login" => /\ call'[c].pc = "joins" /\ call'[c].at = now
                              /\ LiveUser(call'[c].user)
  /\ call'[c].op = "Register" => \E r \in Role : /\ call'[c].snap = {r}
                                                 /\ role[r].name = UserName

\* it reads on
Moved(c) ==
  /\ ReadOnly
  /\ call'[c].op = call[c].op /\ call'[c].by = call[c].by /\ call'[c].at = call[c].at
  /\ call'[c].user = call[c].user /\ call'[c].role = call[c].role
  /\ \/ /\ call[c].pc = "joins" /\ call'[c].pc = "roles"
        /\ call'[c].snap = holds[call[c].user]
     \/ /\ call[c].pc = "roles" /\ call'[c].pc = "write"
        /\ call'[c].snap \subseteq call[c].snap
        /\ call'[c].names \subseteq {role[r].name : r \in call[c].snap}
     \/ /\ call[c].pc = "role" /\ call'[c].pc = "write" /\ call[c].op # "Login"
        /\ call'[c].snap = call[c].snap

CallEffect(c) == Finish(c) \/ Begun(c) \/ Moved(c)

LEMMA CallFrame ==
  ASSUME TypeOK, NEW c \in Call, Step(c), NEW d \in Call, d # c
  PROVE  call'[d] = call[d]
  BY DEF TypeOK, Step, PublicStep, UserStep, RoleStep, GrantStep, ReadStep, Fail, Finish,
     BeginLogin, IssueToken, BeginRegister, Register, BeginCreateUser, CreateUser,
     BeginUpdateUser, UpdateUser, BeginDeleteUser, DeleteUser, BeginCreateRole, CreateRole,
     BeginUpdateRole, UpdateRole, BeginDeleteRole, DeleteRole, BeginGrant, ReadRole,
     AssignUserRole, RemoveUserRole, ReadJoins, ReadRoles, Start, AdminStart

AnyBegin(c) ==
  \/ \E u \in User : BeginLogin(c, u) \/ BeginUpdateUser(c, u) \/ BeginDeleteUser(c, u)
  \/ BeginRegister(c) \/ BeginCreateUser(c)
  \/ \E n \in RoleName : BeginCreateRole(c, n)
  \/ \E r \in Role, n \in RoleName : BeginUpdateRole(c, r, n)
  \/ \E r \in Role : BeginDeleteRole(c, r)
  \/ \E op \in {"AssignUserRole", "RemoveUserRole"}, u \in User, r \in Role :
       BeginGrant(c, op, u, r)

LEMMA Begins ==
  ASSUME TypeOK, NEW c \in Call, AnyBegin(c)
  PROVE  Begun(c)
<1>0. c \in DOMAIN call
  BY DEF TypeOK
<1>1. ASSUME NEW u \in User, BeginLogin(c, u) PROVE Begun(c)
  <2>1. call'[c] = [Blank EXCEPT !.op = "Login", !.pc = "joins", !.user = u, !.at = now]
    BY <1>0, <1>1 DEF BeginLogin, Start
  <2>2. /\ call'[c].op = "Login" /\ call'[c].pc = "joins" /\ call'[c].user = u
        /\ call'[c].by = NoUser /\ call'[c].at = now
    BY <2>1 DEF Blank
  <2> QED BY <1>1, <2>2 DEF BeginLogin, Start, Begun, AdminOp, LiveUser, LiveRole
<1>2. CASE BeginRegister(c)
  <2>1. PICK r \in Role : /\ role[r].name = UserName
                          /\ Start(c, [Blank EXCEPT !.op = "Register", !.pc = "write", !.snap = {r}])
    BY <1>2 DEF BeginRegister
  <2>2. call'[c] = [Blank EXCEPT !.op = "Register", !.pc = "write", !.snap = {r}]
    BY <1>0, <2>1 DEF Start
  <2>3. /\ call'[c].op = "Register" /\ call'[c].pc = "write" /\ call'[c].by = NoUser
        /\ call'[c].snap = {r}
    BY <2>2 DEF Blank
  <2> QED BY <2>1, <2>3 DEF Start, Begun, AdminOp, LiveUser, LiveRole
<1>3. CASE BeginCreateUser(c)
  <2>1. PICK t \in token : /\ Authorised(t) /\ call[c].pc = "new" /\ ReadOnly
                          /\ call' = [call EXCEPT ![c] = [Blank EXCEPT !.op = "CreateUser", !.pc = "write", !.by = t.sub]]
    BY <1>3 DEF BeginCreateUser, AdminStart, Start, Blank
  <2>2. call'[c] = [Blank EXCEPT !.op = "CreateUser", !.pc = "write", !.by = t.sub]
    BY <1>0, <2>1
  <2>3. /\ call'[c].op = "CreateUser" /\ call'[c].pc # "new" /\ call'[c].pc # "done"
        /\ call'[c].by = t.sub
    BY <2>2 DEF Blank
  <2> QED BY <1>3, <2>1, <2>3 DEF BeginCreateUser, Begun, AdminOp, LiveUser, LiveRole
<1>4. ASSUME NEW u \in User, BeginUpdateUser(c, u) PROVE Begun(c)
  <2>1. PICK t \in token : /\ Authorised(t) /\ call[c].pc = "new" /\ ReadOnly
                          /\ call' = [call EXCEPT ![c] = [Blank EXCEPT !.op = "UpdateUser", !.pc = "joins", !.user = u, !.by = t.sub]]
    BY <1>4 DEF BeginUpdateUser, AdminStart, Start, Blank
  <2>2. call'[c] = [Blank EXCEPT !.op = "UpdateUser", !.pc = "joins", !.user = u, !.by = t.sub]
    BY <1>0, <2>1
  <2>3. /\ call'[c].op = "UpdateUser" /\ call'[c].pc # "new" /\ call'[c].pc # "done"
        /\ call'[c].by = t.sub /\ call'[c].user = u /\ call'[c].snap = {}
    BY <2>2 DEF Blank
  <2> QED BY <1>4, <2>1, <2>3 DEF BeginUpdateUser, Begun, AdminOp, LiveUser, LiveRole
<1>5. ASSUME NEW u \in User, BeginDeleteUser(c, u) PROVE Begun(c)
  <2>1. PICK t \in token : /\ Authorised(t) /\ call[c].pc = "new" /\ ReadOnly
                          /\ call' = [call EXCEPT ![c] = [Blank EXCEPT !.op = "DeleteUser", !.pc = "write", !.user = u, !.by = t.sub]]
    BY <1>5 DEF BeginDeleteUser, AdminStart, Start, Blank
  <2>2. call'[c] = [Blank EXCEPT !.op = "DeleteUser", !.pc = "write", !.user = u, !.by = t.sub]
    BY <1>0, <2>1
  <2>3. /\ call'[c].op = "DeleteUser" /\ call'[c].pc # "new" /\ call'[c].pc # "done"
        /\ call'[c].by = t.sub
    BY <2>2 DEF Blank
  <2> QED BY <1>5, <2>1, <2>3 DEF BeginDeleteUser, Begun, AdminOp, LiveUser, LiveRole
<1>6. ASSUME NEW n \in RoleName, BeginCreateRole(c, n) PROVE Begun(c)
  <2>1. PICK t \in token : /\ Authorised(t) /\ call[c].pc = "new" /\ ReadOnly
                          /\ call' = [call EXCEPT ![c] = [Blank EXCEPT !.op = "CreateRole", !.pc = "write", !.name = n, !.by = t.sub]]
    BY <1>6 DEF BeginCreateRole, AdminStart, Start, Blank
  <2>2. call'[c] = [Blank EXCEPT !.op = "CreateRole", !.pc = "write", !.name = n, !.by = t.sub]
    BY <1>0, <2>1
  <2>3. /\ call'[c].op = "CreateRole" /\ call'[c].pc # "new" /\ call'[c].pc # "done"
        /\ call'[c].by = t.sub
    BY <2>2 DEF Blank
  <2> QED BY <1>6, <2>1, <2>3 DEF BeginCreateRole, Begun, AdminOp, LiveUser, LiveRole
<1>7. ASSUME NEW r \in Role, NEW n \in RoleName, BeginUpdateRole(c, r, n) PROVE Begun(c)
  <2>1. PICK t \in token : /\ Authorised(t) /\ call[c].pc = "new" /\ ReadOnly
                          /\ call' = [call EXCEPT ![c] = [Blank EXCEPT !.op = "UpdateRole", !.pc = "write", !.role = r, !.name = n, !.by = t.sub]]
    BY <1>7 DEF BeginUpdateRole, AdminStart, Start, Blank
  <2>2. call'[c] = [Blank EXCEPT !.op = "UpdateRole", !.pc = "write", !.role = r, !.name = n, !.by = t.sub]
    BY <1>0, <2>1
  <2>3. /\ call'[c].op = "UpdateRole" /\ call'[c].pc # "new" /\ call'[c].pc # "done"
        /\ call'[c].by = t.sub /\ call'[c].role = r
    BY <2>2 DEF Blank
  <2> QED BY <1>7, <2>1, <2>3 DEF BeginUpdateRole, Begun, AdminOp, LiveUser, LiveRole
<1>8. ASSUME NEW r \in Role, BeginDeleteRole(c, r) PROVE Begun(c)
  <2>1. PICK t \in token : /\ Authorised(t) /\ call[c].pc = "new" /\ ReadOnly
                          /\ call' = [call EXCEPT ![c] = [Blank EXCEPT !.op = "DeleteRole", !.pc = "write", !.role = r, !.by = t.sub]]
    BY <1>8 DEF BeginDeleteRole, AdminStart, Start, Blank
  <2>2. call'[c] = [Blank EXCEPT !.op = "DeleteRole", !.pc = "write", !.role = r, !.by = t.sub]
    BY <1>0, <2>1
  <2>3. /\ call'[c].op = "DeleteRole" /\ call'[c].pc # "new" /\ call'[c].pc # "done"
        /\ call'[c].by = t.sub
    BY <2>2 DEF Blank
  <2> QED BY <1>8, <2>1, <2>3 DEF BeginDeleteRole, Begun, AdminOp, LiveUser, LiveRole
<1>9. ASSUME NEW op \in {"AssignUserRole", "RemoveUserRole"}, NEW u \in User, NEW r \in Role, BeginGrant(c, op, u, r) PROVE Begun(c)
  <2>1. PICK t \in token : /\ Authorised(t) /\ call[c].pc = "new" /\ ReadOnly
                          /\ call' = [call EXCEPT ![c] = [Blank EXCEPT !.op = op, !.pc = "role", !.user = u, !.role = r, !.by = t.sub]]
    BY <1>9 DEF BeginGrant, AdminStart, Start, Blank
  <2>2. call'[c] = [Blank EXCEPT !.op = op, !.pc = "role", !.user = u, !.role = r, !.by = t.sub]
    BY <1>0, <2>1
  <2>3. /\ call'[c].op = op /\ call'[c].pc # "new" /\ call'[c].pc # "done"
        /\ call'[c].by = t.sub
    BY <2>2 DEF Blank
  <2> QED BY <1>9, <2>1, <2>3 DEF BeginGrant, Begun, AdminOp, LiveUser, LiveRole
<1> QED BY <1>1, <1>2, <1>3, <1>4, <1>5, <1>6, <1>7, <1>8, <1>9 DEF AnyBegin

LEMMA Moves ==
  ASSUME TypeOK, NEW c \in Call, ReadJoins(c) \/ ReadRoles(c) \/ ReadRole(c)
  PROVE  Moved(c)
<1>0. call[c] \in Record /\ c \in DOMAIN call /\ (call[c].pc = "role" => call[c].op # "Login")
  BY DEF TypeOK, Request
<1>1. CASE ReadJoins(c)
  <2>1. call'[c] = [call[c] EXCEPT !.pc = "roles", !.snap = holds[call[c].user]]
    BY <1>0, <1>1 DEF ReadJoins
  <2>2. /\ call'[c].op = call[c].op /\ call'[c].by = call[c].by /\ call'[c].at = call[c].at
        /\ call'[c].user = call[c].user /\ call'[c].role = call[c].role
        /\ call'[c].pc = "roles" /\ call'[c].snap = holds[call[c].user]
    BY <1>0, <2>1 DEF Record
  <2> QED BY <1>1, <2>2 DEF ReadJoins, Moved
<1>2. CASE ReadRoles(c)
  <2> DEFINE names == IF call[c].op = "Login" THEN {role[r].name : r \in Preloaded(c)} ELSE {}
  <2>1. call'[c] = [call[c] EXCEPT !.pc = "write", !.snap = Preloaded(c), !.names = names]
    BY <1>0, <1>2 DEF ReadRoles
  <2>2. /\ Preloaded(c) \subseteq call[c].snap
        /\ names \subseteq {role[r].name : r \in call[c].snap}
    BY DEF Preloaded
  <2> HIDE DEF names
  <2>3. /\ call'[c].op = call[c].op /\ call'[c].by = call[c].by /\ call'[c].at = call[c].at
        /\ call'[c].user = call[c].user /\ call'[c].role = call[c].role
        /\ call'[c].pc = "write" /\ call'[c].snap = Preloaded(c) /\ call'[c].names = names
    BY <1>0, <2>1 DEF Record
  <2> QED BY <1>2, <2>2, <2>3 DEF ReadRoles, Moved
<1>3. CASE ReadRole(c)
  <2>1. call'[c] = [call[c] EXCEPT !.pc = "write"]
    BY <1>0, <1>3 DEF ReadRole
  <2>2. /\ call'[c].op = call[c].op /\ call'[c].by = call[c].by /\ call'[c].at = call[c].at
        /\ call'[c].user = call[c].user /\ call'[c].role = call[c].role
        /\ call'[c].pc = "write" /\ call'[c].snap = call[c].snap
    BY <1>0, <2>1 DEF Record
  <2> QED BY <1>0, <1>3, <2>2 DEF ReadRole, Moved
<1> QED BY <1>1, <1>2, <1>3

LEMMA CallEffects ==
  ASSUME TypeOK, NEW c \in Call, Step(c)
  PROVE  CallEffect(c)
<1>1. CASE Finish(c)
  BY <1>1 DEF CallEffect
<1>2. CASE ~ Finish(c)
  <2>1. ReadStep(c) \/ ReadRole(c) => Moved(c)
    BY Moves DEF ReadStep
  <2>2. PublicStep(c) \/ UserStep(c) \/ RoleStep(c) \/ (GrantStep(c) /\ ~ ReadRole(c)) => Begun(c)
    BY <1>2, Begins DEF AnyBegin, PublicStep, UserStep, RoleStep, GrantStep, IssueToken, Register,
       CreateUser, UpdateUser, DeleteUser, CreateRole, UpdateRole, DeleteRole,
       AssignUserRole, RemoveUserRole
  <2>3. ~ Fail(c)
    BY <1>2 DEF Fail
  <2> QED BY <2>1, <2>2, <2>3 DEF Step, CallEffect
<1> QED BY <1>1, <1>2
-----------------------------------------------------------------------------
(* Every step of the specification is a step of one request, a tick of the   *)
(* clock, or leaves the model's variables alone.                             *)
LEMMA NextCases ==
  ASSUME [Next]_vars
  PROVE  \/ (\E c \in Call : Step(c)) /\ Observe
         \/ Tick /\ Observe
         \/ UNCHANGED vars
  BY DEF Next, Over

(* A running request has an operation it was begun with, and has its ids.    *)
LEMMA FinishFields ==
  ASSUME TypeOK, NEW c \in Call, Finish(c)
  PROVE  /\ call'[c].op = call[c].op /\ call'[c].by = call[c].by
         /\ call'[c].pc = "done" /\ call'[c].user = NoUser /\ call'[c].role = NoRole
         /\ call'[c].snap = {}
<1>1. call'[c] = [Blank EXCEPT !.op = call[c].op, !.pc = "done", !.by = call[c].by]
  BY DEF TypeOK, Finish
<1> QED BY <1>1 DEF Blank

-----------------------------------------------------------------------------
(* GrantProvenance.  On its own it is not inductive: UpdateUser writes back  *)
(* the roles it read, so those have to be granted too.                       *)

SnapGranted ==
  \A c \in Call : Running(c) /\ call[c].op = "UpdateUser" =>
    call[c].snap \subseteq granted[call[c].user]

ProvenanceInv == TypeOK /\ GrantProvenance /\ SnapGranted

LEMMA ProvenanceInit == Init => ProvenanceInv
<1> SUFFICES ASSUME Init PROVE ProvenanceInv
  OBVIOUS
<1>1. GrantProvenance
  BY DEF Init, GrantProvenance
<1>2. SnapGranted
  BY DEF Init, SnapGranted, Running, Blank
<1> QED BY <1>1, <1>2, InitType DEF ProvenanceInv

LEMMA ProvenanceStep ==
  ASSUME ProvenanceInv, NEW c \in Call, Step(c)
  PROVE  GrantProvenance' /\ SnapGranted'
<1>0. TypeOK /\ CoreType
  BY TypeParts DEF ProvenanceInv
<1>1. \A u \in User : granted[u] \subseteq granted'[u]
  BY <1>0, HoldsEffects, IdAssumption DEF GrantEffect
<1>2. ASSUME NEW d \in Call, Running(d), call[d].op = "UpdateUser"
      PROVE  call[d].user \in User /\ call[d].snap \subseteq granted[call[d].user]
  BY <1>0, <1>2, Targets DEF OnUser, ProvenanceInv, SnapGranted
<1>3. ASSUME NEW u \in User, NEW r \in holds'[u] PROVE r \in granted'[u]
  <2>1. r \in Role
    <3>1. CoreType'
      BY <1>0, PublicType, UserType, RoleType, GrantType, ReadType, FinishType
      DEF Step, Fail, ReadOnly, CoreType
    <3> QED BY <3>1 DEF CoreType
  <2>2. CASE r \in holds[u]
    BY <1>1, <2>2 DEF ProvenanceInv, GrantProvenance
  <2>3. CASE AtWrite(c, "UpdateUser") /\ call[c].user = u /\ r \in call[c].snap
    BY <1>1, <1>2, <2>3 DEF AtWrite, Running
  <2> QED BY <1>0, <2>1, <2>2, <2>3, HoldsEffects DEF GrantEffect
<1>4. ASSUME NEW d \in Call, Running(d)', call'[d].op = "UpdateUser"
      PROVE  call'[d].snap \subseteq granted'[call'[d].user]
  <2>1. CASE d # c
    <3>1. call'[d] = call[d]
      BY <1>0, <2>1, CallFrame
    <3> QED BY <1>1, <1>2, <1>4, <3>1 DEF Running
  <2>2. CASE d = c /\ Begun(c)
    BY <1>4, <2>2 DEF Begun
  <2>3. CASE d = c /\ Moved(c)
    <3>1. Running(c) /\ call[c].op = "UpdateUser" /\ call'[c].user = call[c].user
      BY <1>4, <2>3 DEF Moved, Running
    <3>2. call'[c].snap \subseteq call[c].snap \/ call'[c].snap = holds[call[c].user]
      BY <2>3 DEF Moved
    <3>3. call[c].user \in User /\ call[c].snap \subseteq granted[call[c].user]
      BY <1>2, <3>1
    <3> QED BY <1>1, <2>3, <3>1, <3>2, <3>3 DEF ProvenanceInv, GrantProvenance
  <2>4. CASE d = c /\ Finish(c)
    BY <1>0, <1>4, <2>4, FinishFields DEF Running
  <2> QED BY <1>0, <2>1, <2>2, <2>3, <2>4, CallEffects DEF CallEffect
<1>5. GrantProvenance'
  BY <1>3 DEF GrantProvenance
<1>6. SnapGranted'
  BY <1>4 DEF SnapGranted
<1> QED BY <1>5, <1>6

(* Every user_roles row goes back to a grant, whatever stale copies the      *)
(* requests in flight write back.                                            *)
THEOREM Provenance == Spec => []GrantProvenance
<1>1. ProvenanceInv /\ [Next]_vars => ProvenanceInv'
  <2> SUFFICES ASSUME ProvenanceInv, [Next]_vars PROVE ProvenanceInv'
    OBVIOUS
  <2>1. TypeOK'
    BY NextType DEF ProvenanceInv
  <2>2. CASE \E c \in Call : Step(c)
    BY <2>1, <2>2, ProvenanceStep DEF ProvenanceInv
  <2>3. CASE Tick
    BY <2>1, <2>3 DEF ProvenanceInv, Tick, GrantProvenance, SnapGranted, Running
  <2>4. CASE UNCHANGED vars
    BY <2>1, <2>4 DEF ProvenanceInv, vars, GrantProvenance, SnapGranted, Running
  <2> QED BY <2>2, <2>3, <2>4, NextCases
<1>2. ProvenanceInv => GrantProvenance
  BY DEF ProvenanceInv
<1> QED BY <1>1, <1>2, ProvenanceInit, PTL DEF Spec
-----------------------------------------------------------------------------
(* DeletionSettles. *)

LEMMA UserStaysSettled ==
  ASSUME TypeOK, NEW c \in Call, Step(c), NEW u \in User, UserSettled(u)
  PROVE  UserSettled(u)'
<1>1. user'[u] = "deleted"
  BY UserEffects DEF UserEffect, UserSettled, AtWrite
<1>2. ASSUME NEW d \in Call PROVE ~ (call'[d].op = "UpdateUser" /\ call'[d].user = u)
  <2>1. CASE d # c
    BY <2>1, CallFrame DEF UserSettled
  <2>2. CASE d = c /\ Finish(c)
    BY <2>2, FinishFields, IdAssumption
  <2>3. CASE d = c /\ Begun(c)
    BY <2>3 DEF Begun, LiveUser, UserSettled
  <2>4. CASE d = c /\ Moved(c)
    BY <2>4 DEF Moved, UserSettled
  <2> QED BY <2>1, <2>2, <2>3, <2>4, CallEffects DEF CallEffect
<1> QED BY <1>1, <1>2 DEF UserSettled

LEMMA RoleStaysSettled ==
  ASSUME TypeOK, NEW c \in Call, Step(c), NEW r \in Role, RoleSettled(r)
  PROVE  RoleSettled(r)'
<1>1. role'[r].row = "deleted"
  BY RoleEffects DEF RoleEffect, RoleSettled, AtWrite
<1>2. ASSUME NEW d \in Call PROVE ~ (call'[d].op = "UpdateRole" /\ call'[d].role = r)
  <2>1. CASE d # c
    BY <2>1, CallFrame DEF RoleSettled
  <2>2. CASE d = c /\ Finish(c)
    BY <2>2, FinishFields, IdAssumption
  <2>3. CASE d = c /\ Begun(c)
    BY <2>3 DEF Begun, LiveRole, RoleSettled
  <2>4. CASE d = c /\ Moved(c)
    BY <2>4 DEF Moved, RoleSettled
  <2> QED BY <2>1, <2>2, <2>3, <2>4, CallEffects DEF CallEffect
<1> QED BY <1>1, <1>2 DEF RoleSettled

(* A deleted user or role that no update in flight has read stays deleted,   *)
(* and no later update can read it.                                          *)
THEOREM DeletionsSettle == Spec => DeletionSettles
<1>1. TypeOK /\ [Next]_vars =>
        [/\ \A u \in User : UserSettled(u) => UserSettled(u)'
         /\ \A r \in Role : RoleSettled(r) => RoleSettled(r)']_vars
  <2> SUFFICES ASSUME TypeOK, [Next]_vars
               PROVE  UNCHANGED vars \/
                      /\ \A u \in User : UserSettled(u) => UserSettled(u)'
                      /\ \A r \in Role : RoleSettled(r) => RoleSettled(r)'
    OBVIOUS
  <2>1. CASE \E c \in Call : Step(c)
    BY <2>1, UserStaysSettled, RoleStaysSettled
  <2>2. CASE Tick
    BY <2>2 DEF Tick, UserSettled, RoleSettled
  <2> QED BY <2>1, <2>2, NextCases
<1> QED BY <1>1, TypeCorrect, PTL DEF Spec, DeletionSettles

-----------------------------------------------------------------------------
(* RevocationSettles. *)

LEMMA GivesNow ==
  ASSUME TypeOK, NEW c \in Call, Step(c), NEW u \in User, NEW r \in Role, Withheld(u, r)
  PROVE  r \notin holds'[u]
  BY HoldsEffects DEF HoldsEffect, Withheld, Gives, AtWrite

(* A request that sets out to give a withheld role is a grant that begins.   *)
LEMMA GivesLater ==
  ASSUME TypeOK, NEW c \in Call, Step(c), NEW u \in User, NEW r \in Role, Withheld(u, r),
         NEW d \in Call, Gives(d, u, r)'
  PROVE  d = c /\ call[c].pc = "new" /\ call'[c].op \in {"AssignUserRole", "Register"}
<1>1. user'[u] = "absent" => user[u] = "absent"
  BY UserEffects DEF UserEffect
<1>2. ~ Gives(d, u, r) /\ ~ Gives(c, u, r) /\ r \notin holds[u]
  BY DEF Withheld
<1>3. CASE d # c
  BY <1>1, <1>2, <1>3, CallFrame DEF Gives
<1>4. CASE d = c /\ Finish(c)
  <2>1. call'[c].user = NoUser /\ call'[c].snap = {}
    BY <1>4, FinishFields
  <2> QED BY <1>4, <2>1, IdAssumption DEF Gives
<1>5. CASE d = c /\ Begun(c)
  BY <1>5 DEF Gives, Begun
<1>6. CASE d = c /\ Moved(c)
  <2>1. /\ call'[c].op = call[c].op /\ call'[c].user = call[c].user
        /\ call'[c].role = call[c].role
        /\ \/ call'[c].snap \subseteq call[c].snap
           \/ call[c].pc = "joins" /\ call'[c].snap = holds[call[c].user]
    BY <1>6 DEF Moved
  <2>2. call[c].pc = "joins" => call[c].op # "Register"
    BY DEF TypeOK, Request
  <2> QED BY <1>1, <1>2, <1>6, <2>1, <2>2 DEF Gives
<1> QED BY <1>3, <1>4, <1>5, <1>6, CallEffects DEF CallEffect

(* A role that nobody in flight has set out to give stays away until a grant *)
(* of that very role begins.                                                 *)
THEOREM RevocationsSettle == Spec => RevocationSettles
<1> DEFINE Settles ==
      \A u \in User, r \in Role : Withheld(u, r) /\ ~ Withheld(u, r)' =>
        \E c \in Call : /\ call[c].pc = "new" /\ call'[c].op \in {"AssignUserRole", "Register"}
                        /\ Gives(c, u, r)'
<1>1. TypeOK /\ [Next]_vars => [Settles]_vars
  <2> SUFFICES ASSUME TypeOK, [Next]_vars, ~ UNCHANGED vars PROVE Settles
    OBVIOUS
  <2>1. CASE \E c \in Call : Step(c)
    <3> PICK c \in Call : Step(c)
      BY <2>1
    <3> SUFFICES ASSUME NEW u \in User, NEW r \in Role, Withheld(u, r), ~ Withheld(u, r)'
                 PROVE  \E e \in Call : /\ call[e].pc = "new"
                                        /\ call'[e].op \in {"AssignUserRole", "Register"}
                                        /\ Gives(e, u, r)'
      OBVIOUS
    <3>1. PICK d \in Call : Gives(d, u, r)'
      BY GivesNow DEF Withheld
    <3> QED BY <3>1, GivesLater
  <2>2. CASE Tick
    BY <2>2 DEF Tick, Withheld, Gives
  <2> QED BY <2>1, <2>2, NextCases
<1> QED BY <1>1, TypeCorrect, PTL DEF Spec, RevocationSettles
-----------------------------------------------------------------------------
(* What NoEscalation and AuthorityIsRecent both need. *)

\* a request that has not begun is nobody's
Unbegun == \A c \in Call : call[c].pc = "new" => call[c].op = "none" /\ call[c].by = NoUser

LEMMA UnbegunStep ==
  ASSUME TypeOK, Unbegun, NEW c \in Call, Step(c)
  PROVE  Unbegun'
<1>1. call'[c].pc # "new"
  BY CallEffects, FinishFields DEF CallEffect, Begun, Moved
<1> QED BY <1>1, CallFrame DEF Unbegun

LEMMA TokenEffects ==
  ASSUME NEW c \in Call, Step(c)
  PROVE  token' = token \/ IssueToken(c)
  BY DEF Step, PublicStep, UserStep, RoleStep, GrantStep, ReadStep, Fail, ReadOnly,
     BeginLogin, BeginRegister, Register, BeginCreateUser, CreateUser, BeginUpdateUser,
     UpdateUser, BeginDeleteUser, DeleteUser, BeginCreateRole, CreateRole, BeginUpdateRole,
     UpdateRole, BeginDeleteRole, DeleteRole, BeginGrant, ReadRole, AssignUserRole,
     RemoveUserRole, ReadJoins, ReadRoles, Start, AdminStart

-----------------------------------------------------------------------------
(* NoEscalation.  As long as the seeded admin has begun no admin request, the *)
(* role named admin is in nobody else's hands: not in a table, not in what a  *)
(* login or a registration in flight has read, not in a token.                *)

Quiet == \A c \in Call : call[c].by # Root

Ordinary(c) ==
  Running(c) =>
    /\ call[c].op = "Register" => \A r \in call[c].snap : role[r].name # AdminName
    /\ call[c].op = "Login" /\ call[c].user # Root =>
         /\ call[c].pc = "roles" => \A r \in call[c].snap : role[r].name # AdminName
         /\ call[c].pc = "write" => AdminName \notin call[c].names

Powerless ==
  /\ \A c \in Call : call[c].op \notin AdminOp /\ Ordinary(c)
  /\ \A u \in User \ {Root} : \A r \in holds[u] : role[r].name # AdminName
  /\ \A t \in token : AdminName \in t.roles => t.sub = Root

EscalationInv == TypeOK /\ Unbegun /\ (Quiet => Powerless)

LEMMA EscalationInit == Init => EscalationInv
<1> SUFFICES ASSUME Init PROVE EscalationInv
  OBVIOUS
<1>1. Unbegun
  BY DEF Init, Unbegun, Blank
<1>2. \A c \in Call : call[c].op \notin AdminOp /\ Ordinary(c)
  BY DEF Init, Ordinary, Running, Blank, AdminOp
<1>3. \A u \in User \ {Root} : \A r \in holds[u] : role[r].name # AdminName
  <2>1. \A u \in User \ {Root} : holds[u] \subseteq {UserRole}
    BY DEF Init
  <2>2. role[UserRole].name = UserName
    BY IdAssumption DEF Init
  <2> QED BY <2>1, <2>2 DEF AdminName, UserName
<1>4. token = {}
  BY DEF Init
<1> QED BY <1>1, <1>2, <1>3, <1>4, InitType DEF EscalationInv, Powerless

LEMMA EscalationStep ==
  ASSUME EscalationInv, NEW c \in Call, Step(c), Quiet'
  PROVE  Powerless'
<1>0. TypeOK /\ CoreType /\ Unbegun
  BY TypeParts DEF EscalationInv
<1>1. Quiet
  <2>1. \A d \in Call \ {c} : call[d].by # Root
    BY <1>0, CallFrame DEF Quiet
  <2>2. call[c].by # Root
    BY <1>0, CallEffects, FinishFields, IdAssumption DEF CallEffect, Begun, Moved, Quiet, Unbegun
  <2> QED BY <2>1, <2>2 DEF Quiet
<1>2. Powerless
  BY <1>1 DEF EscalationInv
<1>3. \A r \in Role : role'[r].name = role[r].name
  BY <1>0, <1>2, RoleEffects DEF RoleEffect, AtWrite, Powerless, AdminOp
<1>4. \A d \in Call : Running(d) => call[d].snap \subseteq Role
  BY <1>0, Targets
<1>5. call'[c].op \notin AdminOp
  <2>1. CASE Begun(c)
    <3> SUFFICES ASSUME call'[c].op \in AdminOp PROVE FALSE
      OBVIOUS
    <3>1. PICK t \in token : Authorised(t) /\ call'[c].by = t.sub
      BY <2>1 DEF Begun
    <3>2. t.sub = Root
      BY <1>2, <3>1 DEF Authorised, Powerless
    <3> QED BY <3>1, <3>2 DEF Quiet
  <2>2. CASE Moved(c) \/ Finish(c)
    BY <1>0, <1>2, <2>2, FinishFields DEF Moved, Powerless
  <2> QED BY <1>0, <2>1, <2>2, CallEffects DEF CallEffect
<1>6. ASSUME NEW u \in User \ {Root}, NEW r \in holds'[u] PROVE role'[r].name # AdminName
  <2>1. r \in Role
    <3>1. CoreType'
      BY <1>0, PublicType, UserType, RoleType, GrantType, ReadType, FinishType
         DEF Step, Fail, ReadOnly, CoreType
    <3> QED BY <3>1 DEF CoreType
  <2>2. HoldsEffect(c, u, r)
    BY <1>0, <2>1, HoldsEffects
  <2>3. call[c].op \notin AdminOp /\ Ordinary(c)
    BY <1>2 DEF Powerless
  <2>4. \/ r \in holds[u]
        \/ AtWrite(c, "Register") /\ r \in call[c].snap
    BY <2>2, <2>3 DEF HoldsEffect, AtWrite, AdminOp
  <2>5. role[r].name # AdminName
    BY <1>2, <2>3, <2>4 DEF Powerless, Ordinary, AtWrite, Running
  <2> QED BY <1>3, <2>1, <2>5
<1>7. ASSUME NEW t \in token', AdminName \in t.roles PROVE t.sub = Root
  <2>1. CASE t \in token
    BY <1>2, <1>7, <2>1 DEF Powerless
  <2>2. CASE IssueToken(c) /\ t \notin token
    <3>1. t.sub = call[c].user /\ t.roles = call[c].names /\ AtWrite(c, "Login")
      BY <2>2 DEF IssueToken
    <3> QED BY <1>2, <1>7, <3>1 DEF Powerless, Ordinary, AtWrite, Running
  <2> QED BY <2>1, <2>2, TokenEffects
<1>8. Ordinary(c)'
  <2>1. CASE Finish(c)
    BY <1>0, <2>1, FinishFields DEF Ordinary, Running
  <2>2. CASE Begun(c)
    <3>1. call'[c].op = "Register" => \A r \in call'[c].snap : role'[r].name # AdminName
      BY <1>3, <2>2 DEF Begun, AdminName, UserName
    <3> QED BY <2>2, <3>1 DEF Begun, Ordinary
  <2>3. CASE Moved(c)
    <3>1. Ordinary(c) /\ call'[c].op = call[c].op /\ call'[c].user = call[c].user /\ role' = role
      BY <1>2, <2>3 DEF Powerless, Moved, ReadOnly
    <3>2. CASE call[c].pc = "joins" /\ call'[c].pc = "roles" /\ call'[c].snap = holds[call[c].user]
      <4>1. Running(c) /\ call[c].op \in {"Login", "UpdateUser"} /\ call[c].user \in User
        <5>1. Running(c)
          BY <3>2 DEF Running
        <5> QED BY <1>0, <3>2, <5>1, Targets DEF OnUser
      <4> QED BY <1>2, <3>1, <3>2, <4>1 DEF Ordinary, Powerless
    <3>3. CASE /\ call[c].pc = "roles" /\ call'[c].pc = "write"
               /\ call'[c].snap \subseteq call[c].snap
               /\ call'[c].names \subseteq {role[r].name : r \in call[c].snap}
      <4>1. Running(c)
        BY <3>3 DEF Running
      <4> QED BY <3>1, <3>3, <4>1 DEF Ordinary
    <3>4. CASE /\ call[c].pc = "role" /\ call'[c].pc = "write" /\ call[c].op # "Login"
               /\ call'[c].snap = call[c].snap
      BY <3>1, <3>4 DEF Ordinary, Running
    <3> QED BY <2>3, <3>2, <3>3, <3>4 DEF Moved
  <2> QED BY <1>0, <2>1, <2>2, <2>3, CallEffects DEF CallEffect
<1>9. ASSUME NEW d \in Call, d # c PROVE call'[d].op \notin AdminOp /\ Ordinary(d)'
  <2>1. call'[d] = call[d]
    BY <1>0, <1>9, CallFrame
  <2>2. Ordinary(d) /\ call[d].op \notin AdminOp
    BY <1>2 DEF Powerless
  <2> QED BY <1>3, <1>4, <2>1, <2>2 DEF Ordinary, Running
<1> QED BY <1>5, <1>6, <1>7, <1>8, <1>9 DEF Powerless

(* Until the admin that was seeded begins an admin request, Register, Login   *)
(* and whatever else the public may call give nobody a role named admin, nor  *)
(* a token that carries it, in any number and any order.                      *)
THEOREM Escalation == Spec => []NoEscalation
<1>1. EscalationInv /\ [Next]_vars => EscalationInv'
  <2> SUFFICES ASSUME EscalationInv, [Next]_vars PROVE EscalationInv'
    OBVIOUS
  <2>1. TypeOK'
    BY NextType DEF EscalationInv
  <2>2. CASE \E c \in Call : Step(c)
    BY <2>1, <2>2, UnbegunStep, EscalationStep DEF EscalationInv
  <2>3. CASE UNCHANGED <<role, holds, token, call>>
    BY <2>1, <2>3 DEF EscalationInv, Unbegun, Quiet, Powerless, Ordinary, Running
  <2> QED BY <2>2, <2>3, NextCases DEF Tick, vars
<1>2. EscalationInv => NoEscalation
  BY DEF EscalationInv, Quiet, Powerless, NoEscalation
<1> QED BY <1>1, <1>2, EscalationInit, PTL DEF Spec
-----------------------------------------------------------------------------
(* AuthorityIsRecent.  What a token says was true when its login read it, and *)
(* the login ended within LoginDelay.                                         *)

\* the history is up to date
Remembered ==
  /\ \A u \in User : lastLive[u] <= now /\ (LiveUser(u) => lastLive[u] = now)
  /\ \A u \in User, r \in Role : lastHeld[u][r] <= now /\ (r \in holds[u] => lastHeld[u][r] = now)
  /\ \A r \in Role : role[r].name \in everNamed[r]

\* u held, at that time or later, a role that has borne the name
HeldNamed(u, n, at) == \E r \in Role : at <= lastHeld[u][r] /\ n \in everNamed[r]

LoggingIn(c) ==
  Running(c) /\ call[c].op = "Login" =>
    /\ call[c].at <= now /\ now <= call[c].at + LoginDelay
    /\ call[c].at <= lastLive[call[c].user]
    /\ call[c].pc = "roles" => \A r \in call[c].snap : call[c].at <= lastHeld[call[c].user][r]
    /\ call[c].pc = "write" => \A n \in call[c].names : HeldNamed(call[c].user, n, call[c].at)

TokenTrue(t) ==
  /\ t.exp <= lastLive[t.sub] + LoginDelay + TTL
  /\ \A n \in t.roles : HeldNamed(t.sub, n, t.exp - LoginDelay - TTL)

RecentInv ==
  /\ TypeOK /\ Unbegun /\ Remembered
  /\ \A c \in Call : LoggingIn(c)
  /\ \A t \in token : TokenTrue(t)

LEMMA RecentInit == Init => RecentInv
<1> SUFFICES ASSUME Init PROVE RecentInv
  OBVIOUS
<1>1. \A c \in Call : Unbegun /\ LoggingIn(c)
  BY DEF Init, Unbegun, LoggingIn, Running, Blank
<1>2. Unbegun
  BY DEF Init, Unbegun, Blank
<1>3. Remembered
  <2>1. /\ now = 0
        /\ lastLive = [u \in User |-> IF LiveUser(u) THEN now ELSE -1]
        /\ lastHeld = [u \in User |-> [r \in Role |-> IF r \in holds[u] THEN now ELSE -1]]
        /\ everNamed = [r \in Role |-> {role[r].name}]
    BY DEF Init
  <2> QED BY <2>1 DEF Remembered
<1>4. token = {}
  BY DEF Init
<1> QED BY <1>1, <1>2, <1>3, <1>4, InitType DEF RecentInv

\* the history only grows, and time does not run backwards
LEMMA HistoryGrows ==
  ASSUME TypeOK, Remembered, Observe, now' \in {now, now + 1}
  PROVE  /\ now \in Nat /\ now <= now'
         /\ \A u \in User : lastLive[u] \in Int /\ lastLive[u] <= lastLive'[u] /\ lastLive'[u] \in Int
         /\ \A u \in User, r \in Role :
              /\ lastHeld[u][r] \in Int /\ lastHeld[u][r] <= lastHeld'[u][r]
              /\ lastHeld'[u][r] \in Int
         /\ \A r \in Role : everNamed[r] \subseteq everNamed'[r]
         /\ Remembered'
<1>1. now \in Nat /\ now' \in Nat /\ now <= now'
  BY DEF TypeOK
<1>2. \A u \in User : lastLive'[u] = IF user'[u] = "live" THEN now' ELSE lastLive[u]
  BY DEF Observe
<1>3. \A u \in User, r \in Role : lastHeld'[u][r] = IF r \in holds'[u] THEN now' ELSE lastHeld[u][r]
  BY DEF Observe
<1>4. \A r \in Role : everNamed'[r] = everNamed[r] \cup {role'[r].name}
  BY DEF Observe
<1>5. \A u \in User : lastLive[u] \in Int /\ lastLive[u] <= now
  BY DEF TypeOK, Remembered
<1>6. \A u \in User, r \in Role : lastHeld[u][r] \in Int /\ lastHeld[u][r] <= now
  BY DEF TypeOK, Remembered
<1>7. \A u \in User : lastLive[u] <= lastLive'[u] /\ lastLive'[u] \in Int /\ lastLive'[u] <= now'
  BY <1>1, <1>2, <1>5
<1>8. \A u \in User, r \in Role :
        /\ lastHeld[u][r] <= lastHeld'[u][r] /\ lastHeld'[u][r] \in Int /\ lastHeld'[u][r] <= now'
  BY <1>1, <1>3, <1>6
<1>9. Remembered'
  BY <1>2, <1>3, <1>4, <1>7, <1>8 DEF Remembered, LiveUser
<1> QED BY <1>1, <1>4, <1>5, <1>6, <1>7, <1>8, <1>9

LEMMA HeldNamedStays ==
  ASSUME TypeOK, Remembered, Observe, now' \in {now, now + 1},
         NEW u \in User, NEW n, NEW at \in Int, HeldNamed(u, n, at)
  PROVE  HeldNamed(u, n, at)'
<1>1. PICK r \in Role : at <= lastHeld[u][r] /\ n \in everNamed[r]
  BY DEF HeldNamed
<1>2. /\ lastHeld[u][r] \in Int /\ lastHeld'[u][r] \in Int /\ lastHeld[u][r] <= lastHeld'[u][r]
      /\ everNamed[r] \subseteq everNamed'[r]
  BY HistoryGrows
<1>3. at <= lastHeld'[u][r] /\ n \in everNamed'[r]
  BY <1>1, <1>2
<1> QED BY <1>3 DEF HeldNamed

LEMMA TokenStaysTrue ==
  ASSUME TypeOK, Remembered, Observe, now' \in {now, now + 1}, NEW t \in token, TokenTrue(t)
  PROVE  TokenTrue(t)'
<1>1. t.sub \in User /\ t.exp \in Nat
  BY DEF TypeOK, Token
<1>2. lastLive[t.sub] \in Int /\ lastLive'[t.sub] \in Int /\ lastLive[t.sub] <= lastLive'[t.sub]
  BY <1>1, HistoryGrows
<1>3. LoginDelay \in Nat /\ TTL \in Nat
  BY TimeAssumption
<1>4. t.exp <= lastLive'[t.sub] + LoginDelay + TTL
  BY <1>1, <1>2, <1>3 DEF TokenTrue
<1>5. t.exp - LoginDelay - TTL \in Int
  BY <1>1, <1>3
<1>6. \A n \in t.roles : HeldNamed(t.sub, n, t.exp - LoginDelay - TTL)'
  BY <1>1, <1>5, HeldNamedStays DEF TokenTrue
<1> QED BY <1>4, <1>6 DEF TokenTrue

\* a login that waits stays true, as long as the clock does not leave it behind
LEMMA LoggingInStays ==
  ASSUME TypeOK, Remembered, Observe, now' \in {now, now + 1}, NEW c \in Call, LoggingIn(c),
         call'[c] = call[c], Running(c) /\ call[c].op = "Login" => now' <= call[c].at + LoginDelay
  PROVE  LoggingIn(c)'
<1> SUFFICES ASSUME Running(c), call[c].op = "Login" PROVE LoggingIn(c)'
  BY DEF LoggingIn, Running
<1>0. CoreType
  BY TypeParts
<1>1. call[c].user \in User /\ call[c].snap \subseteq Role /\ call[c].at \in Nat
  BY <1>0, Targets DEF OnUser, CoreType, Request, Record
<1> DEFINE u == call[c].user
           at == call[c].at
<1>2. lastLive[u] \in Int /\ lastLive'[u] \in Int /\ lastLive[u] <= lastLive'[u]
  BY <1>1, HistoryGrows
<1>3. now \in Nat /\ now <= now' /\ now' \in Nat
  BY HistoryGrows
<1>4. at <= now' /\ now' <= at + LoginDelay /\ at <= lastLive'[u]
  BY <1>1, <1>2, <1>3, TimeAssumption DEF LoggingIn
<1>5. ASSUME call[c].pc = "roles", NEW r \in call[c].snap PROVE at <= lastHeld'[u][r]
  <2>1. at <= lastHeld[u][r]
    BY <1>5 DEF LoggingIn
  <2>2. lastHeld[u][r] \in Int /\ lastHeld'[u][r] \in Int /\ lastHeld[u][r] <= lastHeld'[u][r]
    BY <1>1, HistoryGrows
  <2> QED BY <1>1, <2>1, <2>2
<1>6. ASSUME call[c].pc = "write", NEW n \in call[c].names PROVE HeldNamed(u, n, at)'
  BY <1>1, <1>6, HeldNamedStays DEF LoggingIn
<1> QED BY <1>4, <1>5, <1>6 DEF LoggingIn

LEMMA RecentStep ==
  ASSUME RecentInv, NEW c \in Call, Step(c), Observe, TypeOK'
  PROVE  RecentInv'
<1>0. TypeOK /\ CoreType /\ Remembered /\ Unbegun /\ \A d \in Call : LoggingIn(d)
  BY TypeParts DEF RecentInv
<1>1. now' = now
  BY DEF Step, PublicStep, UserStep, RoleStep, GrantStep, ReadStep, Fail, ReadOnly,
     BeginLogin, IssueToken, BeginRegister, Register, BeginCreateUser, CreateUser,
     BeginUpdateUser, UpdateUser, BeginDeleteUser, DeleteUser, BeginCreateRole, CreateRole,
     BeginUpdateRole, UpdateRole, BeginDeleteRole, DeleteRole, BeginGrant, ReadRole,
     AssignUserRole, RemoveUserRole, ReadJoins, ReadRoles, Start, AdminStart
<1>2. now \in Nat /\ LoginDelay \in Nat /\ TTL \in Nat
  BY <1>0, TimeAssumption DEF TypeOK
<1>3. Remembered'
  BY <1>0, <1>1, HistoryGrows
<1>4. ASSUME NEW t \in token' PROVE TokenTrue(t)'
  <2>1. CASE t \in token
    BY <1>0, <1>1, <2>1, TokenStaysTrue DEF RecentInv
  <2>2. CASE IssueToken(c) /\ t \notin token
    <3>1. t = [sub |-> call[c].user, roles |-> call[c].names, exp |-> now + TTL]
      BY <2>2 DEF IssueToken
    <3>2. Running(c) /\ call[c].op = "Login" /\ call[c].pc = "write"
      BY <2>2 DEF IssueToken, AtWrite, Running
    <3>3. call[c].user \in User /\ call[c].at \in Nat
      BY <1>0, <3>2, Targets DEF OnUser, CoreType, Request, Record
    <3>4. PICK u \in User, at \in Nat : u = call[c].user /\ at = call[c].at
      BY <3>3
    <3>5. /\ now <= at + LoginDelay /\ at <= lastLive[u]
          /\ \A n \in t.roles : HeldNamed(u, n, at)
      BY <1>0, <3>1, <3>2, <3>4 DEF LoggingIn
    <3>6. lastLive[u] \in Int /\ lastLive'[u] \in Int /\ lastLive[u] <= lastLive'[u]
      BY <1>0, <1>1, HistoryGrows
    <3>7. t.sub = u /\ t.exp = now + TTL
      BY <3>1, <3>4
    <3>8. t.exp <= lastLive'[t.sub] + LoginDelay + TTL
      BY <1>2, <3>5, <3>6, <3>7
    <3>9. ASSUME NEW n \in t.roles PROVE HeldNamed(t.sub, n, t.exp - LoginDelay - TTL)'
      <4>1. HeldNamed(u, n, at)'
        BY <1>0, <1>1, <3>5, HeldNamedStays
      <4>2. PICK r \in Role : at <= lastHeld'[u][r] /\ n \in everNamed'[r]
        BY <4>1 DEF HeldNamed
      <4>3. lastHeld'[u][r] \in Int
        BY <1>0, <1>1, HistoryGrows
      <4>4. t.exp - LoginDelay - TTL <= lastHeld'[t.sub][r]
        BY <1>2, <3>5, <3>7, <4>2, <4>3
      <4> QED BY <4>2, <4>4 DEF HeldNamed
    <3> QED BY <3>8, <3>9 DEF TokenTrue
  <2> QED BY <2>1, <2>2, TokenEffects
<1>5. ASSUME NEW d \in Call, d # c PROVE LoggingIn(d)'
  <2>1. call'[d] = call[d]
    BY <1>0, <1>5, CallFrame
  <2> QED BY <1>0, <1>1, <2>1, LoggingInStays DEF LoggingIn
<1>6. LoggingIn(c)'
  <2> SUFFICES ASSUME Running(c)', call'[c].op = "Login" PROVE LoggingIn(c)'
    BY DEF LoggingIn
  <2>0. call'[c].user \in User
    <3>1. CoreType'
      BY TypeParts, PTL
    <3>2. call'[c] \in Request
      BY <3>1 DEF CoreType
    <3> QED BY <3>2 DEF Running, Request, OnUser
  <2>1. ~ Finish(c)
    BY <1>0, FinishFields DEF Running
  <2>2. CASE Begun(c)
    <3>1. call'[c].pc = "joins" /\ call'[c].at = now /\ user'[call'[c].user] = "live"
      BY <2>2 DEF Begun, LiveUser, ReadOnly
    <3>2. lastLive'[call'[c].user] = now
      BY <1>1, <2>0, <3>1 DEF Observe
    <3> QED BY <1>1, <1>2, <3>1, <3>2 DEF LoggingIn
  <2>3. CASE Moved(c)
    <3> DEFINE u == call[c].user
               at == call[c].at
    <3>1. /\ Running(c) /\ call[c].op = "Login" /\ UNCHANGED <<user, role, holds>>
          /\ call'[c].user = u /\ call'[c].at = at
      BY <2>3 DEF Moved, Running, ReadOnly
    <3>2. /\ at \in Nat /\ u \in User /\ call[c].snap \subseteq Role
          /\ at <= now /\ now <= at + LoginDelay /\ at <= lastLive[u]
      BY <1>0, <3>1, Targets DEF LoggingIn, OnUser, CoreType, Request, Record
    <3>3. lastLive[u] \in Int /\ lastLive'[u] \in Int /\ lastLive[u] <= lastLive'[u]
      BY <1>0, <1>1, <3>2, HistoryGrows
    <3>4. at <= lastLive'[u]
      BY <3>2, <3>3
    <3>5. CASE call[c].pc = "joins" /\ call'[c].pc = "roles" /\ call'[c].snap = holds[u]
      <4>1. \A r \in holds[u] : r \in Role /\ lastHeld'[u][r] = now
        BY <1>1, <1>3, <3>1, <3>2, <1>0 DEF Remembered, CoreType
      <4> QED BY <1>1, <3>1, <3>2, <3>4, <3>5, <4>1 DEF LoggingIn
    <3>6. CASE /\ call[c].pc = "roles" /\ call'[c].pc = "write"
               /\ call'[c].names \subseteq {role[r].name : r \in call[c].snap}
      <4>1. ASSUME NEW n \in call'[c].names PROVE HeldNamed(u, n, at)'
        <5>1. PICK r \in call[c].snap : n = role[r].name
          BY <3>6
        <5>2. r \in Role /\ n \in everNamed'[r]
          BY <1>3, <3>1, <3>2, <5>1 DEF Remembered
        <5>3. at <= lastHeld[u][r]
          BY <1>0, <3>1, <3>6 DEF LoggingIn
        <5>4. /\ lastHeld[u][r] \in Int /\ lastHeld'[u][r] \in Int
              /\ lastHeld[u][r] <= lastHeld'[u][r]
          BY <1>0, <1>1, <3>2, <5>2, HistoryGrows
        <5>5. at <= lastHeld'[u][r]
          BY <3>2, <5>3, <5>4
        <5> QED BY <3>1, <5>2, <5>5 DEF HeldNamed
      <4> QED BY <1>1, <3>1, <3>2, <3>4, <3>6, <4>1 DEF LoggingIn
    <3> QED BY <2>3, <3>1, <3>5, <3>6 DEF Moved
  <2> QED BY <1>0, <2>1, <2>2, <2>3, CallEffects DEF CallEffect
<1> QED BY <1>0, <1>3, <1>4, <1>5, <1>6, UnbegunStep DEF RecentInv

LEMMA RecentTick ==
  ASSUME RecentInv, Tick, Observe, TypeOK'
  PROVE  RecentInv'
<1>0. TypeOK /\ Remembered /\ Unbegun /\ \A d \in Call : LoggingIn(d)
  BY DEF RecentInv
<1>1. now' = now + 1 /\ UNCHANGED <<token, call>>
  BY DEF Tick
<1>2. Remembered'
  BY <1>0, <1>1, HistoryGrows
<1>3. ASSUME NEW c \in Call PROVE LoggingIn(c)'
  <2>1. Running(c) /\ call[c].op = "Login" => now - call[c].at < LoginDelay
    BY DEF Tick
  <2>2. now \in Nat /\ call[c].at \in Nat /\ LoginDelay \in Nat
    BY <1>0, TimeAssumption DEF TypeOK, Request, Record
  <2>3. Running(c) /\ call[c].op = "Login" => now' <= call[c].at + LoginDelay
    BY <1>1, <2>1, <2>2
  <2> QED BY <1>0, <1>1, <2>3, LoggingInStays
<1>4. ASSUME NEW t \in token' PROVE TokenTrue(t)'
  BY <1>0, <1>1, TokenStaysTrue DEF RecentInv
<1>5. Unbegun'
  BY <1>0, <1>1 DEF Unbegun
<1> QED BY <1>2, <1>3, <1>4, <1>5 DEF RecentInv

(* An admin request is admitted only for a user who was live, and had a role  *)
(* that has been named admin, no longer ago than a token's life and the time  *)
(* a login takes.                                                             *)
THEOREM Authority == Spec => AuthorityIsRecent
<1>1. RecentInv /\ [Next]_vars => RecentInv'
  <2> SUFFICES ASSUME RecentInv, [Next]_vars PROVE RecentInv'
    OBVIOUS
  <2>1. TypeOK'
    BY NextType DEF RecentInv
  <2>2. CASE UNCHANGED vars
    BY <2>1, <2>2 DEF vars, RecentInv, Unbegun, Remembered, LiveUser, LoggingIn, TokenTrue,
                      HeldNamed, Running
  <2> QED BY <2>1, <2>2, NextCases, RecentStep, RecentTick
<1>2. RecentInv /\ [Next]_vars =>
        [\A c \in Call : Admitted(c) => RecentAdmin(call'[c].by)]_vars
  <2> SUFFICES ASSUME RecentInv, [Next]_vars, NEW c \in Call, Admitted(c)
               PROVE  RecentAdmin(call'[c].by)
    OBVIOUS
  <2>0. TypeOK /\ Unbegun
    BY DEF RecentInv
  <2>1. call[c].pc = "new" /\ call'[c].pc # "new" /\ call'[c].op \in AdminOp
    BY DEF Admitted
  <2>2. Step(c)
    <3>1. call'[c] # call[c]
      BY <2>1
    <3>2. PICK d \in Call : Step(d)
      BY <3>1, NextCases DEF Tick, vars
    <3> QED BY <2>0, <3>1, <3>2, CallFrame
  <2>3. Begun(c)
    <3>1. ~ Finish(c)
      BY <2>0, <2>1, FinishFields DEF Unbegun, AdminOp
    <3> QED BY <2>0, <2>1, <2>2, <3>1, CallEffects DEF CallEffect, Moved
  <2>4. PICK t \in token : Authorised(t) /\ call'[c].by = t.sub
    BY <2>1, <2>3 DEF Begun
  <2>5. now < t.exp /\ AdminName \in t.roles
    BY <2>4 DEF Authorised, Authenticated
  <2>6. /\ t.sub \in User /\ t.exp \in Nat /\ now \in Nat /\ lastLive[t.sub] \in Int
        /\ \A r \in Role : lastHeld[t.sub][r] \in Int
    BY <2>0 DEF TypeOK, Token
  <2>7. LoginDelay \in Nat /\ TTL \in Nat
    BY TimeAssumption
  <2>8. t.exp <= lastLive[t.sub] + LoginDelay + TTL
        /\ HeldNamed(t.sub, AdminName, t.exp - LoginDelay - TTL)
    BY <2>5 DEF RecentInv, TokenTrue
  <2>9. Recent(lastLive[t.sub])
    BY <2>5, <2>6, <2>7, <2>8 DEF Recent
  <2>10. PICK r \in Role : /\ t.exp - LoginDelay - TTL <= lastHeld[t.sub][r]
                           /\ AdminName \in everNamed[r]
    BY <2>8 DEF HeldNamed
  <2>11. Recent(lastHeld[t.sub][r])
    BY <2>5, <2>6, <2>7, <2>10 DEF Recent
  <2> QED BY <2>4, <2>9, <2>10, <2>11 DEF RecentAdmin
<1> QED BY <1>1, <1>2, RecentInit, PTL DEF Spec, AuthorityIsRecent
=============================================================================
