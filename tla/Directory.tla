------------------------------ MODULE Directory ------------------------------
(***************************************************************************)
(* service-b's user and role administration over its PostgreSQL tables     *)
(* users, roles and user_roles, and the JWT claims that authorise it.      *)
(*                                                                         *)
(* Every gRPC request runs in a goroutine of its own, and each GORM call   *)
(* it makes is a transaction of its own: between two statements of one     *)
(* handler every other request may run.  A request is an element of Call:  *)
(* it begins, takes one step per statement, and is done.  A request that   *)
(* is refused at its first check changes nothing and is not represented.   *)
(*                                                                         *)
(* users and roles are soft-deleted: a deleted row is hidden from the      *)
(* reads of the handlers, and keeps its id, its unique name and its        *)
(* user_roles rows.                                                        *)
(*                                                                         *)
(* Event publishing (module Publish), passwords, refresh and reset tokens  *)
(* (module Credentials) and seeding on start (module Startup) are modelled *)
(* on their own; none of them writes the tables of this module, apart from *)
(* the seeding that makes its initial state.                               *)
(***************************************************************************)
EXTENDS Integers

CONSTANTS
  User,        \* ids of the rows users may come to have
  Role,        \* ids of the rows roles may come to have
  RoleName,    \* role names a client may ask for
  Call,        \* the requests; each is served once
  Root,        \* the user created by seed.BootstrapAdmin
  Demo,        \* the user created by seed.EnsureDemoUser
  AdminRole,   \* the role seeded under the name "admin"
  UserRole,    \* the role seeded under the name "user"
  NoUser, NoRole,
  TTL,         \* life of an access token, in ticks
  LoginDelay,  \* ticks a login may take from its first read to its token
  MaxTime      \* bound on the clock

AdminName == "admin"
UserName  == "user"

ASSUME IdAssumption ==
  /\ Root \in User /\ Demo \in User /\ Root # Demo
  /\ AdminRole \in Role /\ UserRole \in Role /\ AdminRole # UserRole
  /\ NoUser \notin User /\ NoRole \notin Role
  /\ AdminName \in RoleName /\ UserName \in RoleName /\ "" \notin RoleName

ASSUME TimeAssumption == TTL \in Nat \ {0} /\ LoginDelay \in Nat /\ MaxTime \in Nat

VARIABLES
  user,        \* users: is the row absent, live or soft-deleted
  role,        \* roles: likewise, with the role's name
  holds,       \* user_roles: the role ids joined to each user id
  token,       \* access tokens handed out: subject, role names, expiry
  now,         \* the clock of service-b
  call,        \* the requests and what each has read
  (* history, read by the properties only *)
  granted,     \* role ids given to a user by a grant of its own
  lastLive,    \* when the user's row was last live, -1 for never
  lastHeld,    \* when the user last held the role, -1 for never
  everNamed    \* every name a role has borne

vars == <<user, role, holds, token, now, call, granted, lastLive, lastHeld, everNamed>>

RowState == {"absent", "live", "deleted"}
AdminOp == {"CreateUser", "UpdateUser", "DeleteUser", "CreateRole", "UpdateRole",
            "DeleteRole", "AssignUserRole", "RemoveUserRole"}
Op == AdminOp \cup {"none", "Login", "Register"}
Pc == {"new", "joins", "roles", "role", "write", "done"}

Name == RoleName \cup {""}
Token == [sub : User, roles : SUBSET Name, exp : Nat]
OnUser == {"Login", "UpdateUser", "DeleteUser", "AssignUserRole", "RemoveUserRole"}
OnRole == {"UpdateRole", "DeleteRole", "AssignUserRole", "RemoveUserRole"}
Record == [op : Op, pc : Pc, by : User \cup {NoUser}, user : User \cup {NoUser},
           role : Role \cup {NoRole}, name : Name,
           snap : SUBSET Role, names : SUBSET Name, at : Nat]
Request == {q \in Record :
  /\ q.pc \notin {"new", "done"} /\ q.op \in OnUser => q.user \in User
  /\ q.pc \notin {"new", "done"} /\ q.op \in OnRole => q.role \in Role
  /\ q.pc = "joins" => q.op \in {"Login", "UpdateUser"}
  /\ q.pc = "role" => q.op \in {"AssignUserRole", "RemoveUserRole"}}

Blank == [op |-> "none", pc |-> "new", by |-> NoUser, user |-> NoUser,
          role |-> NoRole, name |-> "", snap |-> {}, names |-> {}, at |-> 0]

-----------------------------------------------------------------------------
(* What a statement sees. *)

\* mutant: the read is Unscoped and sees deleted rows
LiveUserUnscoped(u) == user[u] # "absent"

LiveUser(u) == user[u] = "live"
LiveRole(r) == role[r].row = "live"

\* the unique index on roles.name covers deleted rows and every row but r itself
NameTaken(n, r) == \E q \in Role \ {r} : role[q].row # "absent" /\ role[q].name = n

\* mutant: a token is still good at the instant it expires
AuthenticatedAtExpiry(t) == now <= t.exp

\* AuthUnaryInterceptor accepts the token
Authenticated(t) == now < t.exp

\* mutant: the handler forgets requireAdmin
AuthorisedForAll(t) == Authenticated(t)

\* a token that passes the interceptor and requireAdmin
Authorised(t) == Authenticated(t) /\ AdminName \in t.roles

-----------------------------------------------------------------------------
(* The life of a request. *)

Running(c) == call[c].pc \notin {"new", "done"}

ReadOnly == UNCHANGED <<user, role, holds, token, now, granted>>

Start(c, rec) ==
  /\ call[c].pc = "new"
  /\ call' = [call EXCEPT ![c] = rec]
  /\ ReadOnly

AdminStart(c, rec) ==
  \E t \in token : Authorised(t) /\ Start(c, [rec EXCEPT !.by = t.sub])

Finish(c) == call' = [call EXCEPT ![c] =
                        [Blank EXCEPT !.op = call[c].op, !.pc = "done", !.by = call[c].by]]

AtWrite(c, op) == call[c].op = op /\ call[c].pc = "write"

\* A statement fails or the client goes away: the handler returns an error and
\* what it committed before stays.
Fail(c) ==
  /\ Running(c)
  /\ Finish(c)
  /\ ReadOnly

-----------------------------------------------------------------------------
(* Login and UpdateUser read a user with Preload("Roles"): one SELECT for  *)
(* the user row (made by their Begin action), one for its user_roles rows  *)
(* and one for the live roles among them.                                  *)

\* mutant: the SELECT of user_roles has lost its WHERE user_id
ReadJoinsOfAll(c) ==
  /\ call[c].pc = "joins"
  /\ call' = [call EXCEPT ![c].pc = "roles", ![c].snap = UNION {holds[u] : u \in User}]
  /\ ReadOnly

ReadJoins(c) ==
  /\ call[c].pc = "joins"
  /\ call' = [call EXCEPT ![c].pc = "roles", ![c].snap = holds[call[c].user]]
  /\ ReadOnly

Preloaded(c) == {r \in call[c].snap : LiveRole(r)}

ReadRoles(c) ==
  /\ call[c].pc = "roles"
  /\ call' = [call EXCEPT ![c].pc = "write", ![c].snap = Preloaded(c),
                          ![c].names = IF call[c].op = "Login"
                                       THEN {role[r].name : r \in Preloaded(c)} ELSE {}]
  /\ ReadOnly

\* the right password is presented; passwords are the matter of Credentials
BeginLogin(c, u) ==
  /\ LiveUser(u)
  /\ Start(c, [Blank EXCEPT !.op = "Login", !.pc = "joins", !.user = u, !.at = now])

\* mutant: the expiry lies TTL before the issue
IssueExpiredToken(c) ==
  /\ AtWrite(c, "Login")
  /\ token' = token \cup {[sub |-> call[c].user, roles |-> call[c].names, exp |-> now - TTL]}
  /\ Finish(c)
  /\ UNCHANGED <<user, role, holds, now, granted>>

\* the role names are those read; the expiry counts from this moment
IssueToken(c) ==
  /\ AtWrite(c, "Login")
  /\ token' = token \cup {[sub |-> call[c].user, roles |-> call[c].names, exp |-> now + TTL]}
  /\ Finish(c)
  /\ UNCHANGED <<user, role, holds, now, granted>>

-----------------------------------------------------------------------------
(* Register: the role named "user" is read, then the user is created with  *)
(* a user_roles row for that role id.                                      *)

BeginRegister(c) ==
  \E r \in Role :
    /\ LiveRole(r) /\ role[r].name = UserName
    /\ Start(c, [Blank EXCEPT !.op = "Register", !.pc = "write", !.snap = {r}])

Register(c, u) ==
  /\ AtWrite(c, "Register")
  /\ user[u] = "absent"
  /\ user' = [user EXCEPT ![u] = "live"]
  /\ holds' = [holds EXCEPT ![u] = call[c].snap]
  /\ granted' = [granted EXCEPT ![u] = @ \cup call[c].snap]
  /\ Finish(c)
  /\ UNCHANGED <<role, token, now>>

-----------------------------------------------------------------------------
(* UserService, for admins. *)

BeginCreateUser(c) ==
  /\ AdminStart(c, [Blank EXCEPT !.op = "CreateUser", !.pc = "write"])

CreateUser(c, u) ==
  /\ AtWrite(c, "CreateUser")
  /\ user[u] = "absent"
  /\ user' = [user EXCEPT ![u] = "live"]
  /\ Finish(c)
  /\ UNCHANGED <<role, holds, token, now, granted>>

BeginUpdateUser(c, u) ==
  /\ LiveUser(u)
  /\ AdminStart(c, [Blank EXCEPT !.op = "UpdateUser", !.pc = "joins", !.user = u])

\* Save writes every column of the row as read, deleted_at among them: its
\* UPDATE skips a deleted row, and then its INSERT ... ON CONFLICT(id) DO UPDATE
\* revives it.  Saving the preloaded Roles inserts their user_roles rows where
\* they are missing.
UpdateUser(c) ==
  LET u == call[c].user IN
  /\ AtWrite(c, "UpdateUser")
  /\ user' = [user EXCEPT ![u] = "live"]
  /\ holds' = [holds EXCEPT ![u] = @ \cup call[c].snap]
  /\ Finish(c)
  /\ UNCHANGED <<role, token, now, granted>>

BeginDeleteUser(c, u) ==
  /\ LiveUser(u)
  /\ AdminStart(c, [Blank EXCEPT !.op = "DeleteUser", !.pc = "write", !.user = u])

\* UPDATE users SET deleted_at WHERE id AND deleted_at IS NULL; a row is never
\* absent again once a handler has read it
DeleteUser(c) ==
  /\ AtWrite(c, "DeleteUser")
  /\ user' = [user EXCEPT ![call[c].user] = "deleted"]
  /\ Finish(c)
  /\ UNCHANGED <<role, holds, token, now, granted>>

-----------------------------------------------------------------------------
(* RoleService, for admins. *)

BeginCreateRole(c, n) ==
  /\ AdminStart(c, [Blank EXCEPT !.op = "CreateRole", !.pc = "write", !.name = n])

CreateRole(c, r) ==
  /\ AtWrite(c, "CreateRole")
  /\ role[r].row = "absent" /\ ~ NameTaken(call[c].name, r)
  /\ role' = [role EXCEPT ![r] = [row |-> "live", name |-> call[c].name]]
  /\ Finish(c)
  /\ UNCHANGED <<user, holds, token, now, granted>>

BeginUpdateRole(c, r, n) ==
  /\ LiveRole(r)
  /\ AdminStart(c, [Blank EXCEPT !.op = "UpdateRole", !.pc = "write", !.role = r, !.name = n])

\* Save, as in UpdateUser: it revives a role deleted since it was read
UpdateRole(c) ==
  /\ AtWrite(c, "UpdateRole")
  /\ ~ NameTaken(call[c].name, call[c].role)
  /\ role' = [role EXCEPT ![call[c].role] = [row |-> "live", name |-> call[c].name]]
  /\ Finish(c)
  /\ UNCHANGED <<user, holds, token, now, granted>>

BeginDeleteRole(c, r) ==
  /\ LiveRole(r)
  /\ AdminStart(c, [Blank EXCEPT !.op = "DeleteRole", !.pc = "write", !.role = r])

DeleteRole(c) ==
  /\ AtWrite(c, "DeleteRole")
  /\ role' = [role EXCEPT ![call[c].role].row = "deleted"]
  /\ Finish(c)
  /\ UNCHANGED <<user, holds, token, now, granted>>

\* AssignUserRole and RemoveUserRole read the user, then the role, then write
BeginGrant(c, op, u, r) ==
  /\ LiveUser(u)
  /\ AdminStart(c, [Blank EXCEPT !.op = op, !.pc = "role", !.user = u, !.role = r])

ReadRole(c) ==
  /\ call[c].pc = "role"
  /\ LiveRole(call[c].role)
  /\ call' = [call EXCEPT ![c].pc = "write"]
  /\ ReadOnly

\* mutant: the role is appended to the caller
AssignUserRoleToCaller(c) ==
  /\ AtWrite(c, "AssignUserRole")
  /\ holds' = [holds EXCEPT ![call[c].by] = @ \cup {call[c].role}]
  /\ granted' = [granted EXCEPT ![call[c].user] = @ \cup {call[c].role}]
  /\ Finish(c)
  /\ UNCHANGED <<user, role, token, now>>

AssignUserRole(c) ==
  LET u == call[c].user IN
  /\ AtWrite(c, "AssignUserRole")
  /\ holds' = [holds EXCEPT ![u] = @ \cup {call[c].role}]
  /\ granted' = [granted EXCEPT ![u] = @ \cup {call[c].role}]
  /\ Finish(c)
  /\ UNCHANGED <<user, role, token, now>>

RemoveUserRole(c) ==
  LET u == call[c].user IN
  /\ AtWrite(c, "RemoveUserRole")
  /\ holds' = [holds EXCEPT ![u] = @ \ {call[c].role}]
  /\ Finish(c)
  /\ UNCHANGED <<user, role, token, now, granted>>

-----------------------------------------------------------------------------
(* The clock, kept from outrunning a login by more than LoginDelay. *)
Tick ==
  /\ now < MaxTime
  /\ \A c \in Call : call[c].op = "Login" /\ Running(c) => now - call[c].at < LoginDelay
  /\ now' = now + 1
  /\ UNCHANGED <<user, role, holds, token, call, granted>>

\* the first start has run EnsureRoles, BootstrapAdmin and EnsureDemoUser
Init ==
  /\ user = [u \in User |-> IF u \in {Root, Demo} THEN "live" ELSE "absent"]
  /\ role = [r \in Role |-> CASE r = AdminRole -> [row |-> "live", name |-> AdminName]
                              [] r = UserRole -> [row |-> "live", name |-> UserName]
                              [] OTHER -> [row |-> "absent", name |-> ""]]
  /\ holds = [u \in User |-> CASE u = Root -> {UserRole, AdminRole}
                               [] u = Demo -> {UserRole}
                               [] OTHER -> {}]
  /\ token = {}
  /\ now = 0
  /\ call = [c \in Call |-> Blank]
  /\ granted = holds
  /\ lastLive = [u \in User |-> IF LiveUser(u) THEN now ELSE -1]
  /\ lastHeld = [u \in User |-> [r \in Role |-> IF r \in holds[u] THEN now ELSE -1]]
  /\ everNamed = [r \in Role |-> {role[r].name}]

PublicStep(c) ==
  \/ \E u \in User : BeginLogin(c, u)
  \/ IssueToken(c)
  \/ BeginRegister(c)
  \/ \E u \in User : Register(c, u)

UserStep(c) ==
  \/ BeginCreateUser(c)
  \/ \E u \in User : CreateUser(c, u)
  \/ \E u \in User : BeginUpdateUser(c, u)
  \/ UpdateUser(c)
  \/ \E u \in User : BeginDeleteUser(c, u)
  \/ DeleteUser(c)

RoleStep(c) ==
  \/ \E n \in RoleName : BeginCreateRole(c, n)
  \/ \E r \in Role : CreateRole(c, r)
  \/ \E r \in Role, n \in RoleName : BeginUpdateRole(c, r, n)
  \/ UpdateRole(c)
  \/ \E r \in Role : BeginDeleteRole(c, r)
  \/ DeleteRole(c)

GrantStep(c) ==
  \/ \E op \in {"AssignUserRole", "RemoveUserRole"}, u \in User, r \in Role :
       BeginGrant(c, op, u, r)
  \/ ReadRole(c)
  \/ AssignUserRole(c)
  \/ RemoveUserRole(c)

ReadStep(c) == ReadJoins(c) \/ ReadRoles(c)

Step(c) == PublicStep(c) \/ UserStep(c) \/ RoleStep(c) \/ GrantStep(c) \/ ReadStep(c) \/ Fail(c)

Observe ==
  /\ lastLive' = [u \in User |-> IF user'[u] = "live" THEN now' ELSE lastLive[u]]
  /\ lastHeld' = [u \in User |-> [r \in Role |->
                   IF r \in holds'[u] THEN now' ELSE lastHeld[u][r]]]
  /\ everNamed' = [r \in Role |-> everNamed[r] \cup {role'[r].name}]

\* the bounded run is over: no request is in flight and the clock is at its bound
Over ==
  /\ now = MaxTime /\ \A c \in Call : ~ Running(c)
  /\ UNCHANGED vars

Next == (((\E c \in Call : Step(c)) \/ Tick) /\ Observe) \/ Over

Spec == Init /\ [][Next]_vars
-----------------------------------------------------------------------------
(* Properties. *)

TypeOK ==
  /\ user \in [User -> RowState]
  /\ role \in [Role -> [row : RowState, name : Name]]
  /\ holds \in [User -> SUBSET Role]
  /\ token \subseteq Token
  /\ now \in Nat
  /\ call \in [Call -> Request]
  /\ granted \in [User -> SUBSET Role]
  /\ lastLive \in [User -> Nat \cup {-1}]
  /\ lastHeld \in [User -> [Role -> Nat \cup {-1}]]
  /\ everNamed \in [Role -> SUBSET Name]

(* Every user_roles row goes back to an AssignUserRole, a registration or the *)
(* seed, although UpdateUser re-inserts rows from a copy it read earlier.     *)
GrantProvenance == \A u \in User : holds[u] \subseteq granted[u]

(* Until the seeded admin begins an admin request nobody does: no sequence of *)
(* public requests gives anyone a role named admin or a token that carries it.*)
NoEscalation ==
  (\A c \in Call : call[c].by # Root) =>
    /\ \A c \in Call : call[c].op \notin AdminOp
    /\ \A u \in User \ {Root} : \A r \in holds[u] : role[r].name # AdminName
    /\ \A t \in token : AdminName \in t.roles => t.sub = Root

(* The interceptor trusts the role names in the token and reads no table, so  *)
(* deleting a user or taking a role away does not stop its tokens.  It stops  *)
(* them within TTL (and the time a login takes): an admin request is admitted *)
(* only for a user who was live, and had a role that has been named admin, no *)
(* longer ago than that.                                                      *)
Recent(t) == now < t + LoginDelay + TTL

RecentAdmin(u) ==
  /\ Recent(lastLive[u])
  /\ \E r \in Role : Recent(lastHeld[u][r]) /\ AdminName \in everNamed[r]

Admitted(c) == call[c].pc = "new" /\ call'[c].pc # "new" /\ call'[c].op \in AdminOp

AuthorityIsRecent == [][\A c \in Call : Admitted(c) => RecentAdmin(call'[c].by)]_vars

(* A deletion is final once no update that read the row before it is still in *)
(* flight: Save revives a deleted user or role, and nothing else does.        *)
UserSettled(u) ==
  user[u] = "deleted" /\ \A c \in Call : ~ (call[c].op = "UpdateUser" /\ call[c].user = u)

RoleSettled(r) ==
  role[r].row = "deleted" /\ \A c \in Call : ~ (call[c].op = "UpdateRole" /\ call[c].role = r)

DeletionSettles == [][/\ \A u \in User : UserSettled(u) => UserSettled(u)'
                      /\ \A r \in Role : RoleSettled(r) => RoleSettled(r)']_vars

(* A role a user does not hold, and that no request in flight has already set *)
(* out to give them, stays away until a new grant of exactly that role begins.*)
Gives(c, u, r) ==
  \/ call[c].op = "AssignUserRole" /\ call[c].user = u /\ call[c].role = r
  \/ call[c].op = "UpdateUser" /\ call[c].user = u /\ r \in call[c].snap
  \/ call[c].op = "Register" /\ user[u] = "absent" /\ r \in call[c].snap

Withheld(u, r) == r \notin holds[u] /\ \A c \in Call : ~ Gives(c, u, r)

RevocationSettles ==
  [][\A u \in User, r \in Role : Withheld(u, r) /\ ~ Withheld(u, r)' =>
       \E c \in Call : /\ call[c].pc = "new" /\ call'[c].op \in {"AssignUserRole", "Register"}
                       /\ Gives(c, u, r)']_vars

(* DeleteUser soft-deletes a user and DeleteRole removes a role: what has been *)
(* deleted does not come back.                                                *)
DeletedStaysDeleted == [][/\ \A u \in User : user[u] = "deleted" => user'[u] = "deleted"
                          /\ \A r \in Role : role[r].row = "deleted" => role'[r].row = "deleted"]_vars
=============================================================================
