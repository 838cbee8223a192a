------------------------------- MODULE Startup -------------------------------
(***************************************************************************)
(* How service-b starts: bootstrap.Run seeds the default roles and         *)
(* accounts into a database that outlives the process, then serves.        *)
(*                                                                         *)
(* A crash may come between two seeders, and each seeder is one step: only *)
(* the starting process writes the database, and a seeder writes at most   *)
(* once after it has read (EnsureRoles once per role).  While the process  *)
(* serves, administrators rename and delete the very rows that were        *)
(* seeded; Directory models those operations statement by statement, and   *)
(* here they are single steps on the unique keys the seeders look up.  The *)
(* usernames and emails of the two accounts come from the environment, and *)
(* each start may find another environment.                                *)
(***************************************************************************)
EXTENDS Integers

CONSTANTS
  UserId, RoleId,   \* the ids rows may come to have
  Username, Mail    \* the usernames and emails the environment and the clients use

ASSUME NamesAreNotEmpty == "" \notin Username \cup Mail

RoleUser  == "user"
RoleAdmin == "admin"
RoleName  == {RoleUser, RoleAdmin, "other"}

\* the accounts the seeders may be asked for, and the roles each is meant to have
Account == {"admin", "demo"}
WantedRoles(a) == IF a = "admin" THEN {RoleUser, RoleAdmin} ELSE {RoleUser}

\* what the environment says of one account: nothing, or a username and an email
\* (the email is the one it sets, or the one the seeder derives from the username)
NotAsked == [name |-> "", mail |-> ""]
Asked == [name : Username, mail : Mail]

VARIABLES
  users,   \* the users table, with the role ids joined to each row
  roles,   \* the roles table
  phase,   \* where the process is
  config,  \* the accounts the environment of this start asks for
  acted,   \* whether anyone has changed a row while it served
  asked    \* history, until somebody has: the accounts the starts have asked for

vars == <<users, roles, phase, config, acted, asked>>

RowState == {"absent", "live", "deleted"}
Phase == {"down", "role user", "role admin", "admin", "demo", "listen", "serving",
          "key taken", "role missing"}

\* a row there is, deleted or not, has a name, and a user an email
UserRow ==
  {u \in [row : RowState, name : Username \cup {""}, mail : Mail \cup {""},
          holds : SUBSET RoleId] : u.row = "absent" \/ "" \notin {u.name, u.mail}}

RoleRow ==
  {r \in [row : RowState, name : RoleName \cup {""}] : r.row = "absent" \/ r.name # ""}

-----------------------------------------------------------------------------
(* Reads are scoped to live rows; the unique indexes cover deleted ones.     *)

\* mutant: Count is Unscoped
RolesNamedUnscoped(n) == {r \in RoleId : roles[r].row # "absent" /\ roles[r].name = n}

RolesNamed(n) == {r \in RoleId : roles[r].row = "live" /\ roles[r].name = n}
UsersLive == {u \in UserId : users[u].row = "live"}
UsersNamed(n) == {u \in UsersLive : users[u].name = n}

RoleKeyTaken(n, but) ==
  \E r \in RoleId \ but : roles[r].row # "absent" /\ roles[r].name = n

UserKeyTaken(n, m, but) ==
  \E u \in UserId \ but : users[u].row # "absent" /\ (users[u].name = n \/ users[u].mail = m)

\* a row an INSERT may come to have, and the row it makes
FreshRole(r) == roles[r].row = "absent"
FreshUser(u) == users[u].row = "absent"

\* mutant: the email is left empty
InsertUserWithoutMail(u, n, m, held) ==
  users' = [users EXCEPT ![u] = [row |-> "live", name |-> n, mail |-> "", holds |-> held]]

InsertUser(u, n, m, held) ==
  users' = [users EXCEPT ![u] = [row |-> "live", name |-> n, mail |-> m, holds |-> held]]

-----------------------------------------------------------------------------
(* bootstrap.Run: the seeders in their order, then the listener. *)

Start ==
  /\ phase \in {"down", "key taken", "role missing"}
  /\ \E conf \in [Account -> Asked \cup {NotAsked}] :
       /\ config' = conf
       /\ asked' = IF acted # "nobody" THEN {}
                   ELSE asked \cup {<<a, conf[a]>> : a \in {b \in Account : conf[b] # NotAsked}}
  /\ phase' = "role user"
  /\ UNCHANGED <<users, roles, acted>>

EnsureRole(n, at, next) ==
  /\ phase = at
  /\ \/ /\ RolesNamed(n) # {}
        /\ phase' = next
        /\ UNCHANGED roles
     \/ /\ RolesNamed(n) = {} /\ RoleKeyTaken(n, {})
        /\ phase' = "key taken"
        /\ UNCHANGED roles
     \/ /\ RolesNamed(n) = {} /\ ~ RoleKeyTaken(n, {})
        /\ \E r \in RoleId : /\ FreshRole(r)
                             /\ roles' = [roles EXCEPT ![r] = [row |-> "live", name |-> n]]
        /\ phase' = next
  /\ UNCHANGED <<users, config, acted, asked>>

\* mutant: the roles are looked up and not attached
EnsureAccountWithoutRoles(a, at, next) ==
  LET name == config[a].name
      mail == config[a].mail
  IN  /\ phase = at
      /\ \/ /\ config[a] = NotAsked \/ UsersNamed(name) # {}
            /\ phase' = next /\ UNCHANGED users
         \/ /\ config[a] # NotAsked /\ ~ UserKeyTaken(name, mail, {})
            /\ \E u \in UserId : FreshUser(u) /\ InsertUser(u, name, mail, {})
            /\ phase' = next
      /\ UNCHANGED <<roles, config, acted, asked>>

\* the account is skipped when it is not asked for or its username is found;
\* otherwise its roles are looked up by name and it is created with them, unless
\* a row that is there, seen or not, has the username or the email
EnsureAccount(a, at, next) ==
  LET name == config[a].name
      mail == config[a].mail
  IN  /\ phase = at
      /\ \/ /\ config[a] = NotAsked \/ UsersNamed(name) # {}
            /\ phase' = next
            /\ UNCHANGED users
         \/ /\ config[a] # NotAsked /\ UsersNamed(name) = {}
            /\ \E n \in WantedRoles(a) : RolesNamed(n) = {}
            /\ phase' = "role missing"
            /\ UNCHANGED users
         \/ /\ config[a] # NotAsked /\ UsersNamed(name) = {}
            /\ \A n \in WantedRoles(a) : RolesNamed(n) # {}
            /\ UserKeyTaken(name, mail, {})
            /\ phase' = "key taken"
            /\ UNCHANGED users
         \/ /\ config[a] # NotAsked /\ ~ UserKeyTaken(name, mail, {})
            /\ \E u \in UserId, held \in SUBSET RoleId :
                 /\ FreshUser(u)
                 /\ \A n \in WantedRoles(a) : \E r \in held : r \in RolesNamed(n)
                 /\ \A r \in held : \E n \in WantedRoles(a) : r \in RolesNamed(n)
                 /\ InsertUser(u, name, mail, held)
            /\ phase' = next
      /\ UNCHANGED <<roles, config, acted, asked>>

BootstrapAdmin == EnsureAccount("admin", "admin", "demo")
EnsureDemoUser == EnsureAccount("demo", "demo", "listen")

\* mutant: EnsureRoles gives up its second role
EnsureFirstRoleOnly ==
  EnsureRole(RoleUser, "role user", "admin") \/ EnsureRole(RoleAdmin, "role admin", "admin")

EnsureRoles ==
  EnsureRole(RoleUser, "role user", "role admin") \/ EnsureRole(RoleAdmin, "role admin", "admin")

Listen ==
  /\ phase = "listen"
  /\ phase' = "serving"
  /\ UNCHANGED <<users, roles, config, acted, asked>>

\* the process is killed, or a statement of a seeder fails and Run returns
Crash ==
  /\ phase \notin {"down", "key taken", "role missing"}
  /\ phase' = "down"
  /\ UNCHANGED <<users, roles, config, acted, asked>>

-----------------------------------------------------------------------------
(* What clients do to these rows meanwhile. *)

Holders(n) == {u \in UsersLive : RolesNamed(n) \cap users[u].holds # {}}

\* somebody is an administrator, or was one and may still hold a token
Administer ==
  /\ phase = "serving"
  /\ acted = "administrator" \/ Holders(RoleAdmin) # {}
  /\ acted' = "administrator" /\ asked' = {}
  /\ UNCHANGED <<phase, config>>

Register(u, n, m) ==
  /\ phase = "serving"
  /\ RolesNamed(RoleUser) # {}
  /\ FreshUser(u) /\ ~ UserKeyTaken(n, m, {})
  /\ InsertUser(u, n, m, RolesNamed(RoleUser))
  /\ acted' = IF acted = "nobody" THEN "client" ELSE acted
  /\ asked' = {}
  /\ UNCHANGED <<roles, phase, config>>

CreateUser(u, n, m) ==
  /\ Administer
  /\ FreshUser(u) /\ ~ UserKeyTaken(n, m, {})
  /\ InsertUser(u, n, m, {})
  /\ UNCHANGED roles

UpdateUser(u, n, m) ==
  /\ Administer
  /\ users[u].row = "live" /\ ~ UserKeyTaken(n, m, {u})
  /\ users' = [users EXCEPT ![u].name = n, ![u].mail = m]
  /\ UNCHANGED roles

DeleteUser(u) ==
  /\ Administer
  /\ users[u].row = "live"
  /\ users' = [users EXCEPT ![u].row = "deleted"]
  /\ UNCHANGED roles

CreateRole(r, n) ==
  /\ Administer
  /\ FreshRole(r) /\ ~ RoleKeyTaken(n, {})
  /\ roles' = [roles EXCEPT ![r] = [row |-> "live", name |-> n]]
  /\ UNCHANGED users

UpdateRole(r, n) ==
  /\ Administer
  /\ roles[r].row = "live" /\ ~ RoleKeyTaken(n, {r})
  /\ roles' = [roles EXCEPT ![r].name = n]
  /\ UNCHANGED users

DeleteRole(r) ==
  /\ Administer
  /\ roles[r].row = "live"
  /\ roles' = [roles EXCEPT ![r].row = "deleted"]
  /\ UNCHANGED users

-----------------------------------------------------------------------------
Init ==
  /\ users = [u \in UserId |-> [row |-> "absent", name |-> "", mail |-> "", holds |-> {}]]
  /\ roles = [r \in RoleId |-> [row |-> "absent", name |-> ""]]
  /\ phase = "down"
  /\ config = [a \in Account |-> NotAsked]
  /\ acted = "nobody"
  /\ asked = {}

Seed == EnsureRoles \/ BootstrapAdmin \/ EnsureDemoUser

UserRequest ==
  \/ \E u \in UserId, n \in Username, m \in Mail :
       Register(u, n, m) \/ CreateUser(u, n, m) \/ UpdateUser(u, n, m)
  \/ \E u \in UserId : DeleteUser(u)

RoleRequest ==
  \/ \E r \in RoleId, n \in RoleName : CreateRole(r, n) \/ UpdateRole(r, n)
  \/ \E r \in RoleId : DeleteRole(r)

Next == Start \/ Seed \/ Listen \/ Crash \/ UserRequest \/ RoleRequest

Spec == Init /\ [][Next]_vars
-----------------------------------------------------------------------------
(* Properties. *)

TypeOK ==
  /\ users \in [UserId -> UserRow]
  /\ roles \in [RoleId -> RoleRow]
  /\ phase \in Phase
  /\ config \in [Account -> Asked \cup {NotAsked}]
  /\ acted \in {"nobody", "client", "administrator"}
  /\ asked \subseteq Account \X Asked

(* A process that serves has its default roles and every account it was asked *)
(* for, whatever earlier starts left half done and whatever was renamed or    *)
(* deleted in between.                                                        *)
Seeded ==
  /\ \A n \in {RoleUser, RoleAdmin} : \E r \in RoleId :
       roles[r].row = "live" /\ roles[r].name = n
  /\ \A a \in Account : config[a] # NotAsked =>
       \E u \in UserId : users[u].row = "live" /\ users[u].name = config[a].name

ServesSeeded == [][phase # "serving" /\ phase' = "serving" => Seeded]_vars

(* The environments so far asked for accounts that can live side by side: the *)
(* two accounts never by one name, and never by two names for one email.      *)
Compatible ==
  \A x, y \in asked : /\ x[2].mail = y[2].mail => x[2].name = y[2].name
                      /\ x[2].name = y[2].name => x[1] = y[1]

\* the live rows that some start asked for as account a
SeededAs(a) == {u \in UsersLive : \E x \in asked : x[1] = a /\ x[2].name = users[u].name}

(* Until a client acts, and as long as the environments agree about the       *)
(* emails, crashed starts and changed usernames do no harm: no start fails,   *)
(* every account is one that was asked for, and each holds exactly the roles  *)
(* it is meant to.                                                            *)
CrashSafeSeeding ==
  acted = "nobody" /\ Compatible =>
    /\ phase \notin {"key taken", "role missing"}
    /\ UsersLive = SeededAs("admin") \cup SeededAs("demo")
    /\ Holders(RoleAdmin) = SeededAs("admin")
    /\ Holders(RoleUser) = UsersLive

(* The seeders run in an order in which no role lookup can miss: a start that *)
(* fails does so because a unique key is held by a row the lookup cannot see: *)
(* a deleted one, a renamed one, or a live one with the email and not the     *)
(* name.                                                                      *)
KeyHeldUnseen ==
  \/ \E n \in {RoleUser, RoleAdmin} : RolesNamed(n) = {} /\ RoleKeyTaken(n, {})
  \/ \E a \in Account : /\ config[a] # NotAsked
                        /\ UsersNamed(config[a].name) = {}
                        /\ UserKeyTaken(config[a].name, config[a].mail, {})

FailureExplained ==
  phase # "role missing" /\ (phase = "key taken" => KeyHeldUnseen)

(* README.md: on each start, seeders ensure default accounts exist.  A start  *)
(* that has run to its end, well or badly, leaves the accounts it was asked   *)
(* for.                                                                       *)
EachStartEnsuresAccounts ==
  [][phase' \in {"serving", "key taken", "role missing"} /\ phase' # phase
       => \A a \in Account : config[a] # NotAsked => UsersNamed(config[a].name) # {}]_vars
=============================================================================
