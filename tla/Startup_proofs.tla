---------------------------- MODULE Startup_proofs ----------------------------
(***************************************************************************)
(* Proofs about Startup, for any numbers of rows: what a start that serves *)
(* has, why a start fails, and that crashed starts do no harm.             *)
(***************************************************************************)
EXTENDS Startup, TLAPS

\* account a is there if this start asks for it
Kept(a) == config[a] # NotAsked => UsersNamed(config[a].name) # {}

(* What the seeders that are behind the starting process have made sure of.   *)
Sown ==
  /\ phase \in {"role admin", "admin", "demo", "listen"} => RolesNamed(RoleUser) # {}
  /\ phase \in {"admin", "demo", "listen"} => RolesNamed(RoleAdmin) # {}
  /\ phase \in {"demo", "listen"} => Kept("admin")
  /\ phase = "listen" => Kept("demo")

HoldsWanted(u, a) ==
  /\ \A n \in WantedRoles(a) : \E r \in users[u].holds : r \in RolesNamed(n)
  /\ \A r \in users[u].holds : \E n \in WantedRoles(a) : r \in RolesNamed(n)

\* row u is the one a seeder made for x, an account some start asked for
MadeFor(u, x) ==
  /\ users[u].row = "live"
  /\ users[u].name = x[2].name /\ users[u].mail = x[2].mail
  /\ HoldsWanted(u, x[1])

(* Until a client acts, every row is a seeder's: live, and of an account that *)
(* some start asked for, with its roles; what this start asks for is in the   *)
(* history.                                                                   *)
RowsAreSeeded ==
  acted = "nobody" =>
    /\ \A r \in RoleId : roles[r].row \in {"absent", "live"}
    /\ \A u \in UserId : users[u].row # "absent" => \E x \in asked : MadeFor(u, x)

Remembered ==
  acted = "nobody" /\ phase # "down" =>
    \A a \in Account : config[a] # NotAsked => <<a, config[a]>> \in asked

(* And then no start fails while the environments agree about the emails.     *)
NoneFails == acted = "nobody" /\ Compatible => phase \notin {"key taken", "role missing"}

Untouched == RowsAreSeeded /\ Remembered /\ NoneFails

IInv == TypeOK /\ Sown /\ FailureExplained /\ Untouched

-----------------------------------------------------------------------------
LEMMA InitInv == Init => IInv
<1> SUFFICES ASSUME Init PROVE IInv
  OBVIOUS
<1>1. TypeOK
  <2>1. users \in [UserId -> UserRow] /\ roles \in [RoleId -> RoleRow]
    BY DEF Init, UserRow, RoleRow, RowState
  <2> QED BY <2>1 DEF Init, TypeOK, Phase
<1>2. Sown /\ FailureExplained
  BY DEF Init, Sown, FailureExplained
<1>3. Untouched
  BY DEF Init, Untouched, RowsAreSeeded, Remembered, NoneFails
<1> QED BY <1>1, <1>2, <1>3 DEF IInv

-----------------------------------------------------------------------------
(* The seeders. *)

\* either nothing is written, or one role is
LEMMA RoleSeeder ==
  ASSUME TypeOK, NEW n \in {RoleUser, RoleAdmin}, NEW at, NEW next, EnsureRole(n, at, next)
  PROVE  /\ phase = at /\ UNCHANGED <<users, config, acted, asked>> /\ roles' \in [RoleId -> RoleRow]
         /\ \A m : RolesNamed(m) \subseteq RolesNamed(m)'
         /\ \A r \in RoleId : roles'[r].row \in {roles[r].row, "live"}
         /\ \/ phase' = "key taken" /\ RolesNamed(n) = {} /\ RoleKeyTaken(n, {}) /\ roles' = roles
            \/ phase' = next /\ RolesNamed(n)' # {}
<1>1. ASSUME roles' = roles
      PROVE  /\ roles' \in [RoleId -> RoleRow] /\ \A m : RolesNamed(m)' = RolesNamed(m)
             /\ \A r \in RoleId : roles'[r].row \in {roles[r].row, "live"}
  BY <1>1 DEF RolesNamed, TypeOK
<1>2. ASSUME NEW r \in RoleId, FreshRole(r), phase' = next,
             roles' = [roles EXCEPT ![r] = [row |-> "live", name |-> n]]
      PROVE  /\ roles' \in [RoleId -> RoleRow]
             /\ \A m : RolesNamed(m) \subseteq RolesNamed(m)'
             /\ \A s \in RoleId : roles'[s].row \in {roles[s].row, "live"}
             /\ RolesNamed(n)' # {}
  <2>1. [row |-> "live", name |-> n] \in RoleRow
    BY DEF RoleRow, RowState, RoleName, RoleUser, RoleAdmin
  <2>2. roles'[r].row = "live" /\ roles'[r].name = n
        /\ \A s \in RoleId \ {r} : roles'[s] = roles[s]
    BY <1>2 DEF TypeOK
  <2>3. roles' \in [RoleId -> RoleRow]
    <3> HIDE DEF RoleRow
    <3> QED BY <1>2, <2>1 DEF TypeOK
  <2>4. RolesNamed(n)' # {}
    BY <2>2 DEF RolesNamed
  <2>5. \A m : RolesNamed(m) \subseteq RolesNamed(m)'
    BY <1>2, <2>2 DEF RolesNamed, FreshRole
  <2> QED BY <2>2, <2>3, <2>4, <2>5
<1>3. phase = at /\ UNCHANGED <<users, config, acted, asked>>
  BY DEF EnsureRole
<1>4. \/ roles' = roles /\ phase' = next /\ RolesNamed(n) # {}
      \/ roles' = roles /\ phase' = "key taken" /\ RolesNamed(n) = {} /\ RoleKeyTaken(n, {})
      \/ phase' = next /\ \E r \in RoleId : FreshRole(r)
           /\ roles' = [roles EXCEPT ![r] = [row |-> "live", name |-> n]]
  BY DEF EnsureRole
<1> QED BY <1>1, <1>2, <1>3, <1>4

(* How a seeder of account a comes out.                                       *)
Skipped(a, next) == users' = users /\ phase' = next /\ Kept(a)

Missing(a) ==
  users' = users /\ phase' = "role missing" /\ \E n \in WantedRoles(a) : RolesNamed(n) = {}

Taken(a) ==
  /\ users' = users /\ phase' = "key taken" /\ config[a] # NotAsked
  /\ UsersNamed(config[a].name) = {} /\ UserKeyTaken(config[a].name, config[a].mail, {})

Made(a, u, next) ==
  /\ phase' = next /\ config[a] # NotAsked /\ FreshUser(u) /\ users' \in [UserId -> UserRow]
  /\ \A v \in UserId \ {u} : users'[v] = users[v]
  /\ users'[u].row = "live"
  /\ users'[u].name = config[a].name /\ users'[u].mail = config[a].mail
  /\ \A n \in WantedRoles(a) : \E r \in users'[u].holds : r \in RolesNamed(n)
  /\ \A r \in users'[u].holds : \E n \in WantedRoles(a) : r \in RolesNamed(n)

LEMMA AccountSeeder ==
  ASSUME TypeOK, NEW a \in Account, NEW at, NEW next, EnsureAccount(a, at, next)
  PROVE  /\ phase = at /\ UNCHANGED <<roles, config, acted, asked>>
         /\ users' \in [UserId -> UserRow]
         /\ \/ Skipped(a, next) \/ Missing(a) \/ Taken(a)
            \/ \E u \in UserId : Made(a, u, next)
<1> DEFINE name == config[a].name
           mail == config[a].mail
<1>1. phase = at /\ UNCHANGED <<roles, config, acted, asked>>
  BY DEF EnsureAccount
<1>2. ASSUME NEW u \in UserId, NEW held \in SUBSET RoleId, phase' = next, config[a] # NotAsked,
             FreshUser(u), InsertUser(u, name, mail, held),
             \A n \in WantedRoles(a) : \E r \in held : r \in RolesNamed(n),
             \A r \in held : \E n \in WantedRoles(a) : r \in RolesNamed(n)
      PROVE  Made(a, u, next)
  <2>1. name \in Username /\ mail \in Mail /\ name # "" /\ mail # ""
    BY <1>2, NamesAreNotEmpty DEF TypeOK, Asked
  <2>2. [row |-> "live", name |-> name, mail |-> mail, holds |-> held] \in UserRow
    <3> HIDE DEF name, mail
    <3> QED BY <2>1 DEF UserRow, RowState
  <2>3. users' = [users EXCEPT ![u] = [row |-> "live", name |-> name, mail |-> mail, holds |-> held]]
    BY <1>2 DEF InsertUser
  <2> HIDE DEF name, mail
  <2>4. users' \in [UserId -> UserRow]
    <3> HIDE DEF UserRow
    <3> QED BY <2>2, <2>3 DEF TypeOK
  <2>5. /\ \A v \in UserId \ {u} : users'[v] = users[v]
        /\ users'[u] = [row |-> "live", name |-> name, mail |-> mail, holds |-> held]
    BY <2>3 DEF TypeOK
  <2> QED BY <1>2, <2>4, <2>5 DEF Made, name, mail
<1>3. \/ Skipped(a, next) \/ Missing(a) \/ Taken(a)
      \/ /\ phase' = next /\ config[a] # NotAsked
         /\ \E u \in UserId, held \in SUBSET RoleId :
              /\ FreshUser(u) /\ InsertUser(u, name, mail, held)
              /\ \A n \in WantedRoles(a) : \E r \in held : r \in RolesNamed(n)
              /\ \A r \in held : \E n \in WantedRoles(a) : r \in RolesNamed(n)
  BY DEF EnsureAccount, Skipped, Missing, Taken, Kept
<1>4. Skipped(a, next) \/ Missing(a) \/ Taken(a) => users' \in [UserId -> UserRow]
  BY DEF Skipped, Missing, Taken, TypeOK
<1>5. Skipped(a, next) \/ Missing(a) \/ Taken(a) \/ \E u \in UserId : Made(a, u, next)
  BY <1>2, <1>3
<1>6. \A u \in UserId : Made(a, u, next) => users' \in [UserId -> UserRow]
  BY DEF Made
<1> QED BY <1>1, <1>4, <1>5, <1>6

LEMMA SeedCases ==
  ASSUME Seed
  PROVE  \/ EnsureRole(RoleUser, "role user", "role admin")
         \/ EnsureRole(RoleAdmin, "role admin", "admin")
         \/ EnsureAccount("admin", "admin", "demo")
         \/ EnsureAccount("demo", "demo", "listen")
  BY DEF Seed, EnsureRoles, BootstrapAdmin, EnsureDemoUser

\* no lookup of a seeder can miss a role, and the roles there are stay
LEMMA RoleSeederInv ==
  ASSUME IInv, NEW n \in {RoleUser, RoleAdmin}, NEW at, NEW next,
         EnsureRole(n, at, next),
         <<n, at, next>> \in {<<RoleUser, "role user", "role admin">>,
                              <<RoleAdmin, "role admin", "admin">>}
  PROVE  IInv'
<1>0. TypeOK /\ Sown /\ FailureExplained /\ Untouched
  BY DEF IInv
<1>1. /\ phase = at /\ UNCHANGED <<users, config, acted, asked>> /\ roles' \in [RoleId -> RoleRow]
      /\ \A m : RolesNamed(m) \subseteq RolesNamed(m)'
      /\ \A r \in RoleId : roles'[r].row \in {roles[r].row, "live"}
      /\ \/ phase' = "key taken" /\ RolesNamed(n) = {} /\ RoleKeyTaken(n, {}) /\ roles' = roles
         \/ phase' = next /\ RolesNamed(n)' # {}
  BY <1>0, RoleSeeder
<1>2. \/ n = RoleUser /\ at = "role user" /\ next = "role admin"
      \/ n = RoleAdmin /\ at = "role admin" /\ next = "admin"
  OBVIOUS
<1>3. TypeOK'
  BY <1>0, <1>1, <1>2 DEF TypeOK, Phase
<1>4. Sown'
  <2>1. \A a : Kept(a) => Kept(a)'
    BY <1>1 DEF Kept, UsersNamed, UsersLive
  <2> QED BY <1>0, <1>1, <1>2, <2>1 DEF Sown
<1>5. FailureExplained'
  <2>1. RolesNamed(n) = {} /\ RoleKeyTaken(n, {}) /\ roles' = roles
          => RolesNamed(n)' = {} /\ RoleKeyTaken(n, {})'
    BY DEF RolesNamed, RoleKeyTaken
  <2> QED BY <1>1, <1>2, <2>1 DEF FailureExplained, KeyHeldUnseen
<1>6. Untouched'
  <2> SUFFICES ASSUME acted = "nobody" PROVE Untouched'
    BY <1>1 DEF Untouched, RowsAreSeeded, Remembered, NoneFails
  <2>1. /\ \A r \in RoleId : roles[r].row \in {"absent", "live"}
        /\ \A u \in UserId : users[u].row # "absent" => \E x \in asked : MadeFor(u, x)
    BY <1>0 DEF Untouched, RowsAreSeeded
  <2>2. RoleKeyTaken(n, {}) => RolesNamed(n) # {}
    BY <2>1 DEF RoleKeyTaken, RolesNamed
  <2>3. ASSUME NEW u \in UserId, NEW x, MadeFor(u, x) PROVE MadeFor(u, x)'
    BY <1>1, <2>3 DEF MadeFor, HoldsWanted
  <2>4. phase' \notin {"key taken", "role missing"}
    BY <1>1, <1>2, <2>2
  <2>5. \A r \in RoleId : roles'[r].row \in {"absent", "live"}
    BY <1>1, <2>1
  <2>6. RowsAreSeeded'
    BY <1>1, <2>1, <2>3, <2>5 DEF RowsAreSeeded
  <2>7. Remembered'
    BY <1>0, <1>1, <1>2 DEF Remembered, Untouched
  <2>8. NoneFails'
    BY <2>4 DEF NoneFails
  <2> QED BY <2>6, <2>7, <2>8 DEF Untouched
<1> QED BY <1>3, <1>4, <1>5, <1>6 DEF IInv

LEMMA AccountSeederInv ==
  ASSUME IInv, NEW a \in Account, NEW at, NEW next,
         EnsureAccount(a, at, next),
         <<a, at, next>> \in {<<"admin", "admin", "demo">>, <<"demo", "demo", "listen">>}
  PROVE  IInv'
<1>0. TypeOK /\ Sown /\ FailureExplained /\ Untouched
  BY DEF IInv
<1>1. phase = at /\ UNCHANGED <<roles, config, acted, asked>> /\ users' \in [UserId -> UserRow]
  BY <1>0, AccountSeeder
<1>2. Skipped(a, next) \/ Missing(a) \/ Taken(a) \/ \E u \in UserId : Made(a, u, next)
  BY <1>0, AccountSeeder
<1>3. \/ a = "admin" /\ at = "admin" /\ next = "demo"
      \/ a = "demo" /\ at = "demo" /\ next = "listen"
  OBVIOUS
<1>4. ~ Missing(a)
  BY <1>0, <1>1, <1>3 DEF Sown, WantedRoles, Missing
<1>5. phase' \in {next, "key taken"} /\ (phase' = "key taken" => Taken(a))
  BY <1>2, <1>3, <1>4 DEF Skipped, Taken, Made
<1>6. TypeOK'
  BY <1>0, <1>1, <1>3, <1>5 DEF TypeOK, Phase
<1>7. \A m : RolesNamed(m)' = RolesNamed(m)
  BY <1>1 DEF RolesNamed
<1>8. \A b : UsersNamed(b) # {} => UsersNamed(b)' # {}
  <2>1. ASSUME NEW u \in UserId, Made(a, u, next), NEW b PROVE UsersNamed(b) \subseteq UsersNamed(b)'
    BY <2>1 DEF UsersNamed, UsersLive, FreshUser, Made
  <2>2. ASSUME users' = users, NEW b PROVE UsersNamed(b)' = UsersNamed(b)
    BY <2>2 DEF UsersNamed, UsersLive
  <2> QED BY <1>2, <2>1, <2>2 DEF Skipped, Missing, Taken
<1>9. /\ \A b : Kept(b) => Kept(b)'
      /\ phase' = next => Kept(a)'
  <2>1. ASSUME NEW u \in UserId, Made(a, u, next) PROVE UsersNamed(config[a].name)' # {}
    BY <1>1, <2>1 DEF UsersNamed, UsersLive, Made
  <2>2. \A b : Kept(b) => Kept(b)'
    BY <1>1, <1>8 DEF Kept
  <2>3. ASSUME NEW u \in UserId, Made(a, u, next) PROVE Kept(a)'
    BY <1>1, <2>1, <2>3 DEF Kept
  <2> QED BY <1>2, <1>3, <2>2, <2>3 DEF Skipped, Missing, Taken
<1>10. Sown'
  BY <1>0, <1>1, <1>3, <1>5, <1>7, <1>9 DEF Sown
<1>11. FailureExplained'
  <2>1. Taken(a) => /\ config'[a] # NotAsked /\ UsersNamed(config[a].name)' = {}
                    /\ UserKeyTaken(config[a].name, config[a].mail, {})'
    BY <1>1 DEF UsersNamed, UsersLive, UserKeyTaken, Taken
  <2>2. phase' # "role missing" /\ (phase' = "key taken" => Taken(a))
    BY <1>3, <1>5
  <2> QED BY <1>1, <2>1, <2>2 DEF FailureExplained, KeyHeldUnseen
<1>12. Untouched'
  <2> SUFFICES ASSUME acted = "nobody" PROVE Untouched'
    BY <1>1 DEF Untouched, RowsAreSeeded, Remembered, NoneFails
  <2>1. /\ \A r \in RoleId : roles[r].row \in {"absent", "live"}
        /\ \A u \in UserId : users[u].row # "absent" => \E x \in asked : MadeFor(u, x)
    BY <1>0 DEF Untouched, RowsAreSeeded
  <2>2. config[a] # NotAsked => <<a, config[a]>> \in asked
    BY <1>0, <1>1, <1>3 DEF Untouched, Remembered
  <2>3. ASSUME Compatible PROVE ~ Taken(a)
    <3> SUFFICES ASSUME Taken(a) PROVE FALSE
      OBVIOUS
    <3>1. PICK u \in UserId : /\ users[u].row # "absent"
                              /\ users[u].name = config[a].name \/ users[u].mail = config[a].mail
      BY DEF Taken, UserKeyTaken
    <3>2. PICK x \in asked : MadeFor(u, x)
      BY <2>1, <3>1
    <3>3. PICK y : y = <<a, config[a]>>
      OBVIOUS
    <3>4. y \in asked /\ y[2] = config[a]
      BY <2>2, <3>3 DEF Taken
    <3>5. x[2].mail = y[2].mail => x[2].name = y[2].name
      BY <2>3, <3>2, <3>4 DEF Compatible
    <3>6. users[u].row = "live" /\ users[u].name = config[a].name
      BY <3>1, <3>2, <3>4, <3>5 DEF MadeFor
    <3> QED BY <3>6 DEF Taken, UsersNamed, UsersLive
  <2>4. NoneFails'
    <3>1. Compatible' = Compatible
      BY <1>1 DEF Compatible
    <3> QED BY <1>3, <1>5, <2>3, <3>1 DEF NoneFails
  <2>5. Remembered'
    BY <1>0, <1>1, <1>3 DEF Remembered, Untouched
  <2>6. ASSUME NEW v \in UserId, users'[v] = users[v], NEW x, MadeFor(v, x) PROVE MadeFor(v, x)'
    BY <1>7, <2>6 DEF MadeFor, HoldsWanted
  <2>7. RowsAreSeeded'
    <3>1. CASE users' = users
      BY <1>1, <2>1, <2>6, <3>1 DEF RowsAreSeeded
    <3>2. ASSUME NEW u \in UserId, Made(a, u, next) PROVE RowsAreSeeded'
      <4>1. PICK y : y = <<a, config[a]>>
        OBVIOUS
      <4>2. y[1] = a /\ y[2] = config[a] /\ y \in asked
        BY <2>2, <3>2, <4>1 DEF Made
      <4>3. HoldsWanted(u, a)'
        BY <1>7, <3>2 DEF HoldsWanted, Made
      <4>4. MadeFor(u, y)'
        BY <1>1, <3>2, <4>2, <4>3 DEF MadeFor, Made
      <4>5. ASSUME NEW v \in UserId \ {u}, users'[v].row # "absent"
            PROVE  \E x \in asked : MadeFor(v, x)'
        BY <2>1, <2>6, <3>2, <4>5 DEF Made
      <4>6. \A v \in UserId : users'[v].row # "absent" => \E x \in asked' : MadeFor(v, x)'
        BY <1>1, <4>2, <4>4, <4>5
      <4>7. \A r \in RoleId : roles'[r].row \in {"absent", "live"}
        BY <1>1, <2>1
      <4> QED BY <4>6, <4>7 DEF RowsAreSeeded
    <3> QED BY <1>2, <3>1, <3>2 DEF Skipped, Missing, Taken
  <2> QED BY <2>4, <2>5, <2>7 DEF Untouched
<1> QED BY <1>6, <1>10, <1>11, <1>12 DEF IInv

-----------------------------------------------------------------------------
(* The other steps: a start, the listener, a crash, the clients. *)

LEMMA ProcessInv ==
  ASSUME IInv, Start \/ Listen \/ Crash
  PROVE  IInv'
<1>0. TypeOK /\ Untouched /\ UNCHANGED <<users, roles, acted>>
  BY DEF IInv, Start, Listen, Crash
<1> DEFINE Asks(conf) == {<<a, conf[a]>> : a \in {b \in Account : conf[b] # NotAsked}}
<1>a. ASSUME Start
      PROVE  /\ config' \in [Account -> Asked \cup {NotAsked}] /\ asked' \subseteq Account \X Asked
             /\ acted = "nobody" => asked \subseteq asked'
             /\ Remembered'
  <2>1. PICK conf \in [Account -> Asked \cup {NotAsked}] :
          config' = conf /\ asked' = IF acted # "nobody" THEN {} ELSE asked \cup Asks(conf)
    BY <1>a DEF Start
  <2>2. Asks(conf) \subseteq Account \X Asked
    <3> HIDE DEF Asked, NotAsked
    <3> QED OBVIOUS
  <2>3. acted = "nobody" => \A a \in Account : conf[a] # NotAsked => <<a, conf[a]>> \in asked'
    BY <2>1
  <2> HIDE DEF Asks
  <2>4. asked' \subseteq Account \X Asked /\ (acted = "nobody" => asked \subseteq asked')
    BY <1>0, <2>1, <2>2 DEF TypeOK
  <2>5. Remembered'
    BY <1>0, <2>1, <2>3 DEF Remembered
  <2> QED BY <2>1, <2>4, <2>5
<1>b. ASSUME Listen \/ Crash
      PROVE  /\ config' \in [Account -> Asked \cup {NotAsked}] /\ asked' \subseteq Account \X Asked
             /\ acted = "nobody" => asked \subseteq asked'
             /\ Remembered'
  BY <1>0, <1>b DEF Listen, Crash, TypeOK, Remembered, Untouched
<1>c. /\ config' \in [Account -> Asked \cup {NotAsked}] /\ asked' \subseteq Account \X Asked
      /\ acted = "nobody" => asked \subseteq asked'
      /\ Remembered'
  BY <1>a, <1>b
<1>1. TypeOK'
  BY <1>0, <1>c DEF Start, Listen, Crash, TypeOK, Phase
<1>2. phase' \in {"role user", "serving", "down"}
  BY DEF Start, Listen, Crash
<1>3. Untouched'
  <2>1. ASSUME NEW u \in UserId, NEW x, MadeFor(u, x) PROVE MadeFor(u, x)'
    BY <1>0, <2>1 DEF MadeFor, HoldsWanted, RolesNamed
  <2>2. RowsAreSeeded'
    BY <1>0, <1>c, <2>1 DEF Untouched, RowsAreSeeded
  <2>3. NoneFails'
    BY <1>2 DEF NoneFails
  <2> QED BY <1>c, <2>2, <2>3 DEF Untouched
<1> QED BY <1>1, <1>2, <1>3 DEF IInv, Sown, FailureExplained

LEMMA UserRowInserted ==
  ASSUME TypeOK, NEW u \in UserId, NEW n \in Username, NEW m \in Mail,
         NEW held \in SUBSET RoleId, InsertUser(u, n, m, held)
  PROVE  users' \in [UserId -> UserRow]
<1>1. [row |-> "live", name |-> n, mail |-> m, holds |-> held] \in UserRow
  BY NamesAreNotEmpty DEF UserRow, RowState
<1> HIDE DEF UserRow
<1> QED BY <1>1 DEF InsertUser, TypeOK

LEMMA ClientInv ==
  ASSUME IInv, UserRequest \/ RoleRequest
  PROVE  IInv'
<1>0. TypeOK
  BY DEF IInv
<1>1. phase = "serving" /\ acted' \in {"client", "administrator"} /\ UNCHANGED <<phase, config>>
      /\ asked' = {}
  BY <1>0 DEF UserRequest, RoleRequest, Register, CreateUser, UpdateUser, DeleteUser,
              CreateRole, UpdateRole, DeleteRole, Administer, TypeOK
<1>2. users' \in [UserId -> UserRow]
  <2>1. ASSUME NEW u \in UserId, NEW n \in Username, NEW m \in Mail, Register(u, n, m)
        PROVE  users' \in [UserId -> UserRow]
    <3>1. RolesNamed(RoleUser) \in SUBSET RoleId
      BY DEF RolesNamed
    <3> QED BY <1>0, <2>1, <3>1, UserRowInserted DEF Register
  <2>2. ASSUME NEW u \in UserId, NEW n \in Username, NEW m \in Mail, CreateUser(u, n, m)
        PROVE  users' \in [UserId -> UserRow]
    BY <1>0, <2>2, UserRowInserted DEF CreateUser
  <2>3. ASSUME NEW u \in UserId, NEW n \in Username, NEW m \in Mail, UpdateUser(u, n, m)
        PROVE  users' \in [UserId -> UserRow]
    <3>1. n # "" /\ m # ""
      BY NamesAreNotEmpty
    <3>2. [users[u] EXCEPT !.name = n, !.mail = m] \in UserRow
      BY <1>0, <3>1 DEF TypeOK, UserRow
    <3>3. users' = [users EXCEPT ![u] = [users[u] EXCEPT !.name = n, !.mail = m]]
      BY <1>0, <2>3 DEF UpdateUser, TypeOK
    <3> HIDE DEF UserRow
    <3> QED BY <1>0, <3>2, <3>3 DEF TypeOK
  <2>4. ASSUME NEW u \in UserId, DeleteUser(u) PROVE users' \in [UserId -> UserRow]
    <3>1. users[u] \in UserRow /\ users[u].row = "live"
      BY <1>0, <2>4 DEF DeleteUser, TypeOK
    <3>2. [users[u] EXCEPT !.row = "deleted"] \in UserRow
      BY <3>1 DEF UserRow, RowState
    <3>3. users' = [users EXCEPT ![u] = [users[u] EXCEPT !.row = "deleted"]]
      BY <1>0, <2>4 DEF DeleteUser, TypeOK
    <3> HIDE DEF UserRow
    <3> QED BY <1>0, <3>2, <3>3 DEF TypeOK
  <2>5. RoleRequest => users' = users
    BY DEF RoleRequest, CreateRole, UpdateRole, DeleteRole
  <2>6. users' = users => users' \in [UserId -> UserRow]
    BY <1>0 DEF TypeOK
  <2> QED BY <2>1, <2>2, <2>3, <2>4, <2>5, <2>6 DEF UserRequest
<1>3. roles' \in [RoleId -> RoleRow]
  <2>1. ASSUME NEW r \in RoleId, NEW n \in RoleName, CreateRole(r, n) \/ UpdateRole(r, n)
        PROVE  roles' \in [RoleId -> RoleRow]
    <3>1. [row |-> "live", name |-> n] \in RoleRow /\ n # ""
      BY DEF RoleRow, RowState, RoleName, RoleUser, RoleAdmin
    <3>2. roles[r] \in RoleRow => [roles[r] EXCEPT !.name = n] \in RoleRow
      BY <3>1 DEF RoleRow
    <3>3. \/ roles' = [roles EXCEPT ![r] = [row |-> "live", name |-> n]]
          \/ roles' = [roles EXCEPT ![r] = [roles[r] EXCEPT !.name = n]]
      BY <1>0, <2>1 DEF CreateRole, UpdateRole, TypeOK
    <3> HIDE DEF RoleRow
    <3> QED BY <1>0, <3>1, <3>2, <3>3 DEF TypeOK
  <2>2. ASSUME NEW r \in RoleId, DeleteRole(r) PROVE roles' \in [RoleId -> RoleRow]
    <3>1. roles[r] \in RoleRow /\ roles[r].row = "live"
      BY <1>0, <2>2 DEF DeleteRole, TypeOK
    <3>2. [roles[r] EXCEPT !.row = "deleted"] \in RoleRow
      BY <3>1 DEF RoleRow, RowState
    <3>3. roles' = [roles EXCEPT ![r] = [roles[r] EXCEPT !.row = "deleted"]]
      BY <1>0, <2>2 DEF DeleteRole, TypeOK
    <3> HIDE DEF RoleRow
    <3> QED BY <1>0, <3>2, <3>3 DEF TypeOK
  <2>3. UserRequest => roles' = roles
    BY DEF UserRequest, Register, CreateUser, UpdateUser, DeleteUser
  <2>4. roles' = roles => roles' \in [RoleId -> RoleRow]
    BY <1>0 DEF TypeOK
  <2> QED BY <2>1, <2>2, <2>3, <2>4 DEF RoleRequest
<1>4. TypeOK'
  BY <1>0, <1>1, <1>2, <1>3 DEF TypeOK
<1>5. Sown' /\ FailureExplained' /\ Untouched'
  BY <1>1 DEF Sown, FailureExplained, Untouched, RowsAreSeeded, Remembered, NoneFails
<1> QED BY <1>4, <1>5 DEF IInv

LEMMA InvStep == IInv /\ [Next]_vars => IInv'
<1> SUFFICES ASSUME IInv, [Next]_vars PROVE IInv'
  OBVIOUS
<1>1. CASE Seed
  BY <1>1, SeedCases, RoleSeederInv, AccountSeederInv DEF Account
<1>2. CASE Start \/ Listen \/ Crash
  BY <1>2, ProcessInv
<1>3. CASE UserRequest \/ RoleRequest
  BY <1>3, ClientInv
<1>4. CASE UNCHANGED vars
  <2> USE <1>4 DEF vars, RolesNamed, UsersNamed, UsersLive
  <2>1. TypeOK' /\ Sown'
    BY DEF IInv, TypeOK, Sown, Kept
  <2>2. FailureExplained'
    BY DEF IInv, FailureExplained, KeyHeldUnseen, RoleKeyTaken, UserKeyTaken
  <2>3. Untouched'
    <3>1. \A u \in UserId, x \in asked : MadeFor(u, x) => MadeFor(u, x)'
      BY DEF MadeFor, HoldsWanted
    <3>2. RowsAreSeeded'
      BY <3>1 DEF IInv, Untouched, RowsAreSeeded
    <3>3. Remembered' /\ NoneFails'
      BY DEF IInv, Untouched, Remembered, NoneFails, Compatible
    <3> QED BY <3>2, <3>3 DEF Untouched
  <2> QED BY <2>1, <2>2, <2>3 DEF IInv
<1> QED BY <1>1, <1>2, <1>3, <1>4 DEF Next

LEMMA Invariant == Spec => []IInv
<1>1. Init => IInv
  BY InitInv
<1>2. IInv /\ [Next]_vars => IInv'
  BY InvStep
<1> QED BY <1>1, <1>2, PTL DEF Spec

-----------------------------------------------------------------------------
(* Startup's state keeps its types, through any starts, crashes and requests. *)
THEOREM TypeCorrect == Spec => []TypeOK
<1>1. IInv => TypeOK
  BY DEF IInv
<1> QED BY <1>1, Invariant, PTL

(* A seeder of bootstrap.Run fails only on a unique key that a row its lookup *)
(* does not see is holding; it never misses a role.                           *)
THEOREM FailuresExplained == Spec => []FailureExplained
<1>1. IInv => FailureExplained
  BY DEF IInv
<1> QED BY <1>1, Invariant, PTL

(* Until a client acts and as long as the environments agree about the emails *)
(* of the accounts they ask for, no start fails, however many were cut short  *)
(* and however often the usernames changed; every account is one that some    *)
(* start asked for and holds exactly the roles it is meant to.                *)
THEOREM SeedingIsCrashSafe == Spec => []CrashSafeSeeding
<1>1. IInv => CrashSafeSeeding
  <2> SUFFICES ASSUME IInv, acted = "nobody", Compatible
               PROVE  /\ phase \notin {"key taken", "role missing"}
                      /\ UsersLive = SeededAs("admin") \cup SeededAs("demo")
                      /\ Holders(RoleAdmin) = SeededAs("admin")
                      /\ Holders(RoleUser) = UsersLive
    BY DEF CrashSafeSeeding
  <2>1. phase \notin {"key taken", "role missing"}
    BY DEF IInv, Untouched, NoneFails
  <2>2. RolesNamed(RoleAdmin) \cap RolesNamed(RoleUser) = {}
    BY DEF RolesNamed, RoleAdmin, RoleUser
  <2>3. ASSUME NEW u \in UsersLive
        PROVE  \E a \in Account : u \in SeededAs(a) /\ HoldsWanted(u, a)
    <3>1. PICK x \in asked : MadeFor(u, x)
      BY DEF IInv, Untouched, RowsAreSeeded, UsersLive
    <3>2. x[1] \in Account
      BY DEF IInv, TypeOK
    <3> QED BY <3>1, <3>2 DEF MadeFor, SeededAs
  <2>4. ASSUME NEW u \in UsersLive, u \in SeededAs("admin"), u \in SeededAs("demo") PROVE FALSE
    BY <2>4 DEF SeededAs, Compatible
  <2>5. ASSUME NEW u \in UsersLive, HoldsWanted(u, "admin")
        PROVE  u \in Holders(RoleAdmin) /\ u \in Holders(RoleUser)
    BY <2>5 DEF HoldsWanted, WantedRoles, Holders
  <2>6. ASSUME NEW u \in UsersLive, HoldsWanted(u, "demo")
        PROVE  u \notin Holders(RoleAdmin) /\ u \in Holders(RoleUser)
    BY <2>2, <2>6 DEF HoldsWanted, WantedRoles, Holders
  <2>7. Holders(RoleAdmin) \subseteq UsersLive /\ Holders(RoleUser) \subseteq UsersLive
    BY DEF Holders
  <2>8. \A a : SeededAs(a) \subseteq UsersLive
    BY DEF SeededAs
  <2> QED BY <2>1, <2>3, <2>4, <2>5, <2>6, <2>7, <2>8 DEF Account
<1> QED BY <1>1, Invariant, PTL

(* When service-b begins to serve, the default roles and the accounts it was  *)
(* asked for are there.                                                       *)
THEOREM ServingIsSeeded == Spec => ServesSeeded
<1>1. IInv /\ [Next]_vars => [phase # "serving" /\ phase' = "serving" => Seeded]_vars
  <2> SUFFICES ASSUME IInv, Next, phase # "serving", phase' = "serving" PROVE Seeded
    OBVIOUS
  <2>1. phase = "listen"
    BY DEF Next, Start, Seed, EnsureRoles, EnsureRole, BootstrapAdmin, EnsureDemoUser,
           EnsureAccount, Listen, Crash, UserRequest, RoleRequest, Register, CreateUser,
           UpdateUser, DeleteUser, CreateRole, UpdateRole, DeleteRole, Administer
  <2>2. /\ RolesNamed(RoleUser) # {} /\ RolesNamed(RoleAdmin) # {}
        /\ \A a \in Account : Kept(a)
    BY <2>1 DEF IInv, Sown, Account
  <2> QED BY <2>2 DEF Seeded, Kept, RolesNamed, UsersNamed, UsersLive
<1> QED BY <1>1, Invariant, PTL DEF Spec, ServesSeeded

-----------------------------------------------------------------------------
(* How far README.md's "ensure default accounts exist" goes: a start that has *)
(* run to its end leaves the accounts it was asked for, unless it failed on a *)
(* unique key that a row holds which the seeders' lookups do not see.         *)
AccountsOrKeyHeld ==
  [][phase' \in {"serving", "key taken", "role missing"} /\ phase' # phase
       => \/ \A a \in Account : Kept(a)
          \/ phase' = "key taken" /\ KeyHeldUnseen']_vars

(* Nothing else keeps a start from ensuring the accounts, whatever clients    *)
(* renamed and deleted and wherever earlier starts were cut short.            *)
THEOREM StartsEndWell == Spec => AccountsOrKeyHeld
<1> DEFINE Ends == phase' \in {"serving", "key taken", "role missing"} /\ phase' # phase
           Goal == \/ \A a \in Account : Kept(a)
                   \/ phase' = "key taken" /\ KeyHeldUnseen'
<1>1. ASSUME FailureExplained', [phase # "serving" /\ phase' = "serving" => Seeded]_vars
      PROVE  [Ends => Goal]_vars
  <2> SUFFICES ASSUME Ends, ~ UNCHANGED vars PROVE Goal
    OBVIOUS
  <2>1. CASE phase' = "serving"
    BY <1>1, <2>1 DEF Seeded, Kept, UsersNamed, UsersLive
  <2>2. CASE phase' # "serving"
    BY <1>1, <2>2 DEF FailureExplained
  <2> QED BY <2>1, <2>2
<1>2. FailureExplained' /\ [phase # "serving" /\ phase' = "serving" => Seeded]_vars
        => [Ends => Goal]_vars
  BY <1>1
<1> QED
  BY <1>2, FailuresExplained, ServingIsSeeded, PTL DEF ServesSeeded, AccountsOrKeyHeld
=============================================================================
