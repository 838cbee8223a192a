# easy-devops in TLA+

Specifications of the easy-devops system, the TLC configurations that check them
on small instances, and proofs, checked by TLAPS, of what holds for every size.
They are about what a unit test hardly reaches: statements of concurrent requests
in any order, copies read before a change and written after it, tokens that
outlive what they say, crashes between two writes, a broker that does not answer.

`tlc -config X.cfg M` checks a configuration; `PROJECT.json` lists which module and
configuration belong together, which lines of the source each definition models
(`map`), which mutation of the code each property catches (`mutants`; the mutated
operators stand, marked "mutant", in front of the operators they replace), the
hazards the properties are for, and the disagreements found.
`tlapm X_proofs.tla` checks the proofs about module `X`.

## 1. Inventory

| Part | State | Operations | What makes it hard |
|---|---|---|---|
| **service-b: UserService, RoleService** (`services/service-b/internal/grpcserver`) | tables `users`, `roles`, `user_roles` in PostgreSQL; soft deletion | CreateUser, UpdateUser, DeleteUser, CreateRole, UpdateRole, DeleteRole, AssignUserRole, RemoveUserRole, reads | a goroutine per request, a transaction per statement; `Save` writes back a copy read earlier |
| **service-b: interceptor, JWT** (`interceptor.go`, `auth/jwt.go`) | none; the claims are the state, and live in the clients | admit a call, `requireClaims`, `requireAdmin` | claims are believed until they expire |
| **service-b: AuthService** (`auth_service.go`) | `password_hash`, `refresh_tokens`, `password_reset_tokens` | Register, Login, Logout, Me, ForgotPassword, ResetPassword | check-then-act over several statements; an ignored error; expiry |
| **service-b: seed, bootstrap** | the same tables, and the environment | EnsureRoles, BootstrapAdmin, EnsureDemoUser, listen | crashes between seeders; lookups that skip deleted rows under unique indexes that do not |
| **service-b: Kafka producer** (`kafka/producer.go`, `kafka_publish.go`) | the queues of two kafka-go Writers | publish after each change, strict or best effort | commit and publish are two steps; timeouts, retries, clients that leave |
| **service-a: REST gateway, audit log** (`services/service-a/src`) | `AuditLog` in MongoDB | a route per RPC, an audit row per change, `GET /audit-logs` | the audit row may be lost; a search over a window |
| **service-c: consumer** (`services/service-c/src`) | the group's offsets | discover topics, consume, log | auto-commit, skipped messages, topics that come later |
| **frontend-a: shell** (`auth/AuthContext.tsx`) | tokens in localStorage, React state | login, logout, resync, refreshMe | answers that come back after the session changed |
| **frontend-c, frontend-b: widgets** | lists, busy flags | edit, delete, grant, reload | reloads out of order, one busy slot for all rows |
| protos, generated code, compose files, Terraform, Ansible, Puppet, CI | | | configuration; no behaviour of its own |

A browser calls the gateway over REST; the gateway forwards each call over gRPC to
service-b, passing the Authorization header on, and writes an audit row after a
change. service-b is the only writer of PostgreSQL, and publishes an event to Kafka
after each change; service-c reads all topics and logs them.

What would make each part correct:

* *directory*: nobody has a role without a grant; deleting and revoking is final;
  admin calls are made by people who are, or were a moment ago, administrators.
* *credentials*: a reset token works in its time, for its user, and not after a
  reset; an old password does not come back; logging out ends one session.
* *start-up*: a process that serves has its roles and accounts, whatever happened.
* *events*: no event without its write; under `KAFKA_STRICT` no success without its
  event; otherwise publishing fails nobody; events in order; everybody is answered.
* *gateway*: a change is answered as it ended, whatever the audit log does; who reads the
  log is an administrator by what service-b reads then; a listing is the newest rows there are.
* *consumer*: every event is processed at least once, or it is known which are not.
* *shell*: the user shown is the one the tab's token is for, or it is known why not; tokens
  that were removed are not sent; loading ends.
* *widgets*: when everything has ended the table shows what was done, no button stays
  disabled.

## 2. Plan

| # | Module | Models | State |
|---|---|---|---|
| 1 | `Directory`, `Directory_proofs` | users, roles, grants, claims | done; six theorems |
| 2 | `Startup`, `Startup_proofs` | seeders, crashes, restarts | done; five theorems |
| 3 | `Credentials`, `Credentials_proofs` | passwords, refresh and reset tokens | done; six theorems |
| 4 | `EventLog`, `Publish`, `Publish_proofs` | the promise about events, and the handler with the Writer that keep it | done; refinement checked and proved; eight theorems |
| 5 | `Gateway`, `Gateway_proofs` | service-a: a route's check, call, audit row and answer; the audit log | done; five theorems |
| 6 | `Delivery`, `Delivery_proofs` | service-c: discovery, offsets, restarts | done; three theorems |
| 7 | `Session`, `Session_proofs` | the shell: storage, React state, late answers, other tabs | done; four theorems |
| 8 | `AdminPanel`, `AdminPanel_proofs` | the panels: reloads, filters, busy slots | done; three theorems |
| 9 | `Queries` | `likeSubstringPattern`, topic patterns, `env_bool` against reference definitions | left |

`Delivery` was meant to be composed with the topic of `EventLog`. It needs of a topic no
more than how many events it holds, and `EventLog` promises no more than that it grows at
its end, so the composition would show nothing that the two do not.

Every invariant and action property that a passing run checks has a theorem. Theorems left: the
reference definitions of `Queries`; the contents of a topic between `Publish` and `Delivery`, if
partitions are ever added. No module uses a recursive operator.

## 3. Modules

### Directory

A request (`Call`) is a record of what its goroutine knows: the operation, the next
statement (`pc`), the ids it works on and the copies it has read (`snap`, `names`). It
begins with its checks and its first read (`Begin...`), then takes a step per
statement. Merging the check of the token with the first read loses nothing: the
check reads no table. `Fail` ends a running request at any statement, which stands
for database errors, clients that leave and violated unique indexes; it leaves what
was committed. A call refused at its first check changes nothing and is a stutter.

GORM is external and modelled by the statements it makes from what the code calls:

* `First`, `Find`: `deleted_at IS NULL`; `Delete` of a user or role sets `deleted_at`,
  of a token removes the row; unique indexes cover deleted rows too.
* `Preload("Roles")`: three SELECTs: the user, its `user_roles` rows, the live roles
  among them (`BeginLogin`/`BeginUpdateUser`, `ReadJoins`, `ReadRoles`).
* `Save`: an UPDATE of every column WHERE the row is live; if it hits no row, INSERT ...
  ON CONFLICT (id) DO UPDATE, which writes `deleted_at` as read, that is NULL. The
  preloaded roles are saved with it: missing `user_roles` rows come back. One step here.
* `Association(...).Append` and `Delete` insert and delete one `user_roles` row.

Left out: usernames and emails (`Startup` has them), reads that change nothing,
two roles of a same name (the index forbids them). `granted`, `lastLive`, `lastHeld`
and `everNamed` are history: no action's guard reads them.

Properties: `GrantProvenance` (each `user_roles` row goes back to a grant, though `Save`
re-inserts copies), `NoEscalation` (public requests alone never reach an admin role),
`AuthorityIsRecent` (stale claims, but stale by at most the life of a token and the
time a login takes), `DeletionSettles` and `RevocationSettles` (the two races with `Save`
are the only ones, and end with the request that runs them).
`DeletedStaysDeleted`, what the comments say, is violated: see Findings.

### Startup

`phase` is where `bootstrap.Run` is. Each seeder is one step: nobody else writes the
database then (compose runs one service-b), and a seeder writes once after its reads. `config` is what
the environment of this start says of the two accounts: nothing, or a username and an email.
It is chosen anew at each start, and nothing keeps the emails of two starts, or of both
accounts, apart: `SEED_DEMO_EMAIL` has a default in the compose file, so that another
`SEED_DEMO_USERNAME` meets the email of the row an earlier start made. (The email that a seeder
derives from the username if none is set is one of `Mail` like any other.) A crash may
come between any two steps, and the database outlives it. While serving, `Register`
and the administrators' operations are single steps on names, emails and rows: what
the next start's lookups and unique indexes will meet. Who may act is kept coarse
(`Administer`): after there was an administrator somebody may hold a token.

`CrashSafeSeeding` is about the time before anybody acts, and about environments that agree with
each other (`Compatible`, over `asked`, what all starts so far have asked for): no email under two
usernames, no username for both accounts. Then no start fails, wherever others were cut short, and
every account holds its roles. Without that condition, and whatever clients did, `FailureExplained` says
why a start fails, and `ServesSeeded` that one which serves has what it was asked for.

### Credentials

As `Directory`, for passwords and tokens. A token is named by the request that issued
it; `handed` are those whose answer reached a client, and only these can be presented.
Passwords stand for their hashes. `hash`, with the row state, is what `Save` writes back.
Logout is the one DELETE it is. Refresh tokens are never exchanged and their expiry is
never read by the code, so they have no clock. (docs/API.md calls the Authorization
header of logout optional; the interceptor demands it.)

`OldPasswordSettles` is the counterpart of `RevocationSettles`; `SpentTokensStayDead`
says a reset that cleaned up kills all its user's earlier tokens, although two
resets may pass the check with one token; `ResetInTime` bounds the use of a token by its
expiry and the duration of a handler; `DeletedAccountInert`, `SessionsKept`.

### EventLog, Publish

`EventLog` is the promise: a write is committed, events of committed writes are
appended, in batches and perhaps more than once; a request is answered with success
only after its write and, under strictness, after its event; an error or a crash
promises nothing. A committed write need not have changed a row. Several handlers do not look:
`ResetPassword` of a user deleted meanwhile (auth_service.go:225), `Logout` of an unknown
token, `AssignUserRole` of a role already held, `RemoveUserRole` of one not held
(role_service.go:218), a deletion that another overtook. They publish and succeed like any other
(`MayMiss`; `changed` is the history of what did change). `ForgotPassword` of an unknown email
succeeds and writes and publishes nothing (`MayBeIdle`, `FindNobody`). `Publish`
implements it (`KeepsPromise`, an INSTANCE with `strict <- enabled /\ strict`): the
tail every writing handler shares, whose SQL runs under the request's context
(a client that leaves makes it fail) and whose publish does not; three handlers read
the row back between the two (`Reloading`). The Writer is kafka-go's, external:
it takes what has gathered as a batch, sends it up to `MaxAttempts` times, reports to
handlers that still wait, and goes on when they do not. Assumed of it and the
broker: one partition per topic (docker-compose.infra.yml), so one order; an
attempt given up is not appended after later ones. A crash loses the queue.

### Gateway

All routes of `app.ts` have one form, and `Call` is a request to any of them: a missing
parameter is answered 400 (`Reject`); the call goes out with or without the
Authorization header (`Receive`; `PublicCalls` send none); its status comes back (`Hear`)
or the connection breaks off (`CutOff`). After a success the row is sent to MongoDB, which inserts it at
any time from then on (`Insert`, also when the gateway is gone); the gateway waits for that, or for
MongoDB to fail, with the row there or not (`SaveAudit`, `SaveAuditFails`), and only then
answers (`Reply`). A crash between the two leaves a row of a request whose client was told nothing. What tells routes apart is data: the parameters they
need, the status of success, the RPC. `mapGrpcError` is the function of that name, with what its
caller answers if it returns null: 502, or 500 in `GET /audit-logs`. That route asks `Me`
and then reads (`ReceiveAudit`, `HearMe`, `List`); `ListAuditLogs` is the query of `index.ts`,
its limits parameters so that small collections pass them. MongoDB matches path and
method (`filter`), the gateway the text of a search (`needle`), both given as the set of RPCs whose
rows match. `NewestFirst` is the set of all listings that the sort allows (rows of a same time come
in any order), and `Matching` picks the first hits of one, by their places.

Of service-b there is how calls end, and the rows that `Me` reads. A code that the gateway maps
is returned before anything is written (`Refuse`; `Directory` and `Credentials` have the handlers), any other
may come after the write (`Break`). `Me` is three SELECTs (`FindCaller`, `ReadGrants`, `ReadRoles`: the user,
its `user_roles` rows, those of the roles that are named admin), and between them anything may be written: by the gateway's
other requests (`Serve`), and by clients that call service-b's own port (`OtherClient`): users deleted
and brought back with the roles of an old copy, roles given, taken, deleted, renamed to admin and away from it.

`AnsweredAsItEnded` relates the answer, the write at service-b and the audit row of each request. `LogsOnlyToAdmins`
says what an answer of the log is founded on: while the request asked, its caller was live, then or later had a role, and
that very role was then or later named admin. The three need not have been true at one moment, and
the stronger statement, that the caller was an administrator at some moment of the request, is
false of the code: a role can be taken from the caller after its `user_roles` rows were read, and renamed to
admin before the names are. `wasLive`, `held` and `entitled` are the history that says so.

`SearchFindsNewest` says what is right about the answer: matching rows, newest first, none passed over for
an older one, and not short while the rows that the same query without the search would show hold another match.
More cannot be said. A search filters the newest `min(5 * limit, 500)` rows (index.ts:47), so that a match
behind them is missed and the answer is short. docs/API.md:220-221 reads otherwise: `q` is a search of the
path, method, payload and user id, and `limit` "Max rows to return after filtering". That is a disagreement
between the document and the code: with `limit=1` and five newer rows that do not match, the one that does is not
found. The property does not repeat the window, and asks of a search only what does not depend on it.

### Delivery

The consumer group's offset, the position of the one consumer, and the message in hand, per
topic. The configuration is chosen in `Init`, the topics that `KAFKA_TOPIC_PATTERN` matches among it
(`pattern`; all of them by default). `Start` asks for the topics and subscribes
to names, or to the pattern when there are none or the question fails. aiokafka is external:
it moves its position when it hands a message out (`Take`) and commits positions on a timer
(`Commit`) and at `consumer.stop()`, which may fail (`Stop`). All runs on one thread: a handler that does not `await`,
as the default one, cannot be interrupted by either (`Waiting`); one that does may see
the offset of its message committed before it ends. `handled` includes a message whose
handler failed: the code logs it and goes on.

`EventsAccounted` says which events can be lost, and so that no other is, over any sequence of
commits, stops and crashes. `EventsGetHandled` says who is read in the end: topics that the pattern
matches, if they were there at the start, or none was, or the consumer does not ask. Topics that come later to a consumer
that subscribed to names are never read (consumer.py:71); the property leaves them out, and
`EventsAccounted` counts their events as still ahead.

### Session

One tab. `stored` is localStorage; `token`, `user`, `loading` and `path` are React's; `rendered`
is the token and path of the last render, which the closures of effects and pages
see; `due` are the effects that render has to run. `Render` and `Flush` are two steps: answers come
between them. Both effects of a render run in one step, in the order of the source, and what
an async function does before its first `await` belongs to the step that calls it. A request carries the token
of the storage at the time it is sent; `live` is the negation of `cancelled`. The other tabs run
the same code and can only write the storage: `Elsewhere` does any of it at any time. Only the
access token is modelled; the refresh token is stored beside it and never read.

`ShownUserExplained` names the cases in which the user shown is not the token's
owner; a late answer of `fetchMe`, which is set though its effect was cancelled, is one of
them. `SpentTokensAreNotSent` holds because requests read the storage, not React's
state. `LoadingEnds` needs the next effect to lower the flag of a cancelled one.

### AdminPanel

Both panels have the same handlers, so `panel` chooses the changes they offer. A change is
three steps: `Click`, `Make` at the service, `Answered`, which begins the reload
(`Load`); the handler ends, and frees its slot, when its reload ends (`Finish`). `ChangeFails` may come before
or after `Make`. A handler keeps the filter it was rendered with (the closure of `reloadList`);
`Apply` reads with the new one. The table is reduced to which read of it is shown, and to
how many changes that read saw.

`FreshList` says when the table is what it should be; the exceptions, an older read
answered last and a handler of an older filter, are what the code does: the property does not catch these two, but
anything else that would leave the table behind. `SlotsExplained` says
that a slot names a row only while a change of that row runs, so buttons come back, and that
a row runs one change at a time until changes of two rows share the slot.

## 4. Runs

| Run | Instance | Shows |
|---|---|---|
| `directory` | 4 requests, 3 users, 3 roles and names, a token living 1 tick of 2; 664,698 states | all six properties |
| `directory_revive` | 3 requests, no time | violation: an update revives what was deleted |
| `startup` | 3 user and 3 role ids, 2 usernames, 2 emails, any environment at each start; 110,111 states | seeding is safe, failures are explained |
| `startup_deleted` | the same | violation: a start fails after a deletion |
| `credentials` | 4 requests, 2 users, 2 passwords, 2 ticks; 87,380 states | all six properties |
| `credentials_stale` | the same | violation: an update undoes a password change |
| `publish` | 2 requests, one reading back, 2 attempts, 1 crash, one that may miss its row or find nothing to write; 53,004 states | refinement, best effort, order, liveness |
| `publish_disconnect` | as `publish` | violation: an event is lost to a client that leaves |
| `gateway` | 2 requests of 3 routes and the audit route, 1 user, 2 roles, 5 RPCs by other clients, 4 old rows, 1 tick, 1 crash; 2.7 million states | answers, writes and audit rows agree; the log is for administrators, newest first |
| `session` | 2 tokens of 2 users, 2 requests at a time, 1 reload; 224 thousand states | who is shown and what is sent; loading ends |
| `panel` | 2 rows, 2 changes, 1 filter applied, both panels; 2.1 million states | the table recovers, and so do the buttons |
| `delivery` | 2 topics, 2 events each, any pattern, 1 stop or crash; 499,696 states | which events can be lost; the others are handled |

Bounds. A race here needs a request that reads, one that changes, and one that sees:
three. The fourth gives room for the login that authorises them, or for the second
reset. A third user or role id is one that is created during the run. With a token
life and a delay of one tick, two ticks pass every expiry. Three ids in `Startup`: a
seeded row can be deleted or renamed, its name taken by another and seeded again; two usernames and
two emails are enough for every way in which two accounts, or two starts, can agree or clash.
In `publish` two events can be sent alone, in one batch, twice, or the second while the first is
retried. In `gateway` other clients and the second request change the one caller's account and roles any number of times
between the statements of `Me` (one caller and two roles: the role taken away and the one renamed can be the same or not),
and the second request adds a row; `assignUserRole`, `login` and `listUsers` stand for the routes that write, that need no
Authorization header, and that only read; the limits 2, 3 and the factor 2 stand for 100, 500 and 5, so that four to six rows
are more than a search looks at. In `session` the second token is a new login, here or in
another tab, while a request with the first is under way. Two changes and a filter in `panel` make
three reloads beside the first; two events and one restart in `delivery` are one message
committed, one in hand, one not yet read. `MaxTime`,
`MaxCrashes` and `Call` are the bounds on what is unbounded in the code; `MaxAttempts`
is the Writer's own (10 unless configured). Requests, passwords and row ids are
interchangeable, which the MC modules state as symmetry sets; no run with a liveness
property uses symmetry.

Deadlock is checked everywhere. `Over`, a stuttering step, marks the end of a bounded
run, when no request is in flight; in `Startup` a process can always start or crash, in
`Session` the page is visible again at any time, in `AdminPanel` a row can be edited, in `Delivery`
the consumer can start or commit.

Fairness. In `FairSpec` of `Publish` each handler is weakly fair: its
goroutine is runnable, a statement returns with a result or an error, and the publish ends at
the latest at its 15-second timeout. The Writer is weakly fair: an attempt ends at its
write timeout. Nothing is assumed of the broker, the database or the clients: that an attempt
succeeds, a statement works or a client stays is not fair. Requests need not begin. In `Session`
React renders and runs effects (weakly fair), and the request of an effect is answered or fails
some time, as `fetch` does; users, other tabs and renders of theirs are not fair. In `Delivery`
an assignment and the handler's return are weakly fair; `Take(t)` is strongly fair,
since it is disabled whenever another topic's message is in hand and aiokafka takes turns.
That a process starts, or stays up, is not assumed.

## 5. Proofs

`Directory_proofs` proves, for any users, roles, names, requests and times:

* `TypeCorrect`: `Spec => []TypeOK`.
* `Provenance`: `Spec => []GrantProvenance`. It is not inductive alone: `UpdateUser` writes
  a copy, so what a request in flight has read must be granted as well (`SnapGranted`:
  the copy of an update holds only roles granted to its user). The invariant is
  `TypeOK /\ GrantProvenance /\ SnapGranted`; `granted` only grows.
* `DeletionsSettle`, `RevocationsSettle`: the action properties. Effect lemmas say, once
  and for all actions, how a step may change a user, a role, a grant and a request;
  from them: only an `UpdateUser` of that row makes a deleted row live, and it cannot have
  begun after the deletion; and likewise for a role that is withheld.

* `Escalation`: `Spec => []NoEscalation`, by `EscalationInv`: while the seeded admin has begun no
  admin request (`Quiet`), nobody's has begun, so that no role changes its name, and a role
  named admin is in no one else's hands: not in `user_roles`, not in what a login or a registration
  in flight has read, not in a token.
* `Authority`: `Spec => AuthorityIsRecent`, by `RecentInv`: the history is up to date at every
  step (`Remembered`), what a login in flight has read was true at its first read or later and
  that is at most `LoginDelay` ago (`LoggingIn`), so what a token says was true at most
  `LoginDelay + TTL` before its expiry (`TokenTrue`).

Assumed are `IdAssumption` and `TimeAssumption` of `Directory` (the named ids differ,
the times are natural numbers), and nothing about the sizes of the sets.

`Startup_proofs` proves, for any numbers of rows, usernames and emails (`NamesAreNotEmpty`), `TypeCorrect`,
`SeedingIsCrashSafe` (`CrashSafeSeeding`), `FailuresExplained` (`FailureExplained`) and
`ServingIsSeeded` (`ServesSeeded`). `Sown` says what the seeders that are behind the process have
made sure of; `Untouched` that until a client acts every row is a seeder's, live, of an account that some start
asked for, under that username and email and with exactly its roles. So if the environments are compatible,
a unique key is never held by a row that the lookup does not find. `StartsEndWell` draws from these how far the README's claim goes that `startup_deleted`
refutes: a start that has run to its end leaves the accounts, or failed on a key held unseen.

`Credentials_proofs` proves, for any users, passwords, requests, lives and delays
(`CredentialAssumption`):

* `TypeCorrect`, `ResetsInTime` (`ResetInTime`), `SessionsLast` (`SessionsKept`) and `SpentStayDead`
  (`SpentTokensStayDead`), by `IInv`. A stored reset token is its issuer's only one, belongs to the
  user it was issued for and is not spent (`Tokens`); a reset about to write found it alive at
  most `ResetDelay` ago (`Timely`); a login about to hand its token out has stored it, and a
  token is presented only by those who were handed it (`Issues`).
* `PasswordsSettle` (`OldPasswordSettles`) and `DeletedStayInert` (`DeletedAccountInert`), from the
  same invariant and two effect lemmas: a row that is there keeps its password or takes that
  of a request about to write (`RowStep`), and who is about to write has begun with what it
  read (`BeginningStep`).

`Publish_proofs` proves, for any requests, any part of them that reads back, any
number of attempts and crashes (`PublishAssumption`):

* `TypeCorrect`: `Spec => []TypeOK`.
* `Implementation`: `Spec => KeepsPromise`, that is, `Publish` implements `EventLog`.
* `BestEffort`, `Emission`: `PublishingIsBestEffort` and `EmitsDespiteDisconnect` always hold.

One inductive invariant, `IInv`, serves all three. `Progress` ties where a handler is to
what it has done: committed or not, message handed over or not, answered or not.
`Backed` says that a message anywhere belongs to a committed write, which is what the
promise needs when a batch is appended. `Truthful` says that the Writer's verdict is
true: "sent" only when the event is in the topic, "error" only when the broker failed.
None of the properties is inductive without these. `MessageEffects` says once where a
step can move a message, so that the other proofs need no sequences.

* `Ordering`: `Spec => []EventsInOrder`, by `OrderInv`: the queue and the batch are ordered too, what
  was answered before a request in the topic or the batch is in front of it there if it is
  there at all, and it is not in the queue any more, so that it cannot come behind.
* `NobodyWaitsInVain` and `DuplicatesAreBounded`, by `MessagesInv`: a message is in the Writer once at
  most and not at all when its handler was told of it, and the topic holds no more copies of the
  messages of a batch than attempts were made on it. So a handler that waits
  does so for a message that the Writer still has, and its timeout is for slow brokers only; and
  an event is in the topic at most `MaxAttempts` times, through timeouts, errors and crashes.
* `EventsAreTrue`: what the promise comes to in a state: the topic announces only what is committed,
  what is committed changed a row unless its handler does not look, and success means committed and, under
  strictness, announced, or nothing to write. It is proved from the steps of `EventLog`
  and comes to `Publish` through `Implementation`.

`AdminPanel_proofs` proves, for any rows, filters, numbers of changes and filters applied
(`RowAssumption`, `BoundAssumption`):

* `ButtonsRecover`: `Spec => []SlotsExplained`, inductive together with `SlotNamesRow`: in a slot where
  changes of different rows have not met there is one at most, and the slot names its row.
* `TableRecovers`: `Spec => []FreshList`, by `TableInv`. For the filters: what was read at the age of
  the filters applied was read with them (`AgeInv`). For the changes: from some number `b` on every
  read sees what the panel was told of; and as long as no such read was answered one is
  under way, or an error is shown, or a change is under way whose failure will show one
  (`FreshFrom(b)`, with the bookkeeping of numbers in `NumInv`).
* `TypeCorrect`: `Spec => []TypeOK`, with its bounds on the counters, by `Bounded`: every change made was
  clicked and is made once, so `version` and the changes not made yet are at most as many as
  the clicks (`Counted`), and every read but the first belongs to one click or one filter.

`Delivery_proofs` proves, for any topics, numbers of events and restarts (`BoundAssumption`):

* `TypeCorrect`: `Spec => []TypeOK`.
* `NothingLostUnnoticed`: `Spec => []EventsAccounted`, by `Accounts`: every event before a position is
  settled or in hand, and every one before a committed offset is settled or in the
  hand of a handler that waits.
* `PromisesStayInReach`: `Spec => []NothingStuck`, the safety core of `EventsGetHandled`: while the consumer
  is up, an event that is promised and not settled is in hand, or its topic is subscribed to and
  the position has not passed it (`SubscribedToAll`: all there were, or all that the pattern matches).

`Session_proofs` proves, for any tokens and users, requests at a time and reloads
(`OwnerAssumption` and its neighbours, `FirstAssumption`, `BoundAssumption`):

* `TypeCorrect`: `Spec => []TypeOK`; the number of a new request is one that no other has, which needs
  the requests under way to be finitely many.
* `SpentStaySpent`: `Spec => SpentTokensAreNotSent`, by `TokensInv`: what is stored is not spent, and every
  token the tab believes in was stored at some time.
* `ShownIsExplained`: `Spec => []ShownUserExplained`, from the same.
* `LoadingHasAnEnd`: `Spec => [](LoadingIsAwaited /\ OneLoads)`, the safety core of `LoadingEnds`: while the
  flag is up there is the session effect to run or a request under way that lowers it, and never two
  such requests.

`Gateway_proofs` proves, for any requests, users, routes, queries, limits and crashes
(`HistoryAssumption`: the rows that are old when the model begins are finitely many and name no
request of it; `LimitsAssumption`: the code's three limits are positive, and a query's is an
integer, be it negative; `BoundsAssumption`):

* `AnswersAgree`: `Spec => []AnsweredAsItEnded`, by `IInv`. A request in service has no answer yet, and no row
  before it has one to save (`Begun`); an insert on its way is of a call that succeeded, and its row is not there
  yet (`Inserting`), so that it comes once at most, also after a crash; and what service-b has committed
  follows from the status of the call (`Done`).
* `LogsProtected`: `Spec => []LogsOnlyToAdmins`. While a request asks, what is known of its caller keeps up with
  every write of anybody (`Watched`), and what `Me` has read so far is part of it (`AsFarAsRead`): the ids
  read are among the roles held, so that a role read as named admin is one that was held before.
* `TypeCorrect`: `Spec => []TypeOK`, by `VInv`; a listing has rows of the collection, each once, and no
  more than `MaxLimit`.
* `SearchIsRight`: `Spec => SearchFindsNewest`. `Sorted` says what the first rows of a sorted finite set are,
  `Found` what the first hits among them are, `Listing` puts them together with the arithmetic of the
  limits: a matching row that a short answer leaves out has as many rows in front of it as the client asked for.
* `ListingsExist`: an administrator's request always has an answer, for any rows and limits, so that what
  `SearchIsRight` says of all answers is said of some. That a finite set can be put in order goes
  by induction over its size: `SetInduction` takes it from the well-foundedness of the naturals, for the
  set of the numbers that have the property, since the library's theorems for operators
  are out of reach of the provers.

Model-checked only: the liveness properties `EveryRequestEnds`, `QueueDrains`, `LoadingEnds` and
`EventsGetHandled`, since the prover knows neither fairness nor ENABLED. For three of them the state
in which nothing could go on any more is proved not to arise (`NobodyWaitsInVain`, `LoadingHasAnEnd`,
`PromisesStayInReach`).

## 6. Findings

1. `directory_revive`: `UpdateUser` (user_service.go:155) and `UpdateRole` (role_service.go:96)
   read, are overtaken by a deletion, and write the row back as live, though the
   comments say that DeleteUser soft-deletes and DeleteRole removes.
2. `startup_deleted`: once a seeded role or account was deleted, or renamed and its email
   kept, the seeders do not find it and cannot create it (seed.go:26, 113): service-b no longer
   starts, though README.md says each start ensures the default accounts.
3. `credentials_stale`: an update that names no password writes back the hash it read
   (user_service.go:155) and undoes a reset committed meanwhile.
4. `publish_disconnect`: docs/API.md:256 promises events although the client leaves; the
   read-back under the request's context (user_service.go:158) breaks the promise.

One more disagreement has no run of its own: a search of the audit log misses matches behind its window, against
docs/API.md:221 (section 3, Gateway). It is the arithmetic of one query over rows at rest, and plain from
index.ts:47; what a run can add is what the query does get right, and `gateway` checks that. Not a
disagreement, but worth knowing: `RemoveUserRole` of a role not held, or `ResetPassword` of a deleted user, is announced as an event though nothing
changed (section 3, EventLog): no text promises otherwise, and `EventLog` states it as it is.

## 7. Not modelled

* In the gateway: the normalisation and wording of parameters and errors, CORS, `/health`, and the
  deprecated `grpcUser.ts`, which nothing calls.
* In the shell: the refresh token, which is never read, and what the pages show. The login form is a
  part of `/login`: that somebody leaves the page while its request runs is not modelled.
* In the panels: the message about the last creation, the role picked for assignment, the text
  of forms, which no other state depends on; and a panel taken off the page while its calls run.
* The log widgets of frontend-b fetch once and show what they get.
* In the consumer: a second consumer of the group and more than one partition; the deployment has
  one of each.
* `Queries` (section 2): string functions, checked by their unit tests so far.
* For good: generated code and interface definitions, infrastructure, CI and rendering, which have
  no behaviour of their own; cryptography, which is assumed to do what it is for; PostgreSQL's
  isolation within one statement, which is atomic here.
