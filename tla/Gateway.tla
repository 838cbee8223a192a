------------------------------- MODULE Gateway -------------------------------
(***************************************************************************)
(* service-a, the REST gateway.  A route checks its parameters, makes one  *)
(* gRPC call to service-b, writes an audit row to MongoDB if the call      *)
(* succeeded, and answers.  Each `await' is a point where other requests   *)
(* run, where service-b's answer or MongoDB may fail to come, and where    *)
(* the process may die.  GET /audit-logs asks service-b who is calling and *)
(* reads the rows.                                                         *)
(*                                                                         *)
(* service-b is reduced to how a call can end: done, refused without a     *)
(* change, or broken off with or without one; and to the rows that Me      *)
(* reads for the audit route: users, user_roles and the role named admin.  *)
(* Other clients than the gateway change them, too: its port is published. *)
(***************************************************************************)
EXTENDS Integers, FiniteSets, Sequences, Functions

CONSTANTS
  Call,         \* HTTP requests
  User,
  Role,         \* ids of roles
  Nobody,       \* stands for a request without an Authorization header
  NoRoute,
  Served,       \* the RPCs whose routes are called, and "auditLogs"
  Elsewhere,    \* the RPCs that other clients make
  Queries,      \* the queries of GET /audit-logs
  History,      \* the audit rows there are at the start
  DefaultLimit, MaxLimit, ScanFactor,   \* 100, 500 and 5 in the code
  MaxTime,      \* bound on the clock
  MaxCrashes    \* bound on the crashes of the gateway

ASSUME HistoryAssumption ==
  /\ IsFiniteSet(History)
  /\ \A r \in History : r.by \notin Call /\ r.at \in Int

\* a limit is what parseInt made of the query's
ASSUME LimitsAssumption ==
  /\ {DefaultLimit, MaxLimit, ScanFactor} \subseteq Nat \ {0}
  /\ \A q \in Queries : q.limit \subseteq Int

ASSUME BoundsAssumption == {MaxTime, MaxCrashes} \subseteq Nat

VARIABLES
  pc,         \* where each request is
  route,
  bearer,     \* whose token it carries
  query,      \* of an audit request, from when it is looked at
  up,         \* its call at service-b: idle, under way, or the gRPC status
  found,      \* what Me read of the caller: the role ids, then those named admin
  stamp,      \* createdAt of the row being saved
  status,     \* the HTTP status answered; 0 before
  seen,       \* the rows an audit request was given
  committed,  \* the calls whose writes are committed, those that hit no row included
  live,       \* the users not deleted
  grants,     \* user_roles: the role ids of each user
  named,      \* the live role named admin, if there is one
  saving,     \* the requests whose insert is on its way in MongoDB
  rows,       \* the AuditLog collection
  now,
  crashes,
  (* history, read by the properties only *)
  wasLive,    \* the audit requests whose caller was live since they asked
  held,       \* the roles that caller has had since
  entitled,   \* the requests of whose callers such a role was named admin since
  unsaved     \* the requests whose row MongoDB failed to acknowledge

requests == <<pc, route, bearer, query, status>>
directory == <<live, grants, named>>
serviceB == <<up, found, committed, directory>>
mongo == <<stamp, saving, rows, seen>>
evidence == <<wasLive, held, entitled>>
history == <<evidence, unsaved>>
vars == <<requests, serviceB, mongo, now, crashes, history>>

-----------------------------------------------------------------------------
(* Routes: the RPC, the parameters without which the answer is 400, and the  *)
(* status of success.                                                        *)

Route(rpc, needs, ok) == [rpc |-> rpc, needs |-> needs, ok |-> ok]

AuthRoutes ==
  {Route("register", {}, 201), Route("login", {}, 200), Route("logout", {}, 204),
   Route("me", {}, 200), Route("forgotPassword", {}, 200), Route("resetPassword", {}, 204)}

UserRoutes ==
  {Route("listUsers", {}, 200), Route("getUser", {"id"}, 200),
   Route("createUser", {"username", "email"}, 201),
   Route("updateUser", {"id"}, 200), Route("deleteUser", {"id"}, 200)}

MemberRoutes ==
  {Route("assignUserRole", {"id", "roleId"}, 204), Route("removeUserRole", {"id", "roleId"}, 204)}

RoleRoutes ==
  {Route("listRoles", {}, 200), Route("createRole", {"name"}, 201), Route("getRole", {"id"}, 200),
   Route("updateRole", {"id", "name"}, 200), Route("deleteRole", {"id"}, 200)}

AuditRoute == Route("auditLogs", {}, 200)

Routes == {r \in AuthRoutes \cup UserRoutes \cup MemberRoutes \cup RoleRoutes : r.rpc \in Served}

\* called with empty metadata; the others pass the Authorization header on
PublicCalls == {"register", "login", "forgotPassword", "resetPassword"}

Reads == {"me", "listUsers", "getUser", "listRoles", "getRole"}

\* a call is at work, Me also between its statements
UnderWay == {"running", "user read", "ids read"}

Refusals == {"INVALID_ARGUMENT", "NOT_FOUND", "UNAUTHENTICATED", "PERMISSION_DENIED",
             "ALREADY_EXISTS"}

\* mutant: any error of service-b is the client's
BlameTheClient(code, otherwise) == 400

mapGrpcError(code, otherwise) ==
  CASE code = "INVALID_ARGUMENT"  -> 400
    [] code = "NOT_FOUND"         -> 404
    [] code = "UNAUTHENTICATED"   -> 401
    [] code = "PERMISSION_DENIED" -> 403
    [] code = "ALREADY_EXISTS"    -> 409
    [] OTHER                      -> otherwise

-----------------------------------------------------------------------------
(* Steps of a request. *)

At(c, where) == pc[c] = where
Goto(c, where) == pc' = [pc EXCEPT ![c] = where]

Answer(c, code) == Goto(c, "done") /\ status' = [status EXCEPT ![c] = code]

Reject(c) ==
  /\ At(c, "new")
  /\ \E r \in Routes, b \in User \cup {Nobody} :
       /\ \E given \in SUBSET r.needs : given # r.needs
       /\ route' = [route EXCEPT ![c] = r]
       /\ bearer' = [bearer EXCEPT ![c] = b]
  /\ Answer(c, 400)
  /\ UNCHANGED <<query, serviceB, mongo, now, crashes, history>>

Receive(c) ==
  /\ At(c, "new")
  /\ \E r \in Routes, b \in User \cup {Nobody} :
       /\ route' = [route EXCEPT ![c] = r]
       /\ bearer' = [bearer EXCEPT ![c] = b]
  /\ Goto(c, "call")
  /\ up' = [up EXCEPT ![c] = "running"]
  /\ UNCHANGED <<query, status, found, committed, directory, mongo, now, crashes, history>>

Hear(c) ==
  /\ At(c, "call")
  /\ \/ /\ up[c] = "OK"
        /\ Goto(c, "audit")
        /\ stamp' = [stamp EXCEPT ![c] = now]
        /\ saving' = saving \cup {c}
        /\ UNCHANGED status
     \/ /\ up[c] \notin UnderWay \cup {"OK"}
        /\ Answer(c, mapGrpcError(up[c], 502))
        /\ UNCHANGED <<stamp, saving>>
  /\ UNCHANGED <<route, bearer, query, serviceB, rows, seen, now, crashes, history>>

\* nobody asks about the caller any more: what becomes known later is no reason
Judged(C) ==
  /\ wasLive' = wasLive \ C
  /\ held' = [c \in Call |-> IF c \in C THEN {} ELSE held[c]]
  /\ UNCHANGED entitled

\* the connection to service-b breaks: UNAVAILABLE, whatever becomes of the call
CutOff(c) ==
  /\ pc[c] \in {"call", "asking"}
  /\ Answer(c, IF At(c, "asking") THEN 500 ELSE 502)
  /\ Judged({c})
  /\ UNCHANGED <<route, bearer, query, serviceB, mongo, now, crashes, unsaved>>

AuditRow(c) == [by |-> c, rpc |-> route[c].rpc, at |-> stamp[c]]

\* MongoDB inserts the row, whatever has become of the request meanwhile
Insert(c) ==
  /\ c \in saving
  /\ saving' = saving \ {c}
  /\ rows' = rows \cup {AuditRow(c)}
  /\ UNCHANGED <<requests, serviceB, stamp, seen, now, crashes, history>>

SaveAudit(c) ==
  /\ At(c, "audit") /\ c \notin saving
  /\ Goto(c, "answer")
  /\ UNCHANGED <<route, bearer, query, status, serviceB, mongo, now, crashes, history>>

\* logged and swallowed; the row may be there all the same, or come later
SaveAuditFails(c) ==
  /\ At(c, "audit")
  /\ saving' \in {saving, saving \ {c}}
  /\ unsaved' = unsaved \cup {c}
  /\ Goto(c, "answer")
  /\ UNCHANGED <<route, bearer, query, status, serviceB, stamp, rows, seen, now, crashes, evidence>>

Reply(c) ==
  /\ At(c, "answer")
  /\ Answer(c, route[c].ok)
  /\ UNCHANGED <<route, bearer, query, serviceB, mongo, now, crashes, history>>

-----------------------------------------------------------------------------
(* GET /audit-logs. *)

Lesser(a, b) == IF a < b THEN a ELSE b
Greater(a, b) == IF a > b THEN a ELSE b

\* mutant: what the client asks for is not limited
CapUnlimited(q) == Greater(1, IF q.limit = {} THEN DefaultLimit ELSE CHOOSE n \in q.limit : TRUE)

\* q.limit is empty when the query names none, or not a number
Cap(q) ==
  LET asked == IF q.limit = {} THEN DefaultLimit ELSE CHOOSE n \in q.limit : TRUE
  IN  Lesser(MaxLimit, Greater(1, asked))

\* mutant: the sort is left out
NaturalOrder(S, n) ==
  {s \in [1 .. Lesser(n, Cardinality(S)) -> S] : \A i, j \in DOMAIN s : i < j => s[i] # s[j]}

\* find().sort({createdAt: -1}).limit(n): rows of one instant come in any order
NewestFirst(S, n) ==
  {s \in [1 .. Lesser(n, Cardinality(S)) -> S] :
     /\ \A i, j \in DOMAIN s : i < j => s[i] # s[j] /\ s[i].at >= s[j].at
     /\ \A i \in DOMAIN s : \A r \in S \ Range(s) : s[i].at >= r.at}

\* MongoDB matches path and method; the text of a search is matched here
FetchLimit(q) == IF q.search THEN Lesser(Cap(q) * ScanFactor, MaxLimit) ELSE Cap(q)

\* docs.filter(..).slice(0, cap): the first rows that match, in their order
Matching(docs, q) ==
  LET hits == {i \in DOMAIN docs : docs[i].rpc \in q.needle}
      n == Lesser(Cap(q), Cardinality(hits))
      firsts == {p \in [1 .. n -> hits] :
                   /\ \A i, j \in 1 .. n : i < j => p[i] < p[j]
                   /\ \A i \in 1 .. n : \A h \in hits \ Range(p) : p[i] < h}
  IN  {[i \in 1 .. n |-> docs[p[i]]] : p \in firsts}

ListAuditLogs(q) ==
  LET docs == NewestFirst({r \in rows : r.rpc \in q.filter}, FetchLimit(q))
  IN  IF q.search THEN UNION {Matching(s, q) : s \in docs} ELSE docs

\* what is known of a caller when the request begins to ask
Begins(c, u) ==
  LET has == IF u \in live THEN grants[u] ELSE {}
  IN  /\ wasLive' = IF u \in live THEN wasLive \cup {c} ELSE wasLive
      /\ held' = [held EXCEPT ![c] = has]
      /\ entitled' = IF has \cap named # {} THEN entitled \cup {c} ELSE entitled

ReceiveAudit(c) ==
  /\ At(c, "new")
  /\ "auditLogs" \in Served
  /\ route' = [route EXCEPT ![c] = AuditRoute]
  /\ \/ /\ bearer' = [bearer EXCEPT ![c] = Nobody]
        /\ Answer(c, 401)
        /\ UNCHANGED <<up, evidence>>
     \/ /\ \E u \in User :
             /\ bearer' = [bearer EXCEPT ![c] = u]
             /\ Begins(c, u)
        /\ Goto(c, "asking")
        /\ up' = [up EXCEPT ![c] = "running"]
        /\ UNCHANGED status
  /\ UNCHANGED <<query, found, committed, directory, mongo, now, crashes, unsaved>>

IsAdmin(c) == found[c] # {}

HearMe(c) ==
  /\ At(c, "asking")
  /\ \/ /\ up[c] = "OK" /\ IsAdmin(c)
        /\ \E q \in Queries : query' = [query EXCEPT ![c] = {q}]
        /\ Goto(c, "list")
        /\ UNCHANGED status
     \/ up[c] = "OK" /\ ~ IsAdmin(c) /\ Answer(c, 403) /\ UNCHANGED query
     \/ /\ up[c] \notin UnderWay \cup {"OK"}
        /\ Answer(c, mapGrpcError(up[c], 500))
        /\ UNCHANGED query
  /\ Judged({c})
  /\ UNCHANGED <<route, bearer, serviceB, mongo, now, crashes, unsaved>>

List(c) ==
  /\ At(c, "list")
  /\ \E q \in query[c] : \E s \in ListAuditLogs(q) : seen' = [seen EXCEPT ![c] = s]
  /\ Answer(c, 200)
  /\ UNCHANGED <<route, bearer, query, serviceB, stamp, saving, rows, now, crashes, history>>

ListFails(c) ==
  /\ At(c, "list")
  /\ Answer(c, 500)
  /\ UNCHANGED <<route, bearer, query, serviceB, mongo, now, crashes, history>>

-----------------------------------------------------------------------------
(* service-b: the rows of users and roles. *)

\* what the requests that ask for the log come to know of their callers
Witness ==
  LET asking == {d \in Call : At(d, "asking")}
  IN  /\ wasLive' = wasLive \cup {d \in asking : bearer[d] \in live'}
      /\ held' = [d \in Call |-> IF d \in asking /\ d \in wasLive'
                                 THEN held[d] \cup grants'[bearer[d]] ELSE held[d]]
      /\ entitled' = entitled \cup {d \in asking : held'[d] \cap named' # {}}

\* Register and CreateUser insert a user, UpdateUser saves one as it was read:
\* deleted since or not, and with roles taken away since
WriteUser ==
  \E u \in User, S \in SUBSET Role :
    /\ live' = live \cup {u}
    /\ grants' = [grants EXCEPT ![u] = @ \cup S]
    /\ UNCHANGED named

DeleteUser ==
  /\ \E u \in User : live' = live \ {u}
  /\ UNCHANGED <<grants, named>>

AssignUserRole ==
  /\ \E u \in User, r \in Role : grants' = [grants EXCEPT ![u] = @ \cup {r}]
  /\ UNCHANGED <<live, named>>

RemoveUserRole ==
  /\ \E u \in User, r \in Role : grants' = [grants EXCEPT ![u] = @ \ {r}]
  /\ UNCHANGED <<live, named>>

\* CreateRole, or UpdateRole's rename: names are unique
WriteRole ==
  /\ \E r \in Role : \/ named \subseteq {r} /\ named' = {r}
                     \/ named' = named \ {r}
  /\ UNCHANGED <<live, grants>>

DeleteRole ==
  /\ \E r \in Role : named' = named \ {r}
  /\ UNCHANGED <<live, grants>>

Written(rpc) ==
  \/ rpc \in {"register", "createUser", "updateUser"} /\ WriteUser
  \/ rpc = "deleteUser" /\ DeleteUser
  \/ rpc = "assignUserRole" /\ AssignUserRole
  \/ rpc = "removeUserRole" /\ RemoveUserRole
  \/ rpc \in {"createRole", "updateRole"} /\ WriteRole
  \/ rpc = "deleteRole" /\ DeleteRole
  \/ /\ rpc \in Reads \cup {"login", "logout", "forgotPassword", "resetPassword"}
     /\ UNCHANGED directory

\* what leaves these rows as they are is a stutter
OtherClient ==
  /\ \E rpc \in Elsewhere : Written(rpc)
  /\ directory' # directory
  /\ Witness
  /\ UNCHANGED <<requests, up, found, committed, mongo, now, crashes, unsaved>>

-----------------------------------------------------------------------------
(* service-b: the calls.  Me loads the caller as of now, whatever the token   *)
(* says: First and Preload are three SELECTs.                                 *)

AsksMe(c, at) == up[c] = at /\ route[c] = AuditRoute

\* mutant: soft-deleted users are found, too
FindUnscoped(c) ==
  /\ AsksMe(c, "running")
  /\ up' = [up EXCEPT ![c] = "user read"]
  /\ UNCHANGED <<requests, found, committed, directory, mongo, now, crashes, history>>

FindCaller(c) ==
  /\ AsksMe(c, "running")
  /\ bearer[c] \in live
  /\ up' = [up EXCEPT ![c] = "user read"]
  /\ UNCHANGED <<requests, found, committed, directory, mongo, now, crashes, history>>

ReadGrants(c) ==
  /\ AsksMe(c, "user read")
  /\ up' = [up EXCEPT ![c] = "ids read"]
  /\ found' = [found EXCEPT ![c] = grants[bearer[c]]]
  /\ UNCHANGED <<requests, committed, directory, mongo, now, crashes, history>>

ReadRoles(c) ==
  /\ AsksMe(c, "ids read")
  /\ up' = [up EXCEPT ![c] = "OK"]
  /\ found' = [found EXCEPT ![c] = @ \cap named]
  /\ UNCHANGED <<requests, committed, directory, mongo, now, crashes, history>>

Admitted(c) == bearer[c] # Nobody \/ route[c].rpc \in PublicCalls

\* what the call is to do is done
Effect(c) ==
  /\ committed' = IF route[c].rpc \in Reads THEN committed ELSE committed \cup {c}
  /\ Written(route[c].rpc)
  /\ Witness

NoEffect == UNCHANGED <<committed, directory, evidence>>

Serve(c) ==
  /\ up[c] = "running" /\ route[c] # AuditRoute
  /\ Admitted(c)
  /\ Effect(c)
  /\ up' = [up EXCEPT ![c] = "OK"]
  /\ UNCHANGED <<requests, found, mongo, now, crashes, unsaved>>

\* every code the gateway maps is returned before anything is written
Refuse(c) ==
  /\ up[c] = "running"
  /\ \E code \in IF Admitted(c) THEN Refusals ELSE {"UNAUTHENTICATED"} :
       /\ route[c] = AuditRoute =>
            code = "UNAUTHENTICATED" \/ (code = "NOT_FOUND" /\ bearer[c] \notin live)
       /\ up' = [up EXCEPT ![c] = code]
  /\ NoEffect
  /\ UNCHANGED <<requests, found, mongo, now, crashes, unsaved>>

\* INTERNAL: a statement, the read-back or a strict publish failed
Break(c) ==
  /\ up[c] \in UnderWay /\ Admitted(c)
  /\ \/ NoEffect
     \/ route[c] # AuditRoute /\ Effect(c)
  /\ up' = [up EXCEPT ![c] = "INTERNAL"]
  /\ UNCHANGED <<requests, found, mongo, now, crashes, unsaved>>

-----------------------------------------------------------------------------
Tick ==
  /\ now < MaxTime
  /\ now' = now + 1
  /\ UNCHANGED <<requests, serviceB, mongo, crashes, history>>

InService(c) == pc[c] \in {"call", "audit", "answer", "asking", "list"}

\* what service-b and MongoDB have been asked to do they may still do
Crash ==
  /\ crashes < MaxCrashes
  /\ crashes' = crashes + 1
  /\ pc' = [c \in Call |-> IF InService(c) THEN "lost" ELSE pc[c]]
  /\ Judged(Call)
  /\ UNCHANGED <<route, bearer, query, status, serviceB, mongo, now, unsaved>>

Init ==
  /\ pc = [c \in Call |-> "new"]
  /\ route = [c \in Call |-> NoRoute]
  /\ bearer = [c \in Call |-> Nobody]
  /\ query = [c \in Call |-> {}]
  /\ up = [c \in Call |-> "idle"]
  /\ found = [c \in Call |-> {}]
  /\ stamp = [c \in Call |-> 0]
  /\ status = [c \in Call |-> 0]
  /\ seen = [c \in Call |-> <<>>]
  /\ committed = {}
  /\ live \in SUBSET User
  /\ grants \in [User -> SUBSET Role]
  /\ named \in {{}} \cup {{r} : r \in Role}
  /\ saving = {}
  /\ rows = History
  /\ now = 0 /\ crashes = 0
  /\ wasLive = {} /\ entitled = {} /\ unsaved = {}
  /\ held = [c \in Call |-> {}]

Handle(c) ==
  \/ Reject(c) \/ Receive(c) \/ Hear(c) \/ CutOff(c)
  \/ Insert(c) \/ SaveAudit(c) \/ SaveAuditFails(c) \/ Reply(c)
  \/ ReceiveAudit(c) \/ HearMe(c) \/ List(c) \/ ListFails(c)

Upstream(c) ==
  \/ FindCaller(c) \/ ReadGrants(c) \/ ReadRoles(c) \/ Serve(c) \/ Refuse(c) \/ Break(c)

\* the bounded run is over
Over ==
  /\ \A c \in Call : pc[c] \in {"done", "lost"} /\ up[c] \notin UnderWay
  /\ UNCHANGED vars

Next ==
  \/ \E c \in Call : Handle(c) \/ Upstream(c)
  \/ OtherClient
  \/ Tick
  \/ Crash
  \/ Over

Spec == Init /\ [][Next]_vars
-----------------------------------------------------------------------------
(* Properties. *)

Codes == {"idle", "OK", "INTERNAL"} \cup UnderWay \cup Refusals

Row == [by : Call, rpc : Served, at : 0 .. MaxTime]

TypeOK ==
  /\ pc \in [Call -> {"new", "call", "audit", "answer", "asking", "list", "done", "lost"}]
  /\ route \in [Call -> Routes \cup {AuditRoute, NoRoute}]
  /\ bearer \in [Call -> User \cup {Nobody}]
  /\ query \in [Call -> SUBSET Queries]
  /\ up \in [Call -> Codes]
  /\ found \in [Call -> SUBSET Role] /\ held \in [Call -> SUBSET Role]
  /\ stamp \in [Call -> 0 .. MaxTime]
  /\ status \in [Call -> {0, 200, 201, 204, 400, 401, 403, 404, 409, 500, 502}]
  /\ \A c \in Call : seen[c] \in Seq(Row \cup History) /\ Len(seen[c]) <= MaxLimit
  /\ committed \subseteq Call /\ saving \subseteq Call
  /\ wasLive \subseteq Call /\ entitled \subseteq Call /\ unsaved \subseteq Call
  /\ live \subseteq User /\ grants \in [User -> SUBSET Role]
  /\ named \in {{}} \cup {{r} : r \in Role}
  /\ rows \subseteq Row \cup History
  /\ now \in 0 .. MaxTime /\ crashes \in 0 .. MaxCrashes

(* The answer, the change and the audit row agree.  A refusal means that      *)
(* nothing was changed and nothing recorded, whatever service-b was doing;    *)
(* success means that the call was done, and is recorded unless MongoDB       *)
(* failed, which never turns success into failure; a row means that the call  *)
(* it names was done, even if the client was told nothing because the gateway *)
(* died before it answered; MongoDB may still insert it then, and does so at  *)
(* most once.                                                                 *)
Refused(c) == status[c] \in {400, 401, 403, 404, 409}
Succeeded(c) == status[c] \in {200, 201, 204}
RowsOf(c) == {r \in rows : r.by = c}

Changes(c) == route[c] # AuditRoute /\ route[c].rpc \notin Reads

AnsweredAsItEnded ==
  \A c \in Call :
    /\ Refused(c) => c \notin committed /\ RowsOf(c) = {}
    /\ Succeeded(c) => /\ up[c] = "OK"
                       /\ Changes(c) => c \in committed
                       /\ route[c] # AuditRoute => c \in unsaved \/ RowsOf(c) # {}
    /\ c \in unsaved \/ RowsOf(c) # {} => Succeeded(c) \/ pc[c] \in {"audit", "answer", "lost"}
    /\ \A r \in RowsOf(c) : /\ up[c] = "OK" /\ r.rpc = route[c].rpc
                            /\ Changes(c) => c \in committed
                            /\ RowsOf(c) = {r}

(* The audit log is shown to callers that service-b had reason to call        *)
(* administrators while the request asked: they were live, had then or later  *)
(* some role, and that very role was then or later named admin.  The three    *)
(* moments need not be one: between Me's statements a role can be taken from  *)
(* the caller and only then renamed to admin.  The token's roles are no       *)
(* reason, nor what the caller was before the request.                        *)
LogsOnlyToAdmins ==
  \A c \in Call : route[c] = AuditRoute /\ status[c] = 200 => c \in entitled

(* What GET /audit-logs answers: matching rows, no more than the limit, newest *)
(* first, none passed over for an older one.  Without a search an answer is    *)
(* short only if it shows all there is; with one, whatever matches among the   *)
(* newest rows that the same query without the search shows is found.          *)
Wanted(q) ==
  LET n == IF q.limit = {} THEN DefaultLimit ELSE CHOOSE x \in q.limit : TRUE
  IN  CHOOSE m \in 1 .. MaxLimit :
        IF n \in 1 .. MaxLimit THEN m = n ELSE m = (IF n < 1 THEN 1 ELSE MaxLimit)

Answers(s, q) ==
  LET listed == {r \in rows : r.rpc \in q.filter}
      hits == {r \in listed : q.search => r.rpc \in q.needle}
      left == hits \ Range(s)
  IN  /\ Range(s) \subseteq hits
      /\ \A i, j \in DOMAIN s : i < j => s[i] # s[j] /\ s[i].at >= s[j].at
      /\ \A i \in DOMAIN s : \A r \in left : r.at <= s[i].at
      /\ Len(s) <= Wanted(q)
      /\ Len(s) < Wanted(q) =>
           \A r \in left :
             q.search /\ Cardinality({x \in listed \ {r} : x.at >= r.at}) >= Wanted(q)

SearchFindsNewest ==
  [][\A c \in Call : At(c, "list") /\ status'[c] = 200 =>
       \A q \in query[c] : Answers(seen'[c], q)]_vars
=============================================================================
