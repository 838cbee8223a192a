---------------------------- MODULE Gateway_proofs ----------------------------
(***************************************************************************)
(* Proofs about Gateway, for any requests, users, roles, routes, queries,  *)
(* limits and numbers of crashes: what was answered, done and recorded     *)
(* agree, the audit log goes to administrators, and a search of it gives   *)
(* the newest rows that match.                                             *)
(***************************************************************************)
EXTENDS Gateway, FiniteSetTheorems, SequenceTheorems, NaturalsInduction, WellFoundedInduction, TLAPS

(* The types that the safety invariants need; what was seen, stored and when  *)
(* comes with the listings, in VInv.                                          *)
States == {"new", "call", "audit", "answer", "asking", "list", "done", "lost"}

Types ==
  /\ pc \in [Call -> States]
  /\ route \in [Call -> Routes \cup {AuditRoute, NoRoute}]
  /\ bearer \in [Call -> User \cup {Nobody}]
  /\ up \in [Call -> Codes]
  /\ status \in [Call -> Nat]
  /\ DOMAIN found = Call /\ DOMAIN held = Call

(* The request, its call at service-b, its answer and its audit row.          *)
Recorded(c) == c \in unsaved \/ RowsOf(c) # {}

Answered(c) ==
  /\ Refused(c) =>
       /\ route[c] = AuditRoute \/ up[c] \in {"idle"} \cup Refusals
       /\ ~ Recorded(c)
  /\ Succeeded(c) => up[c] = "OK" /\ (route[c] # AuditRoute => Recorded(c))
  /\ Recorded(c) => Succeeded(c) \/ pc[c] \in {"audit", "answer", "lost"}
  /\ \A r \in RowsOf(c) : up[c] = "OK" /\ r.rpc = route[c].rpc /\ RowsOf(c) = {r}

(* An insert on its way is of a call that succeeded, and the row is not there *)
(* yet: it comes once at most, whatever has become of the request.            *)
Inserting(c) ==
  c \in saving => /\ up[c] = "OK" /\ route[c] \in Routes /\ RowsOf(c) = {}
                  /\ Succeeded(c) \/ pc[c] \in {"audit", "answer", "lost"}

\* a request in service has no answer yet, and no row before it has one to save
Begun(c) ==
  /\ pc[c] # "done" => status[c] = 0
  /\ pc[c] \in {"new", "call", "asking", "list"} => ~ Recorded(c) /\ c \notin saving
  /\ pc[c] = "new" => up[c] = "idle"
  /\ pc[c] \in {"call", "audit", "answer"} => route[c] \in Routes /\ up[c] # "idle"
  /\ pc[c] \in {"asking", "list"} => route[c] = AuditRoute /\ up[c] # "idle"
  /\ pc[c] \in {"audit", "answer", "list"} => up[c] = "OK"
  /\ pc[c] = "audit" => c \in saving \/ Recorded(c)
  /\ pc[c] = "answer" => Recorded(c)

\* what service-b has done by the status of the call
Done(c) ==
  /\ up[c] \in {"idle"} \cup UnderWay \cup Refusals => c \notin committed
  /\ up[c] = "OK" /\ Changes(c) => c \in committed
  /\ route[c] = AuditRoute => c \notin committed

\* only requests that ask have evidence gathered, and they ask about some user
Asking(c) ==
  /\ c \in wasLive => pc[c] = "asking"
  /\ pc[c] = "asking" => bearer[c] \in User

(* While a request asks who is calling, its evidence keeps up with the rows,  *)
(* and what Me has read so far is among what the caller has had: in the end   *)
(* a role it found to be admin is evidence enough.                            *)
Watched(c) ==
  /\ bearer[c] \in live => c \in wasLive
  /\ c \in wasLive => grants[bearer[c]] \subseteq held[c]
  /\ held[c] \cap named # {} => c \in entitled

AsFarAsRead(c) ==
  /\ up[c] \in {"user read", "ids read"} => c \in wasLive
  /\ up[c] = "ids read" => found[c] \subseteq held[c]
  /\ up[c] = "OK" /\ found[c] # {} => c \in entitled

Entitled(c) ==
  /\ pc[c] = "asking" => Watched(c) /\ AsFarAsRead(c)
  /\ pc[c] = "list" => c \in entitled
  /\ route[c] = AuditRoute /\ status[c] = 200 => c \in entitled

IInv ==
  /\ Types
  /\ \A c \in Call : Answered(c) /\ Inserting(c) /\ Begun(c) /\ Done(c)
  /\ \A c \in Call : Asking(c) /\ Entitled(c)

-----------------------------------------------------------------------------
(* Routes and codes. *)

LEMMA RouteFacts ==
  \A r \in Routes : r.ok \in {200, 201, 204} /\ r # AuditRoute
  BY DEF Routes, AuthRoutes, UserRoutes, MemberRoutes, RoleRoutes, AuditRoute, Route

LEMMA MappedCodes ==
  ASSUME NEW code \in Codes, code \notin UnderWay \cup {"idle", "OK"}, NEW otherwise \in {500, 502}
  PROVE  /\ mapGrpcError(code, otherwise) \in {400, 401, 403, 404, 409} \cup {otherwise}
         /\ mapGrpcError(code, otherwise) # otherwise => code \in Refusals
<1>1. code \in {"INTERNAL"} \cup Refusals
  BY DEF Codes
<1>2. CASE code = "INTERNAL"
  BY <1>2 DEF mapGrpcError
<1>3. CASE code \in Refusals
  BY <1>3 DEF Refusals, mapGrpcError
<1> QED BY <1>1, <1>2, <1>3

LEMMA InitInv == Init => IInv
<1> SUFFICES ASSUME Init PROVE IInv
  OBVIOUS
<1>1. Types
  BY DEF Init, Types, States, Codes
<1>2. ASSUME NEW c \in Call PROVE RowsOf(c) = {}
  BY HistoryAssumption DEF Init, RowsOf
<1>3. ASSUME NEW c \in Call PROVE Answered(c) /\ Inserting(c) /\ Begun(c)
  BY <1>2 DEF Init, Answered, Recorded, Inserting, Begun, Refused, Succeeded
<1>4. ASSUME NEW c \in Call PROVE Done(c) /\ Asking(c) /\ Entitled(c)
  BY DEF Init, Done, Asking, Entitled
<1> QED BY <1>1, <1>3, <1>4 DEF IInv

\* what a failed call is answered
LEMMA FailedCall ==
  ASSUME Types, NEW c \in Call, up[c] \notin UnderWay \cup {"OK"}, up[c] # "idle",
         NEW otherwise \in {500, 502}
  PROVE  /\ mapGrpcError(up[c], otherwise) \in {400, 401, 403, 404, 409} \cup {otherwise}
         /\ mapGrpcError(up[c], otherwise) # otherwise => up[c] \in Refusals
<1>1. up[c] \in Codes
  BY DEF Types
<1> QED BY <1>1, MappedCodes

\* a step of service-b moves one call, from under way
LEMMA CallMoves ==
  ASSUME Types, NEW c \in Call, Upstream(c)
  PROVE  /\ up[c] \in UnderWay /\ up'[c] \in Codes \ {"idle"}
         /\ up' = [up EXCEPT ![c] = up'[c]]
  BY DEF Upstream, FindCaller, ReadGrants, ReadRoles, AsksMe, Serve, Refuse, Break, Types, Codes,
     UnderWay, Refusals

LEMMA TypesStep ==
  ASSUME IInv, [Next]_vars
  PROVE  Types'
<1>0. Types
  BY DEF IInv
<1> USE <1>0 DEF Types, States, requests, serviceB, mongo, history, evidence, Goto, Answer
<1>1. ASSUME NEW c \in Call, Handle(c) PROVE Types'
  <2>1. CASE Reject(c)
    BY <2>1 DEF Reject
  <2>2. CASE Receive(c)
    BY <2>2 DEF Receive, Codes, UnderWay
  <2>3. CASE Hear(c)
    <3>1. At(c, "call") /\ up[c] # "idle"
      BY <2>3 DEF Hear, At, IInv, Begun
    <3>2. up[c] \notin UnderWay \cup {"OK"} => mapGrpcError(up[c], 502) \in Nat
      BY <3>1, FailedCall
    <3> QED BY <2>3, <3>2 DEF Hear
  <2>4. CASE CutOff(c)
    BY <2>4 DEF CutOff, Judged
  <2>5. CASE Insert(c) \/ SaveAudit(c) \/ SaveAuditFails(c)
    BY <2>5 DEF Insert, SaveAudit, SaveAuditFails
  <2>6. CASE Reply(c)
    <3>1. route[c].ok \in Nat
      BY <2>6, RouteFacts DEF Reply, At, IInv, Begun
    <3> QED BY <2>6, <3>1 DEF Reply
  <2>7. CASE ReceiveAudit(c)
    <3>1. DOMAIN held' = Call
      BY <2>7 DEF ReceiveAudit, Begins
    <3>2. /\ pc' \in [Call -> States] /\ route' \in [Call -> Routes \cup {AuditRoute, NoRoute}]
          /\ bearer' \in [Call -> User \cup {Nobody}] /\ status' \in [Call -> Nat]
          /\ found' = found
      BY <2>7 DEF ReceiveAudit
    <3>3. up' \in [Call -> Codes]
      BY <2>7 DEF ReceiveAudit, Codes, UnderWay
    <3> QED BY <3>1, <3>2, <3>3
  <2>8. CASE HearMe(c)
    <3>1. At(c, "asking") /\ up[c] # "idle"
      BY <2>8 DEF HearMe, At, IInv, Begun
    <3>2. up[c] \notin UnderWay \cup {"OK"} => mapGrpcError(up[c], 500) \in Nat
      BY <3>1, FailedCall
    <3> QED BY <2>8, <3>2 DEF HearMe, Judged
  <2>9. CASE List(c) \/ ListFails(c)
    BY <2>9 DEF List, ListFails
  <2> QED BY <1>1, <2>1, <2>2, <2>3, <2>4, <2>5, <2>6, <2>7, <2>8, <2>9 DEF Handle
<1>2. ASSUME NEW c \in Call, Upstream(c) PROVE Types'
  <2>1. up' \in [Call -> Codes]
    BY <1>2, CallMoves
  <2>2. UNCHANGED <<pc, route, bearer, status>>
    BY <1>2 DEF Upstream, FindCaller, ReadGrants, ReadRoles, Serve, Refuse, Break
  <2>3. DOMAIN found' = Call
    BY <1>2 DEF Upstream, FindCaller, ReadGrants, ReadRoles, Serve, Refuse, Break
  <2>4. DOMAIN held' = Call
    BY <1>2 DEF Upstream, FindCaller, ReadGrants, ReadRoles, Serve, Refuse, Break, Effect, Witness,
       NoEffect
  <2> QED BY <2>1, <2>2, <2>3, <2>4
<1>3. CASE Tick
  BY <1>3 DEF Tick
<1>4. CASE Crash
  BY <1>4 DEF Crash, Judged
<1>5. CASE OtherClient
  BY <1>5 DEF OtherClient, Witness
<1>6. CASE UNCHANGED vars
  BY <1>6 DEF vars
<1> QED BY <1>1, <1>2, <1>3, <1>4, <1>5, <1>6 DEF Next, Over

-----------------------------------------------------------------------------
(* Rows. *)

LEMMA RowsStay ==
  ASSUME NEW d \in Call, rows' = rows
  PROVE  RowsOf(d)' = RowsOf(d)
  BY DEF RowsOf

LEMMA RowAdded ==
  ASSUME NEW c \in Call, rows' = rows \cup {AuditRow(c)}
  PROVE  /\ RowsOf(c)' = RowsOf(c) \cup {AuditRow(c)}
         /\ \A d \in Call : d # c => RowsOf(d)' = RowsOf(d)
         /\ AuditRow(c).rpc = route[c].rpc
<1>1. AuditRow(c).by = c /\ AuditRow(c).rpc = route[c].rpc
  BY DEF AuditRow
<1> QED BY <1>1 DEF RowsOf

\* only MongoDB adds rows, and only SaveAuditFails gives one up
LEMMA Records ==
  ASSUME [Next]_vars, NEW d \in Call
  PROVE  \/ Insert(d)
         \/ /\ RowsOf(d)' = RowsOf(d)
            /\ SaveAuditFails(d) \/ (d \in unsaved' <=> d \in unsaved)
            /\ SaveAuditFails(d) \/ Hear(d) \/ (d \in saving' <=> d \in saving)
<1> USE DEF requests, serviceB, mongo, history, evidence
<1>1. ASSUME NEW c \in Call, Handle(c), ~ Insert(c) PROVE rows' = rows
  BY <1>1 DEF Handle, Reject, Receive, Hear, CutOff, SaveAudit, SaveAuditFails, Reply,
     ReceiveAudit, HearMe, List, ListFails
<1>2. ASSUME NEW c \in Call, Handle(c)
      PROVE  SaveAuditFails(c) \/ unsaved' = unsaved
  BY <1>2 DEF Handle, Reject, Receive, Hear, CutOff, Insert, SaveAudit, Reply, ReceiveAudit,
     HearMe, List, ListFails
<1>3. ASSUME NEW c \in Call, Handle(c)
      PROVE  Insert(c) \/ SaveAuditFails(c) \/ Hear(c) \/ saving' = saving
  BY <1>3 DEF Handle, Reject, Receive, CutOff, SaveAudit, Reply, ReceiveAudit, HearMe, List,
     ListFails
<1>4. ASSUME NEW c \in Call, c # d, Insert(c)
      PROVE  RowsOf(d)' = RowsOf(d) /\ (d \in saving' <=> d \in saving)
  BY <1>4, RowAdded DEF Insert
<1>5. ASSUME NEW c \in Call, c # d, SaveAuditFails(c)
      PROVE  (d \in unsaved' <=> d \in unsaved) /\ (d \in saving' <=> d \in saving)
  BY <1>5 DEF SaveAuditFails
<1>6. ASSUME NEW c \in Call, c # d, Hear(c) PROVE d \in saving' <=> d \in saving
  BY <1>6 DEF Hear
<1>7. ASSUME NEW c \in Call, Upstream(c) PROVE UNCHANGED <<rows, unsaved, saving>>
  BY <1>7 DEF Upstream, FindCaller, ReadGrants, ReadRoles, Serve, Refuse, Break
<1>8. OtherClient \/ Tick \/ Crash \/ UNCHANGED vars => UNCHANGED <<rows, unsaved, saving>>
  BY DEF OtherClient, Tick, Crash, vars
<1>9. ASSUME UNCHANGED <<rows, unsaved, saving>>
      PROVE  /\ RowsOf(d)' = RowsOf(d)
             /\ d \in unsaved' <=> d \in unsaved
             /\ d \in saving' <=> d \in saving
  BY <1>9, RowsStay
<1>10. ASSUME NEW c \in Call, Handle(c), ~ Insert(d)
       PROVE  /\ RowsOf(d)' = RowsOf(d)
              /\ SaveAuditFails(d) \/ (d \in unsaved' <=> d \in unsaved)
              /\ SaveAuditFails(d) \/ Hear(d) \/ (d \in saving' <=> d \in saving)
  <2>1. RowsOf(d)' = RowsOf(d)
    BY <1>1, <1>4, <1>10, RowsStay
  <2>2. SaveAuditFails(d) \/ (d \in unsaved' <=> d \in unsaved)
    BY <1>2, <1>5, <1>10
  <2>3. SaveAuditFails(d) \/ Hear(d) \/ (d \in saving' <=> d \in saving)
    BY <1>3, <1>4, <1>5, <1>6, <1>10
  <2> QED BY <2>1, <2>2, <2>3
<1> QED BY <1>7, <1>8, <1>9, <1>10 DEF Next, Over

-----------------------------------------------------------------------------
(* Steps of the gateway. *)

\* what any step does to the state of one request
LEMMA Moves ==
  ASSUME IInv, [Next]_vars, NEW d \in Call
  PROVE  \/ Handle(d) /\ ~ Insert(d)
         \/ /\ status'[d] = status[d] /\ route'[d] = route[d] /\ bearer'[d] = bearer[d]
            /\ pc'[d] = pc[d] \/ (pc[d] # "done" /\ pc'[d] = "lost")
            /\ up'[d] = up[d] \/ (up[d] \in UnderWay /\ up'[d] \in Codes \ {"idle"})
<1> USE DEF requests, serviceB, mongo, history, evidence, Goto, Answer
<1>0. Types
  BY DEF IInv
<1>1. ASSUME NEW c \in Call, Handle(c), c # d
      PROVE  /\ status'[d] = status[d] /\ route'[d] = route[d] /\ bearer'[d] = bearer[d]
             /\ pc'[d] = pc[d] /\ up'[d] = up[d]
  BY <1>0, <1>1 DEF Handle, Reject, Receive, Hear, CutOff, Insert, SaveAudit, SaveAuditFails, Reply,
     ReceiveAudit, HearMe, List, ListFails, Types
<1>2. ASSUME Insert(d) PROVE UNCHANGED <<pc, route, bearer, up, status>>
  BY <1>2 DEF Insert
<1>3. ASSUME NEW c \in Call, Upstream(c)
      PROVE  /\ UNCHANGED <<pc, route, bearer, status>>
             /\ up'[d] = up[d] \/ (up[d] \in UnderWay /\ up'[d] \in Codes \ {"idle"})
  <2>1. UNCHANGED <<pc, route, bearer, status>>
    BY <1>3 DEF Upstream, FindCaller, ReadGrants, ReadRoles, Serve, Refuse, Break
  <2>2. /\ up[c] \in UnderWay /\ up'[c] \in Codes \ {"idle"}
        /\ up' = [up EXCEPT ![c] = up'[c]]
    BY <1>0, <1>3, CallMoves
  <2>3. c # d => up'[d] = up[d]
    BY <1>0, <2>2 DEF Types
  <2> QED BY <2>1, <2>2, <2>3
<1>4. OtherClient \/ Tick \/ UNCHANGED vars => UNCHANGED <<pc, route, bearer, up, status>>
  BY DEF OtherClient, Tick, vars
<1>5. Crash => /\ UNCHANGED <<route, bearer, up, status>>
               /\ pc'[d] = pc[d] \/ (pc[d] # "done" /\ pc'[d] = "lost")
  BY <1>0 DEF Crash, InService, Types
<1> QED BY <1>1, <1>2, <1>3, <1>4, <1>5 DEF Next, Over

LEMMA BegunStep ==
  ASSUME IInv, [Next]_vars, NEW d \in Call
  PROVE  Begun(d)'
<1> USE DEF requests, serviceB, mongo, history, evidence, Goto, At, Answer
<1>0. Types /\ Begun(d) /\ Inserting(d)
  BY DEF IInv
<1>1. CASE Insert(d)
  <2>1. UNCHANGED <<pc, route, up, status, unsaved>> /\ saving' = saving \ {d} /\ d \in saving
    BY <1>1 DEF Insert
  <2>2. RowsOf(d)' # {}
    BY <1>1, RowAdded DEF Insert
  <2>3. pc[d] \notin {"new", "call", "asking", "list"}
    BY <1>0, <2>1 DEF Begun
  <2>4. Recorded(d)'
    BY <2>2 DEF Recorded
  <2> QED BY <1>0, <2>1, <2>3, <2>4 DEF Begun
<1>2. ASSUME ~ Insert(d), ~ SaveAuditFails(d)
      PROVE  (Recorded(d)' <=> Recorded(d)) /\ (Hear(d) \/ (d \in saving' <=> d \in saving))
  BY <1>2, Records DEF Recorded
<1>3. CASE Handle(d) /\ ~ Insert(d)
  <2>1. CASE Reject(d)
    BY <1>0, <1>2, <1>3, <2>1 DEF Reject, Begun, Types, SaveAuditFails, Hear
  <2>2. CASE Receive(d)
    BY <1>0, <1>2, <1>3, <2>2 DEF Receive, Begun, Types, SaveAuditFails, Hear
  <2>3. CASE Hear(d)
    <3>1. ~ SaveAuditFails(d) /\ pc[d] = "call" /\ status[d] = 0 /\ UNCHANGED <<route, up>>
      BY <1>0, <2>3 DEF Hear, SaveAuditFails, Begun
    <3>2. CASE up[d] = "OK"
      <4>1. pc'[d] = "audit" /\ status' = status /\ d \in saving'
        BY <1>0, <2>3, <3>2 DEF Hear, Types
      <4> QED BY <1>0, <3>1, <3>2, <4>1 DEF Begun
    <3>3. CASE up[d] # "OK"
      <4>1. pc'[d] = "done"
        BY <1>0, <2>3, <3>3 DEF Hear, Types
      <4> QED BY <4>1 DEF Begun
    <3> QED BY <3>2, <3>3
  <2>4. CASE CutOff(d) \/ Reply(d) \/ List(d) \/ ListFails(d)
    <3>1. pc'[d] = "done"
      BY <1>0, <2>4 DEF CutOff, Reply, List, ListFails, Types
    <3> QED BY <3>1 DEF Begun
  <2>5. CASE SaveAudit(d)
    <3>1. /\ UNCHANGED <<route, up, status, rows, unsaved>>
          /\ pc'[d] = "answer" /\ pc[d] = "audit" /\ d \notin saving
      BY <1>0, <2>5 DEF SaveAudit, Types
    <3>2. Recorded(d)' <=> Recorded(d)
      BY <3>1, RowsStay DEF Recorded
    <3>3. Recorded(d)'
      BY <1>0, <3>1, <3>2 DEF Begun
    <3> QED BY <1>0, <3>1, <3>3 DEF Begun
  <2>6. CASE SaveAuditFails(d)
    <3>1. pc'[d] = "answer" /\ pc[d] = "audit" /\ UNCHANGED <<route, up, status>> /\ d \in unsaved'
      BY <1>0, <2>6 DEF SaveAuditFails, Types
    <3> QED BY <1>0, <3>1 DEF Begun, Recorded
  <2>7. CASE ReceiveAudit(d)
    BY <1>0, <1>2, <1>3, <2>7 DEF ReceiveAudit, Begun, Types, SaveAuditFails, Hear
  <2>8. CASE HearMe(d)
    <3>1. ~ SaveAuditFails(d) /\ ~ Hear(d)
      BY <1>0, <2>8 DEF HearMe, SaveAuditFails, Hear
    <3>2. pc'[d] = "done" \/ (pc'[d] = "list" /\ up[d] = "OK" /\ status' = status)
      BY <1>0, <2>8 DEF HearMe, Types
    <3>3. UNCHANGED <<route, up>> /\ pc[d] = "asking"
      BY <2>8 DEF HearMe
    <3> QED BY <1>0, <1>2, <1>3, <3>1, <3>2, <3>3 DEF Begun
  <2> QED BY <1>3, <2>1, <2>2, <2>3, <2>4, <2>5, <2>6, <2>7, <2>8 DEF Handle
<1>4. CASE ~ Handle(d)
  <2>1. ~ SaveAuditFails(d) /\ ~ Hear(d) /\ ~ Insert(d)
    BY <1>4 DEF Handle
  <2>2. (Recorded(d)' <=> Recorded(d)) /\ (d \in saving' <=> d \in saving)
    BY <1>2, <2>1
  <2>3. /\ status'[d] = status[d] /\ route'[d] = route[d]
        /\ pc'[d] = pc[d] \/ (pc[d] # "done" /\ pc'[d] = "lost")
        /\ up'[d] = up[d] \/ (up[d] \in UnderWay /\ up'[d] \in Codes \ {"idle"})
    BY <1>4, Moves
  <2> QED BY <1>0, <2>2, <2>3 DEF Begun, UnderWay
<1> QED BY <1>1, <1>3, <1>4

LEMMA InsertingStep ==
  ASSUME IInv, [Next]_vars, NEW d \in Call
  PROVE  Inserting(d)'
<1> USE DEF requests, serviceB, mongo, history, evidence, Goto, At, Answer
<1>0. Types /\ Begun(d) /\ Inserting(d)
  BY DEF IInv
<1>1. CASE Insert(d)
  BY <1>1 DEF Insert, Inserting
<1>2. CASE Hear(d)
  <2>1. ~ Insert(d)
    BY <1>0, <1>2 DEF Hear, Insert, Begun
  <2>2. RowsOf(d)' = {}
    BY <1>0, <1>2, <2>1, Records DEF Hear, Begun, Recorded
  <2>3. CASE up[d] = "OK"
    BY <1>0, <1>2, <2>2, <2>3 DEF Hear, Inserting, Types, Begun
  <2>4. CASE up[d] # "OK"
    BY <1>0, <1>2, <2>4 DEF Hear, Inserting, Begun
  <2> QED BY <2>3, <2>4
<1>3. CASE Reply(d)
  <2>1. ~ Insert(d) => RowsOf(d)' = RowsOf(d)
    BY Records
  <2>2. d \in saving' => d \in saving
    BY <1>3 DEF Reply
  <2>3. status'[d] \in {200, 201, 204}
    BY <1>0, <1>3, RouteFacts DEF Reply, Begun, Types
  <2> QED BY <1>0, <1>1, <1>3, <2>1, <2>2, <2>3 DEF Reply, Inserting, Succeeded
<1>4. CASE SaveAudit(d) \/ SaveAuditFails(d)
  <2>1. ~ Insert(d) => RowsOf(d)' = RowsOf(d)
    BY Records
  <2>2. /\ d \in saving' => d \in saving
        /\ UNCHANGED <<route, up>> /\ pc'[d] = "answer"
    BY <1>0, <1>4 DEF SaveAudit, SaveAuditFails, Types
  <2> QED BY <1>0, <1>1, <2>1, <2>2 DEF Inserting
<1>5. CASE Handle(d) /\ ~ Insert(d) /\ ~ Hear(d) /\ ~ Reply(d) /\ ~ SaveAudit(d) /\ ~ SaveAuditFails(d)
  <2>1. d \notin saving
    BY <1>0, <1>5 DEF Handle, Reject, Receive, CutOff, ReceiveAudit, HearMe, List, ListFails, Begun
  <2> QED BY <1>5, <2>1, Records DEF Inserting
<1>6. CASE ~ Handle(d)
  <2>1. ~ SaveAuditFails(d) /\ ~ Hear(d) /\ ~ Insert(d)
    BY <1>6 DEF Handle
  <2>2. RowsOf(d)' = RowsOf(d) /\ (d \in saving' <=> d \in saving)
    BY <2>1, Records
  <2>3. /\ status'[d] = status[d] /\ route'[d] = route[d]
        /\ pc'[d] = pc[d] \/ (pc[d] # "done" /\ pc'[d] = "lost")
        /\ up'[d] = up[d] \/ up[d] \in UnderWay
    BY <1>6, Moves
  <2> QED BY <1>0, <2>2, <2>3 DEF Inserting, UnderWay, Succeeded
<1> QED BY <1>1, <1>2, <1>3, <1>4, <1>5, <1>6

LEMMA AnsweredStep ==
  ASSUME IInv, [Next]_vars, NEW d \in Call
  PROVE  Answered(d)'
<1> USE DEF requests, serviceB, mongo, history, evidence, Goto, At, Answer, Refused, Succeeded
<1>0. Types /\ Begun(d) /\ Answered(d) /\ Inserting(d)
  BY DEF IInv
\* nothing recorded, and no success yet or one of the audit route
<1>1. ASSUME ~ Recorded(d)',
             ~ Succeeded(d)' \/ (up'[d] = "OK" /\ route'[d] = AuditRoute),
             Refused(d)' => route'[d] = AuditRoute \/ up'[d] \in {"idle"} \cup Refusals
      PROVE  Answered(d)'
  BY <1>1 DEF Answered, Recorded
\* a row stays what it was, or the record is that there may be none
<1>2. ASSUME RowsOf(d)' = RowsOf(d), route'[d] = route[d], up'[d] = up[d], Recorded(d)',
             Succeeded(d)' \/ pc'[d] \in {"audit", "answer", "lost"}, ~ Refused(d)',
             Succeeded(d)' => up[d] = "OK"
      PROVE  Answered(d)'
  BY <1>0, <1>2 DEF Answered
<1>3. CASE Insert(d)
  <2>1. /\ UNCHANGED <<pc, route, up, status>> /\ up[d] = "OK" /\ route[d] \in Routes
        /\ RowsOf(d) = {}
        /\ Succeeded(d) \/ pc[d] \in {"audit", "answer", "lost"}
    BY <1>0, <1>3 DEF Insert, Inserting
  <2>2. RowsOf(d)' = {AuditRow(d)} /\ AuditRow(d).rpc = route[d].rpc
    <3>1. rows' = rows \cup {AuditRow(d)}
      BY <1>3 DEF Insert
    <3> QED BY <2>1, <3>1, RowAdded
  <2>3. ~ Refused(d)
    <3>1. Refused(d) => up[d] \in {"idle"} \cup Refusals
      BY <1>0, <2>1, RouteFacts DEF Answered
    <3> QED BY <2>1, <3>1 DEF Refusals
  <2>4. \A r \in RowsOf(d)' : up'[d] = "OK" /\ r.rpc = route'[d].rpc /\ RowsOf(d)' = {r}
    BY <2>1, <2>2
  <2> QED BY <2>1, <2>2, <2>3, <2>4 DEF Answered, Recorded
<1>4. CASE Handle(d) /\ ~ Insert(d)
  <2>0. RowsOf(d)' = RowsOf(d) /\ (SaveAuditFails(d) \/ (d \in unsaved' <=> d \in unsaved))
    BY <1>4, Records
  <2>1. CASE Reject(d)
    <3>1. ~ Recorded(d)' /\ up[d] = "idle" /\ up' = up /\ status'[d] = 400
      BY <1>0, <2>0, <2>1 DEF Reject, Begun, Types, Recorded, SaveAuditFails
    <3> QED BY <1>1, <3>1
  <2>2. CASE Receive(d)
    <3>1. ~ Recorded(d)' /\ status'[d] = 0
      BY <1>0, <2>0, <2>2 DEF Receive, Begun, Recorded, SaveAuditFails
    <3> QED BY <1>1, <3>1
  <2>3. CASE Hear(d)
    <3>1. ~ Recorded(d)' /\ up' = up /\ status[d] = 0
      BY <1>0, <2>0, <2>3 DEF Hear, Begun, Recorded, SaveAuditFails
    <3>2. CASE up[d] = "OK"
      <4>1. status'[d] = 0
        BY <2>3, <3>1, <3>2 DEF Hear
      <4> QED BY <1>1, <3>1, <4>1
    <3>3. CASE up[d] # "OK"
      <4>1. /\ up[d] \notin UnderWay \cup {"OK"} /\ up[d] # "idle"
            /\ status'[d] = mapGrpcError(up[d], 502)
        BY <1>0, <2>3, <3>3 DEF Hear, Begun, Types
      <4>2. /\ status'[d] \in {400, 401, 403, 404, 409} \cup {502}
            /\ status'[d] # 502 => up[d] \in Refusals
        BY <1>0, <4>1, FailedCall
      <4> QED BY <1>1, <3>1, <4>2
    <3> QED BY <3>2, <3>3
  <2>4. CASE CutOff(d)
    <3>1. ~ Recorded(d)' /\ status'[d] \in {500, 502}
      BY <1>0, <2>0, <2>4 DEF CutOff, Begun, Types, Recorded, SaveAuditFails
    <3> QED BY <1>1, <3>1
  <2>5. CASE SaveAudit(d) \/ SaveAuditFails(d)
    <3>1. pc[d] = "audit" /\ pc'[d] = "answer" /\ status' = status /\ UNCHANGED <<route, up>>
      BY <1>0, <2>5 DEF SaveAudit, SaveAuditFails, Types
    <3>2. Recorded(d)'
      <4>1. CASE SaveAudit(d)
        <5>1. d \notin saving /\ UNCHANGED <<rows, unsaved>>
          BY <4>1 DEF SaveAudit
        <5>2. Recorded(d)
          BY <1>0, <3>1, <5>1 DEF Begun
        <5> QED BY <2>0, <5>1, <5>2 DEF Recorded
      <4>2. CASE SaveAuditFails(d)
        BY <4>2 DEF SaveAuditFails, Recorded
      <4> QED BY <2>5, <4>1, <4>2
    <3>3. status[d] = 0
      BY <1>0, <3>1 DEF Begun
    <3> QED BY <1>2, <2>0, <3>1, <3>2, <3>3
  <2>6. CASE Reply(d)
    <3>1. Recorded(d)' /\ up[d] = "OK" /\ UNCHANGED <<route, up>>
      BY <1>0, <2>0, <2>6 DEF Reply, Begun, Recorded, SaveAuditFails
    <3>2. status'[d] \in {200, 201, 204}
      BY <1>0, <2>6, RouteFacts DEF Reply, Begun, Types
    <3> QED BY <1>2, <2>0, <3>1, <3>2
  <2>7. CASE ReceiveAudit(d)
    <3>1. ~ Recorded(d)' /\ status'[d] \in {0, 401} /\ route'[d] = AuditRoute
      BY <1>0, <2>0, <2>7 DEF ReceiveAudit, Begun, Types, Recorded, SaveAuditFails
    <3> QED BY <1>1, <3>1
  <2>8. CASE HearMe(d)
    <3>1. /\ ~ Recorded(d)' /\ UNCHANGED <<up, route>> /\ route[d] = AuditRoute
          /\ up[d] # "idle" /\ status[d] = 0
      BY <1>0, <2>0, <2>8 DEF HearMe, Begun, Recorded, SaveAuditFails
    <3>2. up[d] \notin UnderWay \cup {"OK"} =>
            mapGrpcError(up[d], 500) \in {400, 401, 403, 404, 409} \cup {500}
      BY <1>0, <3>1, FailedCall
    <3>3. ~ Succeeded(d)'
      BY <1>0, <2>8, <3>1, <3>2 DEF HearMe, Types
    <3> QED BY <1>1, <3>1, <3>3
  <2>9. CASE List(d) \/ ListFails(d)
    <3>1. /\ ~ Recorded(d)' /\ UNCHANGED <<up, route>> /\ route[d] = AuditRoute
          /\ up[d] = "OK" /\ status'[d] \in {200, 500}
      BY <1>0, <2>0, <2>9 DEF List, ListFails, Begun, Types, Recorded, SaveAuditFails
    <3> QED BY <1>1, <3>1
  <2> QED BY <1>4, <2>1, <2>2, <2>3, <2>4, <2>5, <2>6, <2>7, <2>8, <2>9 DEF Handle
<1>5. CASE ~ Handle(d)
  <2>1. ~ SaveAuditFails(d) /\ ~ Insert(d)
    BY <1>5 DEF Handle
  <2>2. RowsOf(d)' = RowsOf(d) /\ (Recorded(d)' <=> Recorded(d))
    BY <2>1, Records DEF Recorded
  <2>3. /\ status'[d] = status[d] /\ route'[d] = route[d]
        /\ pc'[d] = pc[d] \/ (pc[d] # "done" /\ pc'[d] = "lost")
        /\ up'[d] = up[d] \/ up[d] \in UnderWay
    BY <1>5, Moves
  <2>4. up[d] \in {"idle", "OK"} \cup Refusals => up'[d] = up[d]
    BY <2>3 DEF UnderWay, Refusals
  <2>5. /\ (Refused(d)' <=> Refused(d)) /\ (Succeeded(d)' <=> Succeeded(d))
        /\ pc[d] \in {"audit", "answer", "lost"} => pc'[d] \in {"audit", "answer", "lost"}
    BY <2>3
  <2>6. \A r \in RowsOf(d)' : up'[d] = "OK" /\ r.rpc = route'[d].rpc /\ RowsOf(d)' = {r}
    BY <1>0, <2>2, <2>3, <2>4 DEF Answered
  <2>7. /\ Refused(d) => /\ route[d] = AuditRoute \/ up[d] \in {"idle"} \cup Refusals
                         /\ ~ Recorded(d)
        /\ Succeeded(d) => up[d] = "OK" /\ (route[d] # AuditRoute => Recorded(d))
        /\ Recorded(d) => Succeeded(d) \/ pc[d] \in {"audit", "answer", "lost"}
    BY <1>0 DEF Answered
  <2> HIDE DEF Refused, Succeeded
  <2> QED BY <2>2, <2>3, <2>4, <2>5, <2>6, <2>7 DEF Answered
<1> QED BY <1>3, <1>4, <1>5

-----------------------------------------------------------------------------
(* Steps of service-b, and what they change. *)

LEMMA DoneStep ==
  ASSUME IInv, [Next]_vars, NEW d \in Call
  PROVE  Done(d)'
<1> USE DEF requests, serviceB, mongo, history, evidence, Goto, At, Answer, Changes
<1>0. Types /\ Begun(d) /\ Done(d)
  BY DEF IInv
<1>1. ASSUME d \in committed' <=> d \in committed, up'[d] = up[d], route'[d] = route[d]
      PROVE  Done(d)'
  BY <1>0, <1>1 DEF Done
<1>2. ASSUME pc[d] = "new", committed' = committed, up'[d] \in {"idle", "running"} PROVE Done(d)'
  BY <1>0, <1>2 DEF Done, Begun, UnderWay, Refusals
<1>3. ASSUME NEW c \in Call, Handle(c) PROVE Done(d)'
  <2>1. CASE Reject(c) \/ Receive(c) \/ ReceiveAudit(c)
    <3>1. committed' = committed /\ pc[c] = "new"
      BY <2>1 DEF Reject, Receive, ReceiveAudit
    <3>2. CASE c = d
      <4>1. up'[d] \in {"idle", "running"}
        BY <1>0, <2>1, <3>1, <3>2 DEF Reject, Receive, ReceiveAudit, Begun, Types
      <4> QED BY <1>2, <3>1, <3>2, <4>1
    <3>3. CASE c # d
      <4>1. up'[d] = up[d] /\ route'[d] = route[d]
        BY <1>0, <2>1, <3>3 DEF Reject, Receive, ReceiveAudit, Types
      <4> QED BY <1>1, <3>1, <4>1
    <3> QED BY <3>2, <3>3
  <2>2. CASE Hear(c) \/ CutOff(c) \/ Insert(c) \/ SaveAudit(c) \/ SaveAuditFails(c) \/ Reply(c)
             \/ HearMe(c) \/ List(c) \/ ListFails(c)
    <3>1. UNCHANGED <<committed, up, route>>
      BY <2>2 DEF Hear, CutOff, Insert, SaveAudit, SaveAuditFails, Reply, HearMe, List, ListFails
    <3> QED BY <1>1, <3>1
  <2> QED BY <1>3, <2>1, <2>2 DEF Handle
<1>4. ASSUME NEW c \in Call, Upstream(c) PROVE Done(d)'
  <2>1. route' = route /\ up[c] \in UnderWay /\ up' = [up EXCEPT ![c] = up'[c]]
    BY <1>0, <1>4, CallMoves DEF Upstream, FindCaller, ReadGrants, ReadRoles, Serve, Refuse, Break
  <2>2. CASE c # d
    <3>1. d \in committed' <=> d \in committed
      BY <1>4, <2>2 DEF Upstream, FindCaller, ReadGrants, ReadRoles, Serve, Refuse, Break, NoEffect,
         Effect
    <3>2. up'[d] = up[d]
      BY <1>0, <2>1, <2>2 DEF Types
    <3> QED BY <1>1, <2>1, <3>1, <3>2
  <2>3. CASE c = d
    <3>1. d \notin committed
      BY <1>0, <2>1, <2>3 DEF Done
    <3>2. CASE FindCaller(d) \/ ReadGrants(d) \/ ReadRoles(d)
      <4>1. committed' = committed /\ route[d] = AuditRoute
        BY <3>2 DEF FindCaller, ReadGrants, ReadRoles, AsksMe
      <4> QED BY <2>1, <3>1, <4>1 DEF Done
    <3>3. CASE Serve(d)
      <4>1. /\ up'[d] = "OK" /\ route[d] # AuditRoute
            /\ committed' = IF route[d].rpc \in Reads THEN committed ELSE committed \cup {d}
        BY <1>0, <3>3 DEF Serve, Effect, Types
      <4> QED BY <2>1, <3>1, <4>1 DEF Done, UnderWay, Refusals
    <3>4. CASE Refuse(d)
      <4>1. committed' = committed /\ up'[d] \in Refusals
        BY <1>0, <3>4 DEF Refuse, NoEffect, Types, Refusals
      <4> QED BY <2>1, <3>1, <4>1 DEF Done, Refusals
    <3>5. CASE Break(d)
      <4>1. up'[d] = "INTERNAL" /\ (route[d] = AuditRoute => committed' = committed)
        BY <1>0, <3>5 DEF Break, NoEffect, Types
      <4> QED BY <2>1, <3>1, <4>1 DEF Done, UnderWay, Refusals
    <3> QED BY <1>4, <2>3, <3>2, <3>3, <3>4, <3>5 DEF Upstream
  <2> QED BY <2>2, <2>3
<1>5. CASE OtherClient \/ Tick \/ Crash \/ UNCHANGED vars
  BY <1>1, <1>5 DEF OtherClient, Tick, Crash, vars
<1> QED BY <1>3, <1>4, <1>5 DEF Next, Over

LEMMA AskingStep ==
  ASSUME IInv, [Next]_vars, NEW d \in Call
  PROVE  Asking(d)'
<1> USE DEF requests, serviceB, mongo, history, evidence, Goto, At, Answer
<1>0. Types /\ Asking(d)
  BY DEF IInv
<1>1. ASSUME Witness, UNCHANGED requests PROVE Asking(d)'
  BY <1>0, <1>1 DEF Witness, Asking
<1>2. ASSUME NEW c \in Call, Handle(c) PROVE Asking(d)'
  <2>1. CASE ReceiveAudit(c)
    <3>1. CASE c # d
      <4>1. /\ pc'[d] = pc[d] /\ bearer'[d] = bearer[d]
            /\ d \in wasLive' <=> d \in wasLive
        BY <1>0, <2>1, <3>1 DEF ReceiveAudit, Begins, Types
      <4> QED BY <1>0, <4>1 DEF Asking
    <3>2. CASE c = d
      <4>1. d \notin wasLive
        BY <1>0, <2>1, <3>2 DEF ReceiveAudit, Asking
      <4>2. CASE pc'[d] = "asking"
        BY <1>0, <2>1, <3>2, <4>2 DEF ReceiveAudit, Types, Asking
      <4>3. CASE pc'[d] # "asking"
        BY <1>0, <2>1, <3>2, <4>1, <4>3 DEF ReceiveAudit, Types, Asking
      <4> QED BY <4>2, <4>3
    <3> QED BY <3>1, <3>2
  <2>2. CASE CutOff(c) \/ HearMe(c)
    BY <1>0, <2>2 DEF CutOff, HearMe, Judged, Types, Asking
  <2>3. CASE Reject(c) \/ Receive(c)
    BY <1>0, <2>3 DEF Reject, Receive, Types, Asking
  <2>4. CASE Hear(c) \/ SaveAudit(c) \/ SaveAuditFails(c) \/ Reply(c) \/ List(c) \/ ListFails(c)
    BY <1>0, <2>4 DEF Hear, SaveAudit, SaveAuditFails, Reply, List, ListFails, Types, Asking
  <2>5. CASE Insert(c)
    BY <1>0, <2>5 DEF Insert, Asking
  <2> QED BY <1>2, <2>1, <2>2, <2>3, <2>4, <2>5 DEF Handle
<1>3. ASSUME NEW c \in Call, Upstream(c) PROVE Asking(d)'
  <2>1. UNCHANGED requests
    BY <1>3 DEF Upstream, FindCaller, ReadGrants, ReadRoles, Serve, Refuse, Break
  <2>2. Witness \/ wasLive' = wasLive
    BY <1>3 DEF Upstream, FindCaller, ReadGrants, ReadRoles, Serve, Refuse, Break, Effect, NoEffect
  <2> QED BY <1>0, <1>1, <2>1, <2>2 DEF Asking
<1>4. CASE OtherClient
  BY <1>1, <1>4 DEF OtherClient
<1>5. CASE Tick \/ UNCHANGED vars
  BY <1>0, <1>5 DEF Tick, vars, Asking
<1>6. CASE Crash
  BY <1>0, <1>6 DEF Crash, Judged, InService, Types, Asking
<1> QED BY <1>2, <1>3, <1>4, <1>5, <1>6 DEF Next, Over

\* evidence only grows, and keeps up with the rows
LEMMA EvidenceGrows ==
  ASSUME Types, Witness, NEW d \in Call, bearer'[d] = bearer[d], pc[d] = "asking"
  PROVE  /\ Watched(d)'
         /\ held[d] \subseteq held'[d]
         /\ wasLive \subseteq wasLive' /\ entitled \subseteq entitled'
<1> DEFINE asking == {e \in Call : At(e, "asking")}
<1>1. d \in asking
  BY DEF At
<1>2. /\ wasLive' = wasLive \cup {e \in asking : bearer[e] \in live'}
      /\ held' = [e \in Call |-> IF e \in asking /\ e \in wasLive'
                                 THEN held[e] \cup grants'[bearer[e]] ELSE held[e]]
      /\ entitled' = entitled \cup {e \in asking : held'[e] \cap named' # {}}
  BY DEF Witness
<1> HIDE DEF asking
<1>3. /\ bearer[d] \in live' => d \in wasLive'
      /\ held'[d] \cap named' # {} => d \in entitled'
  BY <1>1, <1>2
<1>4. held'[d] = IF d \in wasLive' THEN held[d] \cup grants'[bearer[d]] ELSE held[d]
  BY <1>1, <1>2
<1>5. Watched(d)'
  BY <1>3, <1>4 DEF Watched
<1> QED BY <1>2, <1>4, <1>5

\* no step but Me's own takes it further
LEMMA EvidenceStays ==
  ASSUME Types, NEW d \in Call, Entitled(d),
         pc'[d] = pc[d], bearer'[d] = bearer[d], route'[d] = route[d], status'[d] = status[d],
         found'[d] = found[d],
         pc[d] = "asking" =>
           up'[d] = up[d] \/ up'[d] \notin {"user read", "ids read", "OK"},
         Witness \/ (UNCHANGED directory /\ UNCHANGED evidence)
  PROVE  Entitled(d)'
<1>1. entitled \subseteq entitled'
  BY DEF Witness, evidence
<1>2. ASSUME pc[d] = "asking" PROVE Watched(d)' /\ AsFarAsRead(d)'
  <2>1. Watched(d) /\ AsFarAsRead(d)
    BY <1>2 DEF Entitled
  <2>2. CASE Witness
    <3>1. Watched(d)' /\ held[d] \subseteq held'[d] /\ wasLive \subseteq wasLive'
      BY <1>2, <2>2, EvidenceGrows
    <3> QED BY <1>1, <1>2, <2>1, <3>1 DEF AsFarAsRead
  <2>3. CASE UNCHANGED directory /\ UNCHANGED evidence
    <3>1. UNCHANGED <<live, grants, named, wasLive, held, entitled>>
      BY <2>3 DEF directory, evidence
    <3> QED BY <1>2, <2>1, <3>1 DEF Watched, AsFarAsRead
  <2> QED BY <2>2, <2>3
<1> QED BY <1>1, <1>2 DEF Entitled

LEMMA EntitledStep ==
  ASSUME IInv, [Next]_vars, NEW d \in Call
  PROVE  Entitled(d)'
<1> USE DEF requests, mongo, At
<1>0. Types /\ Begun(d) /\ Asking(d) /\ Entitled(d)
  BY DEF IInv
\* out of the audit route, or done with it and not shown the log
<1>2. ASSUME pc'[d] \notin {"asking", "list"}, route'[d] # AuditRoute \/ status'[d] # 200
      PROVE  Entitled(d)'
  BY <1>2 DEF Entitled
<1>3. ASSUME NEW c \in Call, Handle(c), c # d PROVE Entitled(d)'
  <2> USE DEF Goto, Answer, serviceB, history, evidence, directory
  <2>1. /\ pc'[d] = pc[d] /\ bearer'[d] = bearer[d] /\ up'[d] = up[d]
        /\ route'[d] = route[d] /\ status'[d] = status[d] /\ found' = found
    BY <1>0, <1>3 DEF Handle, Reject, Receive, Hear, CutOff, Insert, SaveAudit, SaveAuditFails,
       Reply, ReceiveAudit, HearMe, List, ListFails, Types
  <2>2. UNCHANGED <<live, grants, named>> /\ entitled \subseteq entitled'
    BY <1>3 DEF Handle, Reject, Receive, Hear, CutOff, Insert, SaveAudit, SaveAuditFails,
       Reply, ReceiveAudit, Begins, Judged, HearMe, List, ListFails
  <2>3. CASE ReceiveAudit(c)
    <3>1. held'[d] = held[d] /\ (d \in wasLive' <=> d \in wasLive)
      BY <1>0, <1>3, <2>3 DEF ReceiveAudit, Begins, Types
    <3> QED BY <1>0, <2>1, <2>2, <3>1 DEF Entitled, Watched, AsFarAsRead
  <2>4. CASE CutOff(c) \/ HearMe(c)
    <3>1. held'[d] = held[d] /\ (d \in wasLive' <=> d \in wasLive)
      BY <1>0, <1>3, <2>4 DEF CutOff, HearMe, Judged, Types
    <3> QED BY <1>0, <2>1, <2>2, <3>1 DEF Entitled, Watched, AsFarAsRead
  <2>5. CASE ~ ReceiveAudit(c) /\ ~ CutOff(c) /\ ~ HearMe(c)
    <3>1. UNCHANGED <<wasLive, held>>
      BY <1>3, <2>5 DEF Handle, Reject, Receive, Hear, Insert, SaveAudit, SaveAuditFails, Reply, List,
         ListFails
    <3> QED BY <1>0, <2>1, <2>2, <3>1 DEF Entitled, Watched, AsFarAsRead
  <2> QED BY <2>3, <2>4, <2>5
<1>4. ASSUME Handle(d) PROVE Entitled(d)'
  <2> USE DEF Goto, Answer, serviceB, history
  <2>1. CASE Reject(d) \/ Receive(d)
    <3>1. route'[d] \in Routes /\ pc'[d] \in {"done", "call"}
      BY <1>0, <2>1 DEF Reject, Receive, Types
    <3> QED BY <1>2, <3>1, RouteFacts
  <2>2. CASE Hear(d) \/ SaveAudit(d) \/ SaveAuditFails(d) \/ Reply(d)
    <3>1. route'[d] \in Routes /\ pc'[d] \in {"call", "audit", "answer", "done"}
      BY <1>0, <2>2 DEF Hear, SaveAudit, SaveAuditFails, Reply, Begun, Types
    <3> QED BY <1>2, <3>1, RouteFacts
  <2>3. CASE CutOff(d) \/ ListFails(d)
    <3>1. status'[d] \in {500, 502} /\ pc'[d] = "done"
      BY <1>0, <2>3 DEF CutOff, ListFails, Types
    <3> QED BY <1>2, <3>1
  <2>4. CASE ReceiveAudit(d)
    <3>1. CASE pc'[d] = "done"
      <4>1. status'[d] = 401
        BY <1>0, <2>4, <3>1 DEF ReceiveAudit, Types
      <4> QED BY <1>2, <3>1, <4>1
    <3>2. CASE pc'[d] # "done"
      <4>1. pc'[d] = "asking" /\ up'[d] = "running" /\ status'[d] = 0
        BY <1>0, <2>4, <3>2 DEF ReceiveAudit, Types, Begun
      <4>2. PICK u \in User : bearer' = [bearer EXCEPT ![d] = u] /\ Begins(d, u)
        BY <1>0, <2>4, <3>2 DEF ReceiveAudit, Types
      <4>3. bearer'[d] = u /\ UNCHANGED <<live, grants, named>>
        BY <1>0, <2>4, <4>2 DEF Types, ReceiveAudit, directory
      <4>4. held'[d] = IF u \in live THEN grants[u] ELSE {}
        BY <1>0, <4>2 DEF Begins, Types
      <4>5. /\ u \in live => d \in wasLive'
            /\ held'[d] \cap named # {} => d \in entitled'
        BY <4>2, <4>4 DEF Begins
      <4>6. d \in wasLive' => grants[u] \subseteq held'[d]
        <5>1. d \notin wasLive
          BY <1>0, <2>4 DEF ReceiveAudit, Asking
        <5> QED BY <4>2, <4>4, <5>1 DEF Begins
      <4>7. Watched(d)' /\ AsFarAsRead(d)'
        BY <4>1, <4>3, <4>5, <4>6 DEF Watched, AsFarAsRead
      <4> QED BY <4>1, <4>7 DEF Entitled
    <3> QED BY <3>1, <3>2
  <2>5. CASE HearMe(d)
    <3>1. /\ pc[d] = "asking" /\ up[d] # "idle" /\ status[d] = 0
          /\ UNCHANGED <<up, found, entitled>>
      BY <1>0, <2>5 DEF HearMe, Judged, Begun
    <3>2. CASE pc'[d] = "list"
      <4>1. up[d] = "OK" /\ found[d] # {} /\ status'[d] = status[d]
        BY <1>0, <2>5, <3>2 DEF HearMe, IsAdmin, Types
      <4>2. d \in entitled'
        BY <1>0, <3>1, <4>1 DEF Entitled, AsFarAsRead
      <4> QED BY <3>2, <4>2 DEF Entitled
    <3>3. CASE pc'[d] # "list"
      <4>1. up[d] \notin UnderWay \cup {"OK"} => mapGrpcError(up[d], 500) # 200
        BY <1>0, <3>1, FailedCall
      <4>2. pc'[d] = "done" /\ status'[d] # 200
        BY <1>0, <2>5, <3>3, <4>1 DEF HearMe, Types
      <4> QED BY <1>2, <4>2
    <3> QED BY <3>2, <3>3
  <2>6. CASE List(d)
    <3>1. d \in entitled' /\ pc'[d] = "done"
      BY <1>0, <2>6 DEF List, Entitled, Types, evidence
    <3> QED BY <3>1 DEF Entitled
  <2>7. CASE Insert(d)
    BY <1>0, <2>7, EvidenceStays DEF Insert
  <2> QED BY <1>4, <2>1, <2>2, <2>3, <2>4, <2>5, <2>6, <2>7 DEF Handle
<1>5. ASSUME NEW c \in Call, FindCaller(c) \/ ReadGrants(c) \/ ReadRoles(c) PROVE Entitled(d)'
  <2>1. /\ UNCHANGED requests /\ UNCHANGED directory /\ UNCHANGED evidence
        /\ c # d => up'[d] = up[d] /\ found'[d] = found[d]
    BY <1>0, <1>5 DEF FindCaller, ReadGrants, ReadRoles, history, Types
  <2>2. CASE c # d
    BY <1>0, <2>1, <2>2, EvidenceStays
  <2>3. CASE c = d
    <3>1. UNCHANGED <<pc, route, bearer, status, live, grants, named, wasLive, held, entitled>>
      BY <2>1 DEF directory, evidence
    <3>2. ASSUME pc[d] = "asking" PROVE Watched(d)' /\ AsFarAsRead(d)'
      <4>1. Watched(d) /\ AsFarAsRead(d)
        BY <1>0, <3>2 DEF Entitled
      <4>2. Watched(d)'
        BY <3>1, <4>1 DEF Watched
      <4>3. CASE FindCaller(d)
        <5>1. up'[d] = "user read" /\ bearer[d] \in live
          BY <1>0, <4>3 DEF FindCaller, Types
        <5> QED BY <3>1, <4>1, <4>2, <5>1 DEF Watched, AsFarAsRead
      <4>4. CASE ReadGrants(d)
        <5>1. up[d] = "user read" /\ up'[d] = "ids read" /\ found'[d] = grants[bearer[d]]
          BY <1>0, <4>4 DEF ReadGrants, AsksMe, Types
        <5> QED BY <3>1, <4>1, <4>2, <5>1 DEF Watched, AsFarAsRead
      <4>5. CASE ReadRoles(d)
        <5>1. up[d] = "ids read" /\ up'[d] = "OK" /\ found'[d] = found[d] \cap named
          BY <1>0, <4>5 DEF ReadRoles, AsksMe, Types
        <5>2. found'[d] # {} => held[d] \cap named # {}
          BY <4>1, <5>1 DEF AsFarAsRead
        <5> QED BY <3>1, <4>1, <4>2, <5>1, <5>2 DEF Watched, AsFarAsRead
      <4> QED BY <1>5, <2>3, <4>3, <4>4, <4>5
    <3> QED BY <1>0, <3>1, <3>2 DEF Entitled
  <2> QED BY <2>2, <2>3
<1>6. ASSUME NEW c \in Call, Serve(c) \/ Refuse(c) \/ Break(c) PROVE Entitled(d)'
  <2>1. UNCHANGED requests /\ found' = found /\ (c # d => up'[d] = up[d])
    BY <1>0, <1>6 DEF Serve, Refuse, Break, Types
  <2>2. Witness \/ (UNCHANGED directory /\ UNCHANGED evidence)
    BY <1>6 DEF Serve, Refuse, Break, Effect, NoEffect
  <2>3. pc[d] = "asking" => up'[d] = up[d] \/ up'[d] \notin {"user read", "ids read", "OK"}
    <3>1. SUFFICES ASSUME c = d, pc[d] = "asking"
                   PROVE  up'[d] \notin {"user read", "ids read", "OK"}
      BY <2>1
    <3>2. route[d] = AuditRoute
      BY <1>0, <3>1 DEF Begun
    <3> QED BY <1>0, <1>6, <3>1, <3>2 DEF Serve, Refuse, Break, Types, Refusals
  <2> QED BY <1>0, <2>1, <2>2, <2>3, EvidenceStays
<1>7. CASE OtherClient
  <2>1. UNCHANGED <<requests, up, found>> /\ Witness
    BY <1>7 DEF OtherClient
  <2> QED BY <1>0, <2>1, EvidenceStays
<1>8. CASE Tick \/ UNCHANGED vars
  <2>1. UNCHANGED <<requests, up, found>> /\ UNCHANGED directory /\ UNCHANGED evidence
    BY <1>8 DEF Tick, vars, serviceB, history
  <2> QED BY <1>0, <2>1, EvidenceStays
<1>9. CASE Crash
  <2>1. UNCHANGED <<route, status, entitled>>
    BY <1>9 DEF Crash, Judged
  <2>2. pc'[d] = IF InService(d) THEN "lost" ELSE pc[d]
    BY <1>0, <1>9 DEF Crash, Types
  <2> QED BY <1>0, <2>1, <2>2 DEF Entitled, InService
<1> QED BY <1>3, <1>4, <1>5, <1>6, <1>7, <1>8, <1>9 DEF Next, Over, Upstream

-----------------------------------------------------------------------------
LEMMA Step ==
  ASSUME IInv, [Next]_vars
  PROVE  IInv'
<1>1. Types'
  BY TypesStep
<1>2. ASSUME NEW d \in Call
      PROVE  /\ (Answered(d) /\ Inserting(d) /\ Begun(d) /\ Done(d))'
            /\ (Asking(d) /\ Entitled(d))'
  BY AnsweredStep, InsertingStep, BegunStep, DoneStep, AskingStep, EntitledStep
<1> QED BY <1>1, <1>2 DEF IInv

LEMMA Invariance == Spec => []IInv
  BY InitInv, Step, PTL DEF Spec

(* The answer, the change and the audit row of every request agree, however   *)
(* late MongoDB inserts the row and whenever the gateway dies.                *)
THEOREM AnswersAgree == Spec => []AnsweredAsItEnded
<1>1. IInv => AnsweredAsItEnded
  <2>1. SUFFICES ASSUME IInv, NEW c \in Call
                 PROVE  /\ Refused(c) => c \notin committed /\ RowsOf(c) = {}
                        /\ Succeeded(c) => /\ up[c] = "OK"
                                           /\ Changes(c) => c \in committed
                                           /\ route[c] # AuditRoute =>
                                                c \in unsaved \/ RowsOf(c) # {}
                        /\ c \in unsaved \/ RowsOf(c) # {} =>
                             Succeeded(c) \/ pc[c] \in {"audit", "answer", "lost"}
                        /\ \A r \in RowsOf(c) : /\ up[c] = "OK" /\ r.rpc = route[c].rpc
                                                /\ Changes(c) => c \in committed
                                                /\ RowsOf(c) = {r}
    BY DEF AnsweredAsItEnded
  <2>2. Answered(c) /\ Done(c)
    BY <2>1 DEF IInv
  <2> QED BY <2>2 DEF Answered, Recorded, Done
<1> QED BY <1>1, Invariance, PTL

(* Who is shown the audit log was live while asking, had a role then or later *)
(* and that role was then or later named admin, whatever other requests write *)
(* between the statements of Me.                                              *)
THEOREM LogsProtected == Spec => []LogsOnlyToAdmins
<1>1. IInv => LogsOnlyToAdmins
  BY DEF IInv, Entitled, LogsOnlyToAdmins
<1> QED BY <1>1, Invariance, PTL

-----------------------------------------------------------------------------
(* Values: what is stored, shown and answered, and when. *)

Statuses == {0, 200, 201, 204, 400, 401, 403, 404, 409, 500, 502}

Scalars ==
  /\ query \in [Call -> SUBSET Queries]
  /\ stamp \in [Call -> 0 .. MaxTime]
  /\ status \in [Call -> Statuses]
  /\ now \in 0 .. MaxTime /\ crashes \in 0 .. MaxCrashes

Members ==
  /\ committed \subseteq Call /\ saving \subseteq Call /\ unsaved \subseteq Call
  /\ wasLive \subseteq Call /\ entitled \subseteq Call

Directory ==
  /\ live \subseteq User /\ grants \in [User -> SUBSET Role]
  /\ named \in {{}} \cup {{r} : r \in Role}

RolesRead == found \in [Call -> SUBSET Role] /\ held \in [Call -> SUBSET Role]

\* Me goes on to the roles of a user only
Loaded(c) == up[c] = "user read" => bearer[c] \in User

Stored == rows \subseteq Row \cup History /\ IsFiniteSet(rows)

Shown(c) == seen[c] \in Seq(Row \cup History) /\ Len(seen[c]) <= MaxLimit

\* an audit request has one query when the rows are read
Asks(c) == pc[c] = "list" => \E q \in Queries : query[c] = {q}

VInv ==
  /\ IInv /\ Scalars /\ Members /\ Directory /\ RolesRead /\ Stored
  /\ DOMAIN seen = Call
  /\ \A c \in Call : Loaded(c) /\ Shown(c) /\ Asks(c)

LEMMA InitValues == Init => VInv
<1> SUFFICES ASSUME Init PROVE VInv
  OBVIOUS
<1>1. Scalars
  BY BoundsAssumption DEF Init, Scalars, Statuses
<1>2. Members /\ Directory /\ RolesRead
  BY DEF Init, Members, Directory, RolesRead
<1>3. Stored
  BY HistoryAssumption DEF Init, Stored
<1>4. ASSUME NEW c \in Call PROVE Loaded(c) /\ Shown(c) /\ Asks(c)
  <2>1. seen[c] = <<>> /\ pc[c] = "new" /\ up[c] = "idle"
    BY <1>4 DEF Init
  <2>2. <<>> \in Seq(Row \cup History) /\ Len(<<>>) = 0 /\ 0 <= MaxLimit
    BY LimitsAssumption
  <2> QED BY <2>1, <2>2 DEF Loaded, Shown, Asks
<1>5. DOMAIN seen = Call
  BY DEF Init
<1> QED BY <1>1, <1>2, <1>3, <1>4, <1>5, InitInv DEF VInv

LEMMA ScalarsStep ==
  ASSUME VInv, [Next]_vars
  PROVE  Scalars'
<1>0. Types /\ Scalars /\ IInv
  BY DEF VInv, IInv
<1> USE <1>0 DEF Scalars, requests, serviceB, mongo, history, Goto, Answer
<1>1. ASSUME NEW c \in Call, Handle(c) PROVE Scalars'
  <2>1. CASE Reject(c)
    BY <2>1 DEF Reject, Statuses
  <2>2. CASE Receive(c)
    BY <2>2 DEF Receive
  <2>3. CASE Hear(c)
    <3>1. At(c, "call") /\ up[c] # "idle"
      BY <2>3 DEF Hear, At, IInv, Begun
    <3>2. up[c] \notin UnderWay \cup {"OK"} => mapGrpcError(up[c], 502) \in Statuses
      BY <3>1, FailedCall DEF Statuses
    <3> QED BY <2>3, <3>2 DEF Hear
  <2>4. CASE CutOff(c)
    BY <2>4 DEF CutOff, Statuses
  <2>5. CASE Insert(c) \/ SaveAudit(c) \/ SaveAuditFails(c)
    BY <2>5 DEF Insert, SaveAudit, SaveAuditFails
  <2>6. CASE Reply(c)
    <3>1. route[c].ok \in Statuses
      BY <2>6, RouteFacts DEF Reply, At, IInv, Begun, Statuses
    <3> QED BY <2>6, <3>1 DEF Reply
  <2>7. CASE ReceiveAudit(c)
    BY <2>7 DEF ReceiveAudit, Statuses
  <2>8. CASE HearMe(c)
    <3>1. At(c, "asking") /\ up[c] # "idle"
      BY <2>8 DEF HearMe, At, IInv, Begun
    <3>2. up[c] \notin UnderWay \cup {"OK"} => mapGrpcError(up[c], 500) \in Statuses
      BY <3>1, FailedCall DEF Statuses
    <3>3. status' \in [Call -> Statuses]
      BY <2>8, <3>2 DEF HearMe, Statuses
    <3>4. query' \in [Call -> SUBSET Queries]
      BY <2>8 DEF HearMe
    <3> QED BY <2>8, <3>3, <3>4 DEF HearMe
  <2>9. CASE List(c) \/ ListFails(c)
    BY <2>9 DEF List, ListFails, Statuses
  <2> QED BY <1>1, <2>1, <2>2, <2>3, <2>4, <2>5, <2>6, <2>7, <2>8, <2>9 DEF Handle
<1>2. ASSUME NEW c \in Call, Upstream(c) PROVE Scalars'
  BY <1>2 DEF Upstream, FindCaller, ReadGrants, ReadRoles, Serve, Refuse, Break
<1>3. CASE Tick
  BY <1>3, BoundsAssumption DEF Tick
<1>4. CASE Crash
  BY <1>4, BoundsAssumption DEF Crash
<1>5. CASE OtherClient
  BY <1>5 DEF OtherClient
<1>6. CASE UNCHANGED vars
  BY <1>6 DEF vars
<1> QED BY <1>1, <1>2, <1>3, <1>4, <1>5, <1>6 DEF Next, Over

LEMMA MembersStep ==
  ASSUME VInv, [Next]_vars
  PROVE  Members'
<1>0. Members
  BY DEF VInv
<1> USE <1>0 DEF Members, requests, serviceB, mongo, evidence, history, Goto, Answer
<1>1. ASSUME NEW c \in Call, Handle(c) PROVE Members'
  BY <1>1 DEF Handle, Reject, Receive, Hear, CutOff, Judged, Insert, SaveAudit, SaveAuditFails,
     Reply, ReceiveAudit, Begins, HearMe, List, ListFails
<1>2. Witness => wasLive' \subseteq Call /\ entitled' \subseteq Call
  BY DEF Witness
<1>3. ASSUME NEW c \in Call, Upstream(c) PROVE Members'
  BY <1>2, <1>3 DEF Upstream, FindCaller, ReadGrants, ReadRoles, Serve, Refuse, Break, Effect,
     NoEffect
<1>4. CASE OtherClient
  BY <1>2, <1>4 DEF OtherClient
<1>5. CASE Tick \/ Crash \/ UNCHANGED vars
  BY <1>5 DEF Tick, Crash, Judged, vars
<1> QED BY <1>1, <1>3, <1>4, <1>5 DEF Next, Over

\* no RPC but its own changes users, user_roles or names
LEMMA DirectoryStep ==
  ASSUME VInv, [Next]_vars
  PROVE  Directory'
<1>0. Directory
  BY DEF VInv
<1> USE <1>0 DEF Directory, directory
<1>1. ASSUME NEW rpc, Written(rpc) PROVE Directory'
  <2>1. CASE WriteUser
    BY <2>1 DEF WriteUser
  <2>2. CASE DeleteUser
    BY <2>2 DEF DeleteUser
  <2>3. CASE AssignUserRole \/ RemoveUserRole
    BY <2>3 DEF AssignUserRole, RemoveUserRole
  <2>4. CASE WriteRole \/ DeleteRole
    <3>1. PICK r \in Role : named' \in {{r}, named \ {r}}
      BY <2>4 DEF WriteRole, DeleteRole
    <3>2. named' \in {{}} \cup {{x} : x \in Role}
      BY <3>1
    <3> QED BY <2>4, <3>2 DEF WriteRole, DeleteRole
  <2>5. CASE UNCHANGED directory
    BY <2>5
  <2> QED BY <1>1, <2>1, <2>2, <2>3, <2>4, <2>5 DEF Written
<1>2. UNCHANGED directory => Directory'
  OBVIOUS
<1>3. ASSUME NEW c \in Call, Handle(c) PROVE UNCHANGED directory
  BY <1>3 DEF Handle, Reject, Receive, Hear, CutOff, Insert, SaveAudit, SaveAuditFails, Reply,
     ReceiveAudit, HearMe, List, ListFails, serviceB
<1>4. ASSUME NEW c \in Call, Upstream(c) PROVE Directory'
  <2>1. UNCHANGED directory \/ Written(route[c].rpc)
    BY <1>4 DEF Upstream, FindCaller, ReadGrants, ReadRoles, Serve, Refuse, Break, Effect,
       NoEffect
  <2> QED BY <1>1, <1>2, <2>1
<1>5. OtherClient => Directory'
  BY <1>1 DEF OtherClient
<1>6. Tick \/ Crash \/ UNCHANGED vars => UNCHANGED directory
  BY DEF Tick, Crash, vars, serviceB
<1> QED BY <1>2, <1>3, <1>4, <1>5, <1>6 DEF Next, Over

LEMMA LoadedStep ==
  ASSUME VInv, [Next]_vars, NEW d \in Call
  PROVE  Loaded(d)'
<1>0. Types /\ Begun(d) /\ Directory /\ Loaded(d)
  BY DEF VInv, IInv
<1> USE DEF requests, serviceB, mongo, history, Goto, At, Answer
<1>1. ASSUME UNCHANGED <<bearer, up>> PROVE Loaded(d)'
  BY <1>0, <1>1 DEF Loaded
<1>2. ASSUME NEW c \in Call, Handle(c) PROVE Loaded(d)'
  <2>1. CASE Reject(c) \/ Receive(c) \/ ReceiveAudit(c)
    <3>1. CASE c = d
      <4>1. up'[d] # "user read"
        BY <1>0, <2>1, <3>1 DEF Reject, Receive, ReceiveAudit, Types, Begun
      <4> QED BY <4>1 DEF Loaded
    <3>2. CASE c # d
      <4>1. bearer'[d] = bearer[d] /\ up'[d] = up[d]
        BY <1>0, <2>1, <3>2 DEF Reject, Receive, ReceiveAudit, Types
      <4> QED BY <1>0, <4>1 DEF Loaded
    <3> QED BY <3>1, <3>2
  <2>2. CASE ~ (Reject(c) \/ Receive(c) \/ ReceiveAudit(c))
    BY <1>1, <1>2, <2>2 DEF Handle, Hear, CutOff, Insert, SaveAudit, SaveAuditFails, Reply,
       HearMe, List, ListFails
  <2> QED BY <2>1, <2>2
<1>3. ASSUME NEW c \in Call, Upstream(c) PROVE Loaded(d)'
  <2>1. bearer' = bearer
    BY <1>3 DEF Upstream, FindCaller, ReadGrants, ReadRoles, Serve, Refuse, Break
  <2>2. CASE FindCaller(c)
    <3>1. bearer[c] \in User
      BY <1>0, <2>2 DEF FindCaller, Directory
    <3> QED BY <1>0, <2>1, <2>2, <3>1 DEF FindCaller, Types, Loaded
  <2>3. CASE ~ FindCaller(c)
    <3>1. up'[d] = up[d] \/ up'[d] # "user read"
      BY <1>0, <1>3, <2>3 DEF Upstream, ReadGrants, ReadRoles, Serve, Refuse, Break, Types,
         Refusals
    <3> QED BY <1>0, <2>1, <3>1 DEF Loaded
  <2> QED BY <2>2, <2>3
<1>4. CASE OtherClient \/ Tick \/ Crash \/ UNCHANGED vars
  BY <1>1, <1>4 DEF OtherClient, Tick, Crash, vars
<1> QED BY <1>2, <1>3, <1>4 DEF Next, Over

LEMMA RolesReadStep ==
  ASSUME VInv, [Next]_vars
  PROVE  RolesRead'
<1>0. /\ Types /\ Directory /\ Directory' /\ RolesRead
      /\ \A c \in Call : Loaded(c) /\ Asking(c)
  BY DirectoryStep DEF VInv, IInv
<1> USE DEF requests, serviceB, mongo, history, evidence, directory
<1>1. ASSUME UNCHANGED requests, Witness PROVE held' \in [Call -> SUBSET Role]
  <2>1. ASSUME NEW d \in Call, At(d, "asking") PROVE grants'[bearer[d]] \in SUBSET Role
    BY <1>0, <2>1 DEF Asking, At, Directory
  <2>2. held' = [d \in Call |-> IF d \in {e \in Call : At(e, "asking")} /\ d \in wasLive'
                                THEN held[d] \cup grants'[bearer[d]] ELSE held[d]]
    BY <1>1 DEF Witness
  <2> QED BY <1>0, <2>1, <2>2 DEF RolesRead
<1>2. ASSUME NEW c \in Call, Handle(c) PROVE RolesRead'
  <2>1. found' = found
    BY <1>2 DEF Handle, Reject, Receive, Hear, CutOff, Insert, SaveAudit, SaveAuditFails, Reply,
       ReceiveAudit, HearMe, List, ListFails
  <2>2. CASE ReceiveAudit(c)
    <3>1. held' = held \/ \E u \in User : Begins(c, u)
      BY <2>2 DEF ReceiveAudit
    <3>2. ASSUME NEW u \in User, Begins(c, u) PROVE held' \in [Call -> SUBSET Role]
      <4>1. (IF u \in live THEN grants[u] ELSE {}) \in SUBSET Role
        BY <1>0 DEF Directory
      <4> QED BY <1>0, <3>2, <4>1 DEF Begins, RolesRead
    <3> QED BY <1>0, <2>1, <3>1, <3>2 DEF RolesRead
  <2>3. CASE CutOff(c) \/ HearMe(c)
    BY <1>0, <2>1, <2>3 DEF CutOff, HearMe, Judged, RolesRead
  <2>4. CASE ~ (ReceiveAudit(c) \/ CutOff(c) \/ HearMe(c))
    <3>1. held' = held
      BY <1>2, <2>4 DEF Handle, Reject, Receive, Hear, Insert, SaveAudit, SaveAuditFails, Reply,
         List, ListFails
    <3> QED BY <1>0, <2>1, <3>1 DEF RolesRead
  <2> QED BY <2>2, <2>3, <2>4
<1>3. ASSUME NEW c \in Call, Upstream(c) PROVE RolesRead'
  <2>1. found' \in [Call -> SUBSET Role]
    <3>1. CASE ReadGrants(c)
      <4>1. grants[bearer[c]] \in SUBSET Role
        BY <1>0, <3>1 DEF ReadGrants, AsksMe, Loaded, Directory
      <4> QED BY <1>0, <3>1, <4>1 DEF ReadGrants, RolesRead
    <3>2. CASE ReadRoles(c)
      BY <1>0, <3>2 DEF ReadRoles, RolesRead
    <3>3. CASE ~ (ReadGrants(c) \/ ReadRoles(c))
      BY <1>0, <1>3, <3>3 DEF Upstream, FindCaller, Serve, Refuse, Break, RolesRead
    <3> QED BY <3>1, <3>2, <3>3
  <2>2. UNCHANGED requests /\ (Witness \/ held' = held)
    BY <1>3 DEF Upstream, FindCaller, ReadGrants, ReadRoles, Serve, Refuse, Break, Effect,
       NoEffect
  <2> QED BY <1>0, <1>1, <2>1, <2>2 DEF RolesRead
<1>4. CASE OtherClient
  BY <1>0, <1>1, <1>4 DEF OtherClient, RolesRead
<1>5. CASE Tick \/ Crash \/ UNCHANGED vars
  BY <1>0, <1>5 DEF Tick, Crash, Judged, vars, RolesRead
<1> QED BY <1>2, <1>3, <1>4, <1>5 DEF Next, Over

LEMMA StoredStep ==
  ASSUME VInv, [Next]_vars
  PROVE  Stored'
<1> USE DEF requests, serviceB, mongo, history, Goto, Answer
<1>1. ASSUME NEW c \in Call, Insert(c) PROVE Stored'
  <2>1. route[c] \in Routes /\ stamp[c] \in 0 .. MaxTime
    BY <1>1 DEF Insert, VInv, IInv, Inserting, Scalars
  <2>2. AuditRow(c) \in Row
    BY <2>1 DEF AuditRow, Row, Routes
  <2>3. rows' = rows \cup {AuditRow(c)}
    BY <1>1 DEF Insert
  <2> HIDE DEF Row, AuditRow
  <2>4. IsFiniteSet(rows \cup {AuditRow(c)})
    BY FS_AddElement DEF VInv, Stored
  <2> QED BY <2>2, <2>3, <2>4 DEF VInv, Stored
<1>2. ASSUME rows' = rows PROVE Stored'
  BY <1>2 DEF VInv, Stored, Row
<1>3. ASSUME NEW c \in Call, Upstream(c) PROVE rows' = rows
  BY <1>3 DEF Upstream, FindCaller, ReadGrants, ReadRoles, Serve, Refuse, Break
<1>4. ASSUME NEW c \in Call, Handle(c), ~ Insert(c) PROVE rows' = rows
  BY <1>4 DEF Handle, Reject, Receive, Hear, CutOff, SaveAudit, SaveAuditFails, Reply, ReceiveAudit,
     HearMe, List, ListFails
<1>5. CASE OtherClient \/ Tick \/ Crash \/ UNCHANGED vars
  BY <1>2, <1>5 DEF OtherClient, Tick, Crash, vars
<1> QED BY <1>1, <1>2, <1>3, <1>4, <1>5 DEF Next, Over

\* rows can be compared by their age
LEMMA RowTimes ==
  ASSUME Stored
  PROVE  \A r \in rows : r.at \in Int
  BY HistoryAssumption DEF Stored, Row

LEMMA AsksStep ==
  ASSUME VInv, [Next]_vars, NEW d \in Call
  PROVE  Asks(d)'
<1>0. Types /\ Scalars /\ Asks(d)
  BY DEF VInv, IInv
<1> USE DEF Asks, requests, serviceB, mongo, history, Goto, At, Answer
<1>1. ASSUME NEW c \in Call, HearMe(c) PROVE Asks(d)'
  <2>1. CASE c = d
    <3>1. SUFFICES ASSUME pc'[d] = "list" PROVE \E q \in Queries : query'[d] = {q}
      OBVIOUS
    <3>2. PICK q \in Queries : query' = [query EXCEPT ![d] = {q}]
      BY <1>0, <1>1, <2>1, <3>1 DEF HearMe, Types
    <3> QED BY <1>0, <3>2 DEF Scalars
  <2>2. CASE c # d
    <3>1. pc'[d] = pc[d] /\ query'[d] = query[d]
      BY <1>0, <1>1, <2>2 DEF HearMe, Types, Scalars
    <3> QED BY <1>0, <3>1
  <2> QED BY <2>1, <2>2
<1>2. ASSUME query' = query, pc'[d] = pc[d] \/ pc'[d] # "list" PROVE Asks(d)'
  BY <1>0, <1>2
<1>3. ASSUME NEW c \in Call, Handle(c), ~ HearMe(c) PROVE Asks(d)'
  <2>1. query' = query
    BY <1>3 DEF Handle, Reject, Receive, Hear, CutOff, Insert, SaveAudit, SaveAuditFails, Reply,
       ReceiveAudit, List, ListFails
  <2>2. pc'[d] = pc[d] \/ pc'[d] # "list"
    BY <1>0, <1>3 DEF Handle, Reject, Receive, Hear, CutOff, Insert, SaveAudit, SaveAuditFails,
       Reply, ReceiveAudit, List, ListFails, Types
  <2> QED BY <1>2, <2>1, <2>2
<1>4. ASSUME NEW c \in Call, Upstream(c) PROVE Asks(d)'
  BY <1>2, <1>4 DEF Upstream, FindCaller, ReadGrants, ReadRoles, Serve, Refuse, Break
<1>5. CASE OtherClient \/ Tick \/ UNCHANGED vars
  BY <1>2, <1>5 DEF OtherClient, Tick, vars
<1>6. CASE Crash
  BY <1>0, <1>2, <1>6 DEF Crash, Types
<1> QED BY <1>1, <1>3, <1>4, <1>5, <1>6 DEF Next, Over

-----------------------------------------------------------------------------
(* Listings. *)

\* the property's reading of a limit and the code's are the same number
LEMMA CapIsWanted ==
  ASSUME NEW q \in Queries
  PROVE  Cap(q) \in 1 .. MaxLimit /\ Wanted(q) = Cap(q)
<1> DEFINE n == IF q.limit = {} THEN DefaultLimit ELSE CHOOSE x \in q.limit : TRUE
<1>1. n \in Int /\ MaxLimit \in Nat \ {0}
  BY LimitsAssumption
<1>2. Cap(q) = Lesser(MaxLimit, Greater(1, n))
  BY DEF Cap
<1> HIDE DEF n
<1>3. /\ Cap(q) \in 1 .. MaxLimit
      /\ \A m \in 1 .. MaxLimit :
           (IF n \in 1 .. MaxLimit THEN m = n ELSE m = (IF n < 1 THEN 1 ELSE MaxLimit))
             <=> m = Cap(q)
  BY <1>1, <1>2 DEF Lesser, Greater
<1>4. Wanted(q) = CHOOSE m \in 1 .. MaxLimit :
                    IF n \in 1 .. MaxLimit THEN m = n ELSE m = (IF n < 1 THEN 1 ELSE MaxLimit)
  BY DEF n, Wanted
<1> QED BY <1>3, <1>4

\* a sorted listing holds as many different rows as its length, the newest
LEMMA Sorted ==
  ASSUME NEW S, IsFiniteSet(S), NEW n \in Nat, NEW s \in NewestFirst(S, n)
  PROVE  \E k \in Nat :
           /\ k = Lesser(n, Cardinality(S)) /\ s \in [1 .. k -> S] /\ Len(s) = k
           /\ \A i, j \in 1 .. k : i < j => s[i] # s[j] /\ s[i].at >= s[j].at
           /\ \A i \in 1 .. k : \A r \in S \ Range(s) : s[i].at >= r.at
           /\ IsFiniteSet(Range(s)) /\ Cardinality(Range(s)) = k
           /\ k = Cardinality(S) => Range(s) = S
<1>1. Cardinality(S) \in Nat
  BY FS_CardinalityType
<1>2. PICK k \in Nat : k = Lesser(n, Cardinality(S))
  BY <1>1 DEF Lesser
<1>3. /\ s \in [1 .. k -> S]
      /\ \A i, j \in 1 .. k : i < j => s[i] # s[j] /\ s[i].at >= s[j].at
      /\ \A i \in 1 .. k : \A r \in S \ Range(s) : s[i].at >= r.at
  BY <1>2 DEF NewestFirst
<1>4. Len(s) = k
  BY <1>3
<1>5. IsFiniteSet(1 .. k) /\ Cardinality(1 .. k) = k
  BY FS_Interval
<1>6. s \in Surjection(1 .. k, Range(s)) /\ s \in Injection(1 .. k, Range(s))
  <2>1. IsInjective(s)
    <3>1. SUFFICES ASSUME NEW i \in 1 .. k, NEW j \in 1 .. k, s[i] = s[j] PROVE i = j
      BY <1>3 DEF IsInjective
    <3> QED BY <1>3, <3>1
  <2> QED BY <1>3, <2>1 DEF Surjection, Injection, Range
<1>7. IsFiniteSet(Range(s)) /\ Cardinality(Range(s)) = k
  BY <1>5, <1>6, FS_Surjection
<1>8. k = Cardinality(S) => Range(s) = S
  <2>1. Range(s) \in SUBSET S
    BY <1>3 DEF Range
  <2> QED BY <1>7, <2>1, FS_Subset
<1> QED BY <1>2, <1>3, <1>4, <1>7, <1>8

Hits(s, q) == {i \in DOMAIN s : s[i].rpc \in q.needle}

\* a search returns the first matches, and all of them if they are few
LEMMA Found ==
  ASSUME NEW q \in Queries, NEW k \in Nat, NEW s, DOMAIN s = 1 .. k, NEW t \in Matching(s, q)
  PROVE  \E m \in Nat : \E p \in [1 .. m -> Hits(s, q)] :
           /\ m <= Cap(q) /\ t = [i \in 1 .. m |-> s[p[i]]] /\ Len(t) = m
           /\ \A i, j \in 1 .. m : i < j => p[i] < p[j]
           /\ \A i \in 1 .. m : \A h \in Hits(s, q) \ Range(p) : p[i] < h
           /\ m < Cap(q) => Range(p) = Hits(s, q)
<1> DEFINE H == Hits(s, q)
<1>1. IsFiniteSet(H) /\ Cardinality(H) \in Nat /\ H \subseteq 1 .. k
  <2>1. IsFiniteSet(1 .. k) /\ H \in SUBSET (1 .. k)
    BY FS_Interval DEF Hits
  <2> QED BY <2>1, FS_Subset, FS_CardinalityType
<1>0. \A h \in H : h \in Int
  BY DEF Hits
<1>2. PICK m \in Nat : m = Lesser(Cap(q), Cardinality(H))
  BY <1>1, CapIsWanted, LimitsAssumption DEF Lesser
<1>3. PICK p \in [1 .. m -> H] :
        /\ \A i, j \in 1 .. m : i < j => p[i] < p[j]
        /\ \A i \in 1 .. m : \A h \in H \ Range(p) : p[i] < h
        /\ t = [i \in 1 .. m |-> s[p[i]]]
  BY <1>2 DEF Matching, Hits
<1> HIDE DEF H
<1>4. m <= Cap(q) /\ Len(t) = m
  BY <1>1, <1>2, <1>3, CapIsWanted, LimitsAssumption DEF Lesser
<1>5. m < Cap(q) => Range(p) = H
  <2>1. SUFFICES ASSUME m < Cap(q) PROVE Range(p) = H
    OBVIOUS
  <2>2. m = Cardinality(H)
    BY <1>1, <1>2, <2>1, CapIsWanted, LimitsAssumption DEF Lesser
  <2>3. IsFiniteSet(1 .. m) /\ Cardinality(1 .. m) = m
    BY FS_Interval
  <2>4. p \in Injection(1 .. m, H)
    <3>1. SUFFICES ASSUME NEW i \in 1 .. m, NEW j \in 1 .. m, p[i] = p[j] PROVE i = j
      BY <1>3 DEF Injection, IsInjective
    <3>2. p[i] \in Int /\ p[j] \in Int
      BY <1>0, <1>3
    <3> QED BY <1>3, <3>1, <3>2
  <2>5. p \in Surjection(1 .. m, H)
    BY <1>1, <2>2, <2>3, <2>4, FS_Injection
  <2> QED BY <1>3, <2>5 DEF Surjection, Range
<1> QED BY <1>3, <1>4, <1>5 DEF H

LEMMA Listing ==
  ASSUME NEW q \in Queries, IsFiniteSet(rows), \A r \in rows : r.at \in Int,
         NEW t \in ListAuditLogs(q)
  PROVE  Answers(t, q)
<1> DEFINE listed == {r \in rows : r.rpc \in q.filter}
           hits == {r \in listed : q.search => r.rpc \in q.needle}
           F == FetchLimit(q)
           Enough(r) == q.search /\ Cardinality({x \in listed \ {r} : x.at >= r.at})
                                      >= Wanted(q)
<1>1. /\ Cap(q) \in Nat \ {0} /\ Wanted(q) = Cap(q) /\ F \in Nat
      /\ ~ q.search => F = Cap(q)
      /\ F >= Cap(q)
  <2>1. Cap(q) \in Nat \ {0} /\ Cap(q) <= MaxLimit /\ Wanted(q) = Cap(q)
    BY CapIsWanted, LimitsAssumption
  <2>2. MaxLimit \in Nat /\ ScanFactor \in Nat \ {0}
    BY LimitsAssumption
  <2>3. Cap(q) * ScanFactor \in Nat /\ Cap(q) * ScanFactor >= Cap(q)
    BY <2>1, <2>2
  <2> QED BY <2>1, <2>2, <2>3 DEF FetchLimit, Lesser
<1>2. IsFiniteSet(listed) /\ \A r \in listed : r.at \in Int
  BY FS_Subset
<1> HIDE DEF listed, F
<1>3. SUFFICES
        /\ Range(t) \subseteq hits
        /\ \A i, j \in DOMAIN t : i < j => t[i] # t[j] /\ t[i].at >= t[j].at
        /\ \A i \in DOMAIN t : \A r \in hits \ Range(t) : r.at <= t[i].at
        /\ Len(t) <= Cap(q)
        /\ Len(t) < Cap(q) => \A r \in hits \ Range(t) : Enough(r)
  BY <1>1 DEF Answers, listed
<1>4. PICK s \in NewestFirst(listed, F) : IF q.search THEN t \in Matching(s, q) ELSE t = s
  BY DEF ListAuditLogs, listed, F
<1>5. PICK k \in Nat :
        /\ k = Lesser(F, Cardinality(listed)) /\ s \in [1 .. k -> listed] /\ Len(s) = k
        /\ \A i, j \in 1 .. k : i < j => s[i] # s[j] /\ s[i].at >= s[j].at
        /\ \A i \in 1 .. k : \A r \in listed \ Range(s) : s[i].at >= r.at
        /\ IsFiniteSet(Range(s)) /\ Cardinality(Range(s)) = k
        /\ k = Cardinality(listed) => Range(s) = listed
  BY <1>1, <1>2, Sorted
<1>6. Cardinality(listed) \in Nat
  BY <1>2, FS_CardinalityType
<1>7. CASE ~ q.search
  <2>1. t = s /\ hits = listed
    BY <1>4, <1>7
  <2>2. Range(t) \subseteq hits
    BY <1>5, <2>1 DEF Range
  <2>3. k <= Cap(q) /\ (k < Cap(q) => k = Cardinality(listed))
    BY <1>1, <1>5, <1>6, <1>7 DEF Lesser
  <2>4. \A i \in DOMAIN t : \A r \in hits \ Range(t) : r.at <= t[i].at
    BY <1>2, <1>5, <2>1
  <2>5. Len(t) < Cap(q) => hits \ Range(t) = {}
    BY <1>5, <2>1, <2>3
  <2> QED BY <1>5, <2>1, <2>2, <2>3, <2>4, <2>5
<1>8. CASE q.search
  <2>1. t \in Matching(s, q) /\ DOMAIN s = 1 .. k
    BY <1>4, <1>5, <1>8
  <2>2. PICK m \in Nat : \E p \in [1 .. m -> Hits(s, q)] :
           /\ m <= Cap(q) /\ t = [i \in 1 .. m |-> s[p[i]]] /\ Len(t) = m
           /\ \A i, j \in 1 .. m : i < j => p[i] < p[j]
           /\ \A i \in 1 .. m : \A h \in Hits(s, q) \ Range(p) : p[i] < h
           /\ m < Cap(q) => Range(p) = Hits(s, q)
    BY <2>1, Found
  <2>3. PICK p \in [1 .. m -> Hits(s, q)] :
           /\ m <= Cap(q) /\ t = [i \in 1 .. m |-> s[p[i]]] /\ Len(t) = m
           /\ \A i, j \in 1 .. m : i < j => p[i] < p[j]
           /\ \A i \in 1 .. m : \A h \in Hits(s, q) \ Range(p) : p[i] < h
           /\ m < Cap(q) => Range(p) = Hits(s, q)
    BY <2>2
  <2>4. \A i \in 1 .. m : p[i] \in 1 .. k /\ s[p[i]] \in listed /\ t[i].rpc \in q.needle
    BY <1>5, <2>3 DEF Hits
  <2>5. Range(t) \subseteq hits
    BY <1>8, <2>3, <2>4 DEF Range
  <2>6. \A i, j \in 1 .. m : i < j => t[i] # t[j] /\ t[i].at >= t[j].at
    <3>1. SUFFICES ASSUME NEW i \in 1 .. m, NEW j \in 1 .. m, i < j
                   PROVE  t[i] # t[j] /\ t[i].at >= t[j].at
      OBVIOUS
    <3>2. p[i] < p[j] /\ p[i] \in 1 .. k /\ p[j] \in 1 .. k /\ t[i] = s[p[i]] /\ t[j] = s[p[j]]
      BY <2>3, <2>4, <3>1
    <3> QED BY <1>5, <3>2
  \* a row left out is a later match, or was not looked at
  <2>7. ASSUME NEW r \in hits \ Range(t)
        PROVE  \/ r \in listed \ Range(s)
               \/ \E h \in Hits(s, q) \ Range(p) : h \in 1 .. k /\ r = s[h]
    <3>1. CASE r \in Range(s)
      <4>1. PICK h \in 1 .. k : r = s[h]
        BY <1>5, <3>1 DEF Range
      <4>2. h \in Hits(s, q)
        BY <1>5, <1>8, <2>7, <4>1 DEF Hits
      <4>3. h \notin Range(p)
        BY <2>3, <2>7, <4>1 DEF Range
      <4> QED BY <4>1, <4>2, <4>3
    <3> QED BY <2>7, <3>1
  <2>8. ASSUME NEW i \in 1 .. m, NEW r \in hits \ Range(t) PROVE r.at <= t[i].at
    <3>1. t[i] = s[p[i]] /\ p[i] \in 1 .. k /\ s[p[i]].at \in Int /\ r.at \in Int
      BY <1>2, <2>3, <2>4
    <3>2. CASE r \in listed \ Range(s)
      BY <1>5, <3>1, <3>2
    <3>3. ASSUME NEW h \in Hits(s, q) \ Range(p), h \in 1 .. k, r = s[h] PROVE r.at <= t[i].at
      <4>1. p[i] < h
        BY <2>3
      <4> QED BY <1>5, <3>1, <3>3, <4>1
    <3> QED BY <2>7, <3>2, <3>3
  \* the rows looked at are as many as are wanted at least, and newer
  <2>9. ASSUME m < Cap(q), NEW r \in hits \ Range(t) PROVE Enough(r)
    <3>1. r \in listed \ Range(s)
      BY <2>3, <2>7, <2>9
    <3>2. k = F
      BY <1>1, <1>5, <1>6, <3>1 DEF Lesser
    <3> DEFINE newer == {x \in listed \ {r} : x.at >= r.at}
    <3>3. IsFiniteSet(newer)
      BY <1>2, FS_Subset
    <3>4. Range(s) \in SUBSET newer
      BY <1>5, <3>1 DEF Range
    <3>5. Cardinality(newer) \in Nat
      BY <3>3, FS_CardinalityType
    <3> HIDE DEF newer
    <3>6. k <= Cardinality(newer)
      BY <1>5, <3>3, <3>4, FS_Subset
    <3> QED BY <1>1, <1>8, <3>2, <3>5, <3>6 DEF newer
  <2> HIDE DEF hits, Enough
  <2> QED BY <2>3, <2>5, <2>6, <2>8, <2>9
<1> QED BY <1>7, <1>8

\* a listing is a function on an initial segment
LEMMA ListingDomain ==
  ASSUME NEW q \in Queries, IsFiniteSet(rows), NEW t \in ListAuditLogs(q)
  PROVE  \E k \in Nat : DOMAIN t = 1 .. k /\ Len(t) = k /\ t = [i \in 1 .. k |-> t[i]]
<1> DEFINE S == {r \in rows : r.rpc \in q.filter}
<1>1. IsFiniteSet(S) /\ FetchLimit(q) \in Nat
  <2>1. Cap(q) \in Nat /\ MaxLimit \in Nat /\ ScanFactor \in Nat
    BY CapIsWanted, LimitsAssumption
  <2>2. Cap(q) * ScanFactor \in Nat
    BY <2>1
  <2> QED BY <2>1, <2>2, FS_Subset DEF FetchLimit, Lesser
<1> HIDE DEF S
<1>2. PICK s \in NewestFirst(S, FetchLimit(q)) : IF q.search THEN t \in Matching(s, q) ELSE t = s
  BY DEF ListAuditLogs, S
<1>3. \E k \in Nat : s \in [1 .. k -> S] /\ Len(s) = k
  BY <1>1, <1>2, Sorted
<1>4. CASE ~ q.search
  BY <1>2, <1>3, <1>4
<1>5. CASE q.search
  <2>1. \E m \in Nat : \E p : t = [i \in 1 .. m |-> s[p[i]]] /\ Len(t) = m
    BY <1>2, <1>3, <1>5, Found
  <2> QED BY <2>1
<1> QED BY <1>4, <1>5

\* a listing is a sequence of stored rows, no longer than any may be
LEMMA ListingType ==
  ASSUME NEW q \in Queries, IsFiniteSet(rows), \A r \in rows : r.at \in Int,
         NEW t \in ListAuditLogs(q)
  PROVE  t \in Seq(rows) /\ Len(t) <= MaxLimit
<1>1. Answers(t, q)
  BY Listing
<1>2. Range(t) \subseteq rows /\ Len(t) <= MaxLimit
  <2>1. Range(t) \subseteq rows /\ Len(t) <= Wanted(q)
    BY <1>1 DEF Answers
  <2>2. \E k \in Nat : DOMAIN t = 1 .. k /\ Len(t) = k
    BY ListingDomain
  <2>3. Wanted(q) \in Nat /\ Wanted(q) <= MaxLimit /\ MaxLimit \in Nat
    BY CapIsWanted, LimitsAssumption
  <2> QED BY <2>1, <2>2, <2>3
<1>3. PICK k \in Nat : t = [i \in 1 .. k |-> t[i]]
  BY ListingDomain
<1>4. \A i \in 1 .. k : t[i] \in rows
  BY <1>2, <1>3 DEF Range
<1> QED BY <1>2, <1>3, <1>4

LEMMA ShownStep ==
  ASSUME VInv, [Next]_vars
  PROVE  DOMAIN seen' = Call /\ \A d \in Call : Shown(d)'
<1>0. DOMAIN seen = Call /\ Stored /\ \A c \in Call : Shown(c) /\ Asks(c)
  BY DEF VInv
<1> USE DEF requests, serviceB, mongo, history, Goto, At, Answer
<1>1. ASSUME NEW c \in Call, List(c)
      PROVE  DOMAIN seen' = Call /\ \A d \in Call : Shown(d)'
  <2>1. PICK q \in Queries : query[c] = {q}
    BY <1>0, <1>1 DEF List, Asks
  <2>2. PICK t \in ListAuditLogs(q) : seen' = [seen EXCEPT ![c] = t]
    BY <1>1, <2>1 DEF List
  <2>3. t \in Seq(rows) /\ Len(t) <= MaxLimit
    BY <1>0, ListingType, RowTimes DEF Stored
  <2>4. t \in Seq(Row \cup History)
    BY <1>0, <2>3, SeqMonotonic DEF Stored
  <2> QED BY <1>0, <2>2, <2>3, <2>4 DEF Shown, Row
<1>2. ASSUME seen' = seen PROVE DOMAIN seen' = Call /\ \A d \in Call : Shown(d)'
  BY <1>0, <1>2 DEF Shown, Row
<1>3. ASSUME NEW c \in Call, Handle(c), ~ List(c) PROVE seen' = seen
  BY <1>3 DEF Handle, Reject, Receive, Hear, CutOff, Insert, SaveAudit, SaveAuditFails, Reply,
     ReceiveAudit, HearMe, ListFails
<1>4. ASSUME NEW c \in Call, Upstream(c) PROVE seen' = seen
  BY <1>4 DEF Upstream, FindCaller, ReadGrants, ReadRoles, Serve, Refuse, Break
<1>5. CASE OtherClient \/ Tick \/ Crash \/ UNCHANGED vars
  BY <1>2, <1>5 DEF OtherClient, Tick, Crash, vars
<1> QED BY <1>1, <1>2, <1>3, <1>4, <1>5 DEF Next, Over

LEMMA ValuesStep ==
  ASSUME VInv, [Next]_vars
  PROVE  VInv'
<1>1. IInv'
  BY Step DEF VInv
<1>2. \A d \in Call : Loaded(d)' /\ Asks(d)'
  BY LoadedStep, AsksStep
<1> QED BY <1>1, <1>2, ScalarsStep, MembersStep, DirectoryStep, RolesReadStep, StoredStep, ShownStep
        DEF VInv

LEMMA ValuesInvariance == Spec => []VInv
  BY InitValues, ValuesStep, PTL DEF Spec

(* Every variable has its type, what was shown to a client included: rows of  *)
(* the collection, and never more than MaxLimit of them.                      *)
THEOREM TypeCorrect == Spec => []TypeOK
<1>1. VInv => TypeOK
  <2>1. SUFFICES ASSUME VInv PROVE TypeOK
    OBVIOUS
  <2>2. /\ Types /\ Scalars /\ Members /\ Directory /\ RolesRead /\ Stored
        /\ \A c \in Call : Shown(c)
    BY <2>1 DEF VInv, IInv
  <2> QED BY <2>2 DEF TypeOK, Types, Scalars, Members, Directory, RolesRead, Stored, Shown, States,
          Statuses
<1> QED BY <1>1, ValuesInvariance, PTL

(* What GET /audit-logs answers is right for any rows, limits and scan        *)
(* factor: matching rows, newest first, none passed over for an older one, no *)
(* more than the limit; all of them if fewer than the limit and not a search; *)
(* and a match that a short search leaves out is behind as many rows as the   *)
(* client asked for.                                                          *)
THEOREM SearchIsRight == Spec => SearchFindsNewest
<1>1. ASSUME VInv, Next, NEW c \in Call, At(c, "list"), status'[c] = 200, NEW q \in query[c]
      PROVE  Answers(seen'[c], q)
  <2>1. Types /\ Begun(c) /\ Asks(c) /\ Stored /\ DOMAIN seen = Call /\ status[c] = 0
    BY <1>1 DEF VInv, IInv, Begun, At
  <2>2. q \in Queries /\ query[c] = {q}
    BY <1>1, <2>1 DEF Asks, At
  <2>3. List(c)
    <3>1. ASSUME NEW d \in Call, Handle(d), ~ List(c) PROVE status'[c] # 200
      <4> USE DEF requests, serviceB, mongo, history, Goto, At, Answer
      <4>1. CASE c = d
        BY <1>1, <2>1, <3>1, <4>1 DEF Handle, Reject, Receive, Hear, CutOff, Insert, SaveAudit,
           SaveAuditFails, Reply, ReceiveAudit, HearMe, ListFails, Types
      <4>2. CASE c # d
        BY <2>1, <3>1, <4>2 DEF Handle, Reject, Receive, Hear, CutOff, Insert, SaveAudit,
           SaveAuditFails, Reply, ReceiveAudit, HearMe, List, ListFails, Types
      <4> QED BY <4>1, <4>2
    <3>2. ASSUME NEW d \in Call, Upstream(d) PROVE status' = status
      BY <3>2 DEF Upstream, FindCaller, ReadGrants, ReadRoles, Serve, Refuse, Break, requests
    <3>3. OtherClient \/ Tick \/ Crash \/ Over => status' = status
      BY DEF OtherClient, Tick, Crash, Over, vars, requests
    <3> QED BY <1>1, <2>1, <3>1, <3>2, <3>3 DEF Next
  <2>4. PICK t \in ListAuditLogs(q) : seen' = [seen EXCEPT ![c] = t]
    BY <2>2, <2>3 DEF List
  <2>5. Answers(t, q)
    BY <2>1, <2>2, Listing, RowTimes DEF Stored
  <2> QED BY <2>1, <2>4, <2>5
<1>2. VInv /\ [Next]_vars =>
        [\A c \in Call : At(c, "list") /\ status'[c] = 200 =>
           \A q \in query[c] : Answers(seen'[c], q)]_vars
  BY <1>1
<1> QED BY <1>2, ValuesInvariance, PTL DEF Spec, SearchFindsNewest

-----------------------------------------------------------------------------
(* Every listing there can be asked for exists: a finite set can be put in    *)
(* order.  Induction over the numbers is taken from their well-foundedness,   *)
(* for the set of the numbers with the property.                              *)

LEMMA SetInduction ==
  ASSUME NEW T, T \subseteq Nat, 0 \in T, \A n \in T : n + 1 \in T
  PROVE  T = Nat
<1> DEFINE less == {x \in Nat \X Nat : x[1] < x[2]}
<1>1. IsWellFoundedOn(less, Nat)
  BY NatLessThanWellFounded, SMT DEF OpToRel
<1>2. SUFFICES ASSUME Nat \ T # {} PROVE FALSE
  OBVIOUS
<1>3. PICK x \in Nat \ T : \A y \in Nat \ T : ~ (<<y, x>> \in less)
  <2> HIDE DEF less
  <2> QED BY <1>1, <1>2, WFMin
<1>4. x # 0 /\ x - 1 \in Nat
  BY <1>3
<1>5. <<x - 1, x>> \in less
  BY <1>4
<1>6. x - 1 \in T
  BY <1>3, <1>4, <1>5
<1> QED BY <1>3, <1>4, <1>6

LEMMA Least ==
  ASSUME NEW S, IsFiniteSet(S), NEW f \in [S -> Int], NEW T \in SUBSET S, T # {}
  PROVE  \E e \in T : \A x \in T : f[e] <= f[x]
<1> DEFINE HasLeast(U) == \E e \in U : \A x \in U : f[e] <= f[x]
           good == {k \in Nat : \A U \in SUBSET S : Cardinality(U) = k + 1 => HasLeast(U)}
<1>1. \A U \in SUBSET S : IsFiniteSet(U) /\ Cardinality(U) \in Nat
  BY FS_Subset, FS_CardinalityType
<1>2. 0 \in good
  <2>1. SUFFICES ASSUME NEW U \in SUBSET S, Cardinality(U) = 0 + 1 PROVE HasLeast(U)
    OBVIOUS
  <2>2. IsFiniteSet(U) /\ Cardinality(U) = 1
    BY <1>1, <2>1
  <2>3. PICK x : U = {x}
    BY <2>2, FS_Singleton
  <2> QED BY <2>3
<1>3. ASSUME NEW k \in good PROVE k + 1 \in good
  <2>1. SUFFICES ASSUME NEW U \in SUBSET S, Cardinality(U) = (k + 1) + 1 PROVE HasLeast(U)
    OBVIOUS
  <2>2. U # {}
    BY <2>1, FS_EmptySet
  <2>3. PICK x \in U : TRUE
    BY <2>2
  <2>4. Cardinality(U \ {x}) = k + 1
    BY <1>1, <2>1, FS_RemoveElement
  <2>5. PICK e \in U \ {x} : \A y \in U \ {x} : f[e] <= f[y]
    BY <2>4
  <2>6. f[e] \in Int /\ f[x] \in Int /\ \A y \in U : f[y] \in Int
    OBVIOUS
  <2>7. CASE f[e] <= f[x]
    BY <2>5, <2>7
  <2>8. CASE f[x] <= f[e]
    <3>1. \A y \in U : f[x] <= f[y]
      BY <2>5, <2>6, <2>8
    <3> QED BY <3>1
  <2> QED BY <2>6, <2>7, <2>8
<1>4. good = Nat
  <2>1. good \subseteq Nat
    OBVIOUS
  <2> HIDE DEF good
  <2> QED BY <1>2, <1>3, <2>1, SetInduction
<1>5. Cardinality(T) \in Nat /\ Cardinality(T) # 0
  BY <1>1, FS_EmptySet
<1>6. PICK k \in Nat : Cardinality(T) = k + 1
  <2>1. Cardinality(T) - 1 \in Nat /\ Cardinality(T) = (Cardinality(T) - 1) + 1
    BY <1>5
  <2> QED BY <2>1
<1>7. k \in good
  BY <1>4
<1> QED BY <1>6, <1>7

Descending(s, f, k) == \A i, j \in 1 .. k : i < j => s[i] # s[j] /\ f[s[i]] >= f[s[j]]

LEMMA Arranged ==
  ASSUME NEW S, IsFiniteSet(S), NEW f \in [S -> Int]
  PROVE  \E s \in [1 .. Cardinality(S) -> S] : Descending(s, f, Cardinality(S))
<1> DEFINE good == {k \in Nat : \A U \in SUBSET S : Cardinality(U) = k =>
                                  \E s \in [1 .. k -> U] : Descending(s, f, k)}
<1>1. \A U \in SUBSET S : IsFiniteSet(U) /\ Cardinality(U) \in Nat
  BY FS_Subset, FS_CardinalityType
<1>2. 0 \in good
  <2>1. SUFFICES ASSUME NEW U \in SUBSET S PROVE \E s \in [1 .. 0 -> U] : Descending(s, f, 0)
    OBVIOUS
  <2>2. [i \in 1 .. 0 |-> i] \in [1 .. 0 -> U] /\ Descending([i \in 1 .. 0 |-> i], f, 0)
    BY DEF Descending
  <2> QED BY <2>2
<1>3. ASSUME NEW k \in good PROVE k + 1 \in good
  <2>1. SUFFICES ASSUME NEW U \in SUBSET S, Cardinality(U) = k + 1
                 PROVE  \E s \in [1 .. k + 1 -> U] : Descending(s, f, k + 1)
    OBVIOUS
  <2>2. U # {}
    <3>1. k \in Nat /\ Cardinality(U) # 0
      BY <2>1
    <3> QED BY <3>1, FS_EmptySet
  <2>3. PICK e \in U : \A x \in U : f[e] <= f[x]
    BY <2>2, Least
  <2>4. Cardinality(U \ {e}) = k
    BY <1>1, <2>1, FS_RemoveElement
  <2>5. PICK s \in [1 .. k -> U \ {e}] : Descending(s, f, k)
    BY <2>4
  <2> DEFINE u == [i \in 1 .. k + 1 |-> IF i <= k THEN s[i] ELSE e]
  <2>6. u \in [1 .. k + 1 -> U]
    OBVIOUS
  <2>7. ASSUME NEW i \in 1 .. k + 1, NEW j \in 1 .. k + 1, i < j
        PROVE  u[i] # u[j] /\ f[u[i]] >= f[u[j]]
    <3>1. i \in 1 .. k /\ u[i] = s[i] /\ s[i] \in U \ {e} /\ f[s[i]] \in Int /\ f[e] \in Int
      BY <2>7
    <3>2. CASE j \in 1 .. k
      BY <2>5, <2>7, <3>1, <3>2 DEF Descending
    <3>3. CASE j = k + 1
      BY <2>3, <3>1, <3>3
    <3> QED BY <3>2, <3>3
  <2>8. Descending(u, f, k + 1)
    <3> HIDE DEF u
    <3> QED BY <2>7 DEF Descending
  <2> QED BY <2>6, <2>8
<1>4. good = Nat
  <2>1. good \subseteq Nat
    OBVIOUS
  <2> HIDE DEF good
  <2> QED BY <1>2, <1>3, <2>1, SetInduction
<1>5. Cardinality(S) \in good
  BY <1>1, <1>4
<1> QED BY <1>5

\* the first m of an arrangement, and those they leave behind
LEMMA Firsts ==
  ASSUME NEW S, IsFiniteSet(S), NEW f \in [S -> Int], NEW m \in Nat, m <= Cardinality(S)
  PROVE  \E s \in [1 .. m -> S] : /\ Descending(s, f, m)
                                  /\ \A i \in 1 .. m : \A r \in S \ Range(s) : f[s[i]] >= f[r]
<1>1. PICK n \in Nat : n = Cardinality(S)
  BY FS_CardinalityType
<1>2. PICK u \in [1 .. n -> S] : Descending(u, f, n)
  BY <1>1, Arranged
<1>3. u \in Injection(1 .. n, S)
  BY <1>2 DEF Injection, IsInjective, Descending
<1>4. IsFiniteSet(1 .. n) /\ Cardinality(1 .. n) = n
  BY FS_Interval
<1>5. u \in Surjection(1 .. n, S)
  BY <1>1, <1>3, <1>4, FS_Injection
<1> DEFINE s == [i \in 1 .. m |-> u[i]]
<1>6. s \in [1 .. m -> S] /\ Descending(s, f, m)
  BY <1>1, <1>2 DEF Descending
<1>7. ASSUME NEW i \in 1 .. m, NEW r \in S \ Range(s) PROVE f[s[i]] >= f[r]
  <2>1. PICK j \in 1 .. n : u[j] = r
    BY <1>5 DEF Surjection
  <2>2. j \notin 1 .. m
    <3>1. SUFFICES ASSUME j \in 1 .. m PROVE r \in Range(s)
      OBVIOUS
    <3> QED BY <2>1, <3>1 DEF Range
  <2> QED BY <1>1, <1>2, <2>1, <2>2 DEF Descending
<1> HIDE DEF s
<1> QED BY <1>6, <1>7

LEMMA NewestExist ==
  ASSUME NEW S, IsFiniteSet(S), \A r \in S : r.at \in Int, NEW n \in Nat
  PROVE  NewestFirst(S, n) # {}
<1> DEFINE f == [r \in S |-> r.at]
<1>1. f \in [S -> Int] /\ Cardinality(S) \in Nat
  BY FS_CardinalityType
<1>2. PICK m \in Nat : m = Lesser(n, Cardinality(S)) /\ m <= Cardinality(S)
  BY <1>1 DEF Lesser
<1> HIDE DEF f
<1>3. PICK s \in [1 .. m -> S] : /\ Descending(s, f, m)
                                 /\ \A i \in 1 .. m : \A r \in S \ Range(s) : f[s[i]] >= f[r]
  BY <1>1, <1>2, Firsts
<1>4. /\ \A i, j \in DOMAIN s : i < j => s[i] # s[j] /\ s[i].at >= s[j].at
      /\ \A i \in DOMAIN s : \A r \in S \ Range(s) : s[i].at >= r.at
  BY <1>3 DEF f, Descending
<1> QED BY <1>2, <1>3, <1>4 DEF NewestFirst

LEMMA MatchesExist ==
  ASSUME NEW q \in Queries, NEW k \in Nat, NEW s, DOMAIN s = 1 .. k
  PROVE  Matching(s, q) # {}
<1> DEFINE H == Hits(s, q)
           f == [h \in H |-> -h]
<1>1. IsFiniteSet(H) /\ Cardinality(H) \in Nat
  <2>1. IsFiniteSet(1 .. k) /\ H \in SUBSET (1 .. k)
    BY FS_Interval DEF Hits
  <2> QED BY <2>1, FS_Subset, FS_CardinalityType
<1>2. \A h \in H : h \in Int /\ f[h] = -h
  BY DEF Hits
<1>3. f \in [H -> Int]
  BY <1>2
<1>4. PICK m \in Nat : m = Lesser(Cap(q), Cardinality(H)) /\ m <= Cardinality(H)
  BY <1>1, CapIsWanted, LimitsAssumption DEF Lesser
<1> HIDE DEF H, f
<1>5. PICK p \in [1 .. m -> H] : /\ Descending(p, f, m)
                                 /\ \A i \in 1 .. m : \A h \in H \ Range(p) : f[p[i]] >= f[h]
  BY <1>1, <1>3, <1>4, Firsts
<1>6. \A i \in 1 .. m : p[i] \in H /\ p[i] \in Int /\ p[i] \in Range(p)
  BY <1>2, <1>5 DEF Range
<1>7. \A i, j \in 1 .. m : i < j => p[i] < p[j]
  BY <1>2, <1>5, <1>6 DEF Descending
<1>8. ASSUME NEW i \in 1 .. m, NEW h \in H \ Range(p) PROVE p[i] < h
  <2>1. -p[i] >= -h /\ p[i] # h /\ p[i] \in Int /\ h \in Int
    BY <1>2, <1>5, <1>6
  <2> QED BY <2>1
<1>9. [i \in 1 .. m |-> s[p[i]]] \in Matching(s, q)
  BY <1>4, <1>7, <1>8 DEF Matching, Hits, H
<1> QED BY <1>9

\* whoever is let in to the audit log can be answered
ListingExists ==
  \A c \in Call : At(c, "list") => \E q \in query[c] : ListAuditLogs(q) # {}

(* However many rows there are and whatever limit a query names, there is an  *)
(* answer to an administrator's request; what SearchIsRight says of answers   *)
(* is never said of none.                                                     *)
THEOREM ListingsExist == Spec => []ListingExists
<1>1. ASSUME VInv, NEW c \in Call, At(c, "list")
      PROVE  \E q \in query[c] : ListAuditLogs(q) # {}
  <2>1. PICK q \in Queries : query[c] = {q}
    BY <1>1 DEF VInv, Asks, At
  <2> DEFINE S == {r \in rows : r.rpc \in q.filter}
  <2>2. IsFiniteSet(S) /\ \A r \in S : r.at \in Int
    BY <1>1, RowTimes, FS_Subset DEF VInv, Stored
  <2>3. FetchLimit(q) \in Nat
    <3>1. Cap(q) \in Nat /\ MaxLimit \in Nat /\ ScanFactor \in Nat
      BY CapIsWanted, LimitsAssumption
    <3>2. Cap(q) * ScanFactor \in Nat
      BY <3>1
    <3> QED BY <3>1, <3>2 DEF FetchLimit, Lesser
  <2> HIDE DEF S
  <2>4. PICK s : s \in NewestFirst(S, FetchLimit(q))
    BY <2>2, <2>3, NewestExist
  <2>5. \E k \in Nat : DOMAIN s = 1 .. k
    BY <2>2, <2>3, <2>4, Sorted
  <2>6. Matching(s, q) # {}
    BY <2>5, MatchesExist
  <2> QED BY <2>1, <2>4, <2>6 DEF ListAuditLogs, S
<1>2. VInv => ListingExists
  BY <1>1 DEF ListingExists
<1> QED BY <1>2, ValuesInvariance, PTL
=============================================================================
