------------------------------- MODULE Publish -------------------------------
(***************************************************************************)
(* From a committed write to its domain event: the tail that every         *)
(* writing handler of service-b shares, and the kafka-go Writer behind it. *)
(*                                                                         *)
(* A handler commits its write, in three handlers reads the row back,      *)
(* publishes, and answers.  Several do not look whether the write changed  *)
(* a row: Logout of an unknown token, ResetPassword of a deleted user,     *)
(* AssignUserRole of a role already held, RemoveUserRole of one not held,  *)
(* and a deletion that another overtook are published and answered like    *)
(* any other.  ForgotPassword of an unknown email succeeds without a write *)
(* and without an event.                                                   *)
(*                                                                         *)
(* SQL statements run under the request's context and fail once the client *)
(* is gone; the publish runs under a context of its own, good for 15       *)
(* seconds.  The Writer queues messages, sends them in batches of whatever *)
(* has gathered, tries a batch again while it gets no acknowledgement, and *)
(* goes on doing so when the handler has stopped waiting.                  *)
(*                                                                         *)
(* There is a Writer per topic and each topic has one partition; this is   *)
(* one topic.  A request stands for its write and for its event.           *)
(***************************************************************************)
EXTENDS Integers, Sequences, SequencesExt

CONSTANTS
  Call,
  Reloading,    \* the requests whose handler reads the row back
  MayMiss,      \* the requests whose write may hit no row, and count as done
  MayBeIdle,    \* the requests that may find nothing to write, and succeed
  MaxAttempts,  \* tries a batch gets
  MaxCrashes    \* bound on the crashes of the process

ASSUME PublishAssumption ==
  /\ Reloading \subseteq Call /\ MayMiss \subseteq Call /\ MayBeIdle \subseteq Call
  /\ MaxAttempts \in Nat \ {0} /\ MaxCrashes \in Nat

VARIABLES
  enabled,    \* KAFKA_BROKERS is set
  strict,     \* KAFKA_STRICT is 1
  pc,         \* where each handler is
  gone,       \* the requests whose client has disconnected
  reply,
  committed,  \* the requests whose write the database accepted
  queue,      \* messages handed to the Writer
  batch,      \* those it is sending
  attempts,   \* how often it has tried to
  verdict,    \* what the Writer tells a handler that waits: none, sent, error
  log,        \* the topic
  crashes,
  (* history, read by the properties only *)
  changed,    \* the requests whose write changed a row
  unlucky,    \* the requests that met a failing database, broker or process
  answered    \* the requests answered before this one began

handlers == <<pc, gone, reply, committed, changed>>
writer == <<queue, batch, attempts, verdict>>
vars == <<enabled, strict, handlers, writer, log, crashes, unlucky, answered>>

-----------------------------------------------------------------------------
(* The handler. *)

At(c, where) == pc[c] = where
Goto(c, where) == pc' = [pc EXCEPT ![c] = where]

Answer(c, r) == Goto(c, "done") /\ reply' = [reply EXCEPT ![c] = r]

Begin(c) ==
  /\ At(c, "new")
  /\ Goto(c, "write")
  /\ answered' = [answered EXCEPT ![c] = {d \in Call : reply[d] # "none"}]
  /\ UNCHANGED <<enabled, strict, gone, reply, committed, changed, writer, log, crashes,
                 unlucky>>

\* the database has accepted the write, of a row or of none
Accept(c) ==
  /\ committed' = committed \cup {c}
  /\ \/ changed' = changed \cup {c}
     \/ c \in MayMiss /\ UNCHANGED changed

\* mutant: the error of the write is not looked at
CommitUnchecked(c) ==
  /\ At(c, "write")
  /\ \/ c \notin gone /\ Accept(c)
     \/ c \in gone /\ UNCHANGED <<committed, changed>>
  /\ Goto(c, IF c \in Reloading THEN "reload" ELSE "publish")
  /\ UNCHANGED <<enabled, strict, gone, reply, writer, log, crashes, unlucky, answered>>

Commit(c) ==
  /\ At(c, "write")
  /\ c \notin gone
  /\ Accept(c)
  /\ Goto(c, IF c \in Reloading THEN "reload" ELSE "publish")
  /\ UNCHANGED <<enabled, strict, gone, reply, writer, log, crashes, unlucky, answered>>

\* there is nobody with this email: the answer is the same, and nothing is done
FindNobody(c) ==
  /\ At(c, "write") /\ c \in MayBeIdle
  /\ c \notin gone
  /\ Answer(c, "ok")
  /\ UNCHANGED <<enabled, strict, gone, committed, changed, writer, log, crashes, unlucky,
                 answered>>

\* the client is gone, or the database fails and may have committed all the same
CommitFails(c) ==
  /\ At(c, "write")
  /\ \/ Answer(c, "error") /\ UNCHANGED <<committed, changed>>
     \/ Goto(c, "unheard") /\ Accept(c) /\ UNCHANGED reply
  /\ unlucky' = unlucky \cup {c}
  /\ UNCHANGED <<enabled, strict, gone, writer, log, crashes, answered>>

CommitUnheard(c) ==
  /\ At(c, "unheard")
  /\ Answer(c, "error")
  /\ UNCHANGED <<enabled, strict, gone, committed, changed, writer, log, crashes, unlucky,
                 answered>>

Reload(c) ==
  /\ At(c, "reload")
  /\ c \notin gone
  /\ Goto(c, "publish")
  /\ UNCHANGED <<enabled, strict, gone, reply, committed, changed, writer, log, crashes,
                 unlucky, answered>>

\* mutant: reading back is tried until it works
ReloadFailsNever(c) ==
  /\ At(c, "reload")
  /\ UNCHANGED vars

ReloadFails(c) ==
  /\ At(c, "reload")
  /\ Answer(c, "error")
  /\ unlucky' = IF c \in gone THEN unlucky ELSE unlucky \cup {c}
  /\ UNCHANGED <<enabled, strict, gone, committed, changed, writer, log, crashes, answered>>

PublishDisabled(c) ==
  /\ At(c, "publish")
  /\ ~ enabled
  /\ Answer(c, "ok")
  /\ UNCHANGED <<enabled, strict, gone, committed, changed, writer, log, crashes, unlucky,
                 answered>>

\* mutant: the write runs under the request's context
WriteMessagesInRequestContext(c) ==
  /\ At(c, "publish")
  /\ enabled
  /\ \/ /\ c \notin gone
        /\ queue' = Append(queue, c)
        /\ Goto(c, "wait")
        /\ UNCHANGED reply
     \/ /\ c \in gone
        /\ Answer(c, IF strict THEN "error" ELSE "ok")
        /\ UNCHANGED queue
  /\ UNCHANGED <<enabled, strict, gone, committed, changed, batch, attempts, verdict, log,
                 crashes,
                 unlucky, answered>>

WriteMessages(c) ==
  /\ At(c, "publish")
  /\ enabled
  /\ queue' = Append(queue, c)
  /\ Goto(c, "wait")
  /\ UNCHANGED <<enabled, strict, gone, reply, committed, changed, batch, attempts, verdict,
                 log, crashes,
                 unlucky, answered>>

\* mutant: a failed publish fails the request whatever KAFKA_STRICT says
AlwaysStrict == "error"

\* what a failed publish answers
kafkaPublishError == IF strict THEN "error" ELSE "ok"

\* the Writer is done with the message, one way or the other
Return(c) ==
  /\ At(c, "wait")
  /\ verdict[c] # "none"
  /\ Answer(c, IF verdict[c] = "sent" THEN "ok" ELSE kafkaPublishError)
  /\ verdict' = [verdict EXCEPT ![c] = "none"]
  /\ UNCHANGED <<enabled, strict, gone, committed, changed, queue, batch, attempts, log,
                 crashes,
                 unlucky, answered>>

\* 15 seconds are over first
Timeout(c) ==
  /\ At(c, "wait")
  /\ verdict[c] = "none"
  /\ Answer(c, kafkaPublishError)
  /\ unlucky' = unlucky \cup {c}
  /\ UNCHANGED <<enabled, strict, gone, committed, changed, writer, log, crashes, answered>>

\* later than this it has nothing left to cancel
Disconnect(c) ==
  /\ pc[c] \in {"write", "reload", "publish"}
  /\ c \notin gone
  /\ gone' = gone \cup {c}
  /\ UNCHANGED <<enabled, strict, pc, reply, committed, changed, writer, log, crashes, unlucky,
                 answered>>

-----------------------------------------------------------------------------
(* The Writer's own goroutine. *)

Tell(what) ==
  verdict' = [c \in Call |-> IF c \in ToSet(batch) /\ At(c, "wait") THEN what ELSE verdict[c]]

\* mutant: what came last goes out first
TakeLast ==
  /\ batch = <<>> /\ queue # <<>>
  /\ batch' = <<Last(queue)>>
  /\ queue' = Front(queue)
  /\ UNCHANGED <<enabled, strict, handlers, attempts, verdict, log, crashes, unlucky, answered>>

TakeBatch ==
  /\ batch = <<>>
  /\ \E n \in 1 .. Len(queue) :
       /\ batch' = SubSeq(queue, 1, n)
       /\ queue' = SubSeq(queue, n + 1, Len(queue))
  /\ UNCHANGED <<enabled, strict, handlers, attempts, verdict, log, crashes, unlucky, answered>>

Acknowledged ==
  /\ batch # <<>> /\ attempts < MaxAttempts
  /\ log' = log \o batch
  /\ Tell("sent")
  /\ batch' = <<>> /\ attempts' = 0
  /\ UNCHANGED <<enabled, strict, handlers, queue, crashes, unlucky, answered>>

\* mutant: attempts are not limited
UnacknowledgedForever ==
  /\ batch # <<>>
  /\ attempts' = attempts + 1
  /\ log' \in {log, log \o batch}
  /\ UNCHANGED <<enabled, strict, handlers, queue, batch, verdict, crashes, unlucky, answered>>

\* the broker, or its acknowledgement, does not get through
Unacknowledged ==
  /\ batch # <<>> /\ attempts < MaxAttempts
  /\ attempts' = attempts + 1
  /\ log' \in {log, log \o batch}
  /\ UNCHANGED <<enabled, strict, handlers, queue, batch, verdict, crashes, unlucky, answered>>

\* mutant: the last attempt is followed by the first
StartOver ==
  /\ batch # <<>> /\ attempts = MaxAttempts
  /\ attempts' = 0
  /\ UNCHANGED <<enabled, strict, handlers, queue, batch, verdict, log, crashes, unlucky,
                 answered>>

GiveUp ==
  /\ batch # <<>> /\ attempts = MaxAttempts
  /\ Tell("error")
  /\ batch' = <<>> /\ attempts' = 0
  /\ unlucky' = unlucky \cup ToSet(batch)
  /\ UNCHANGED <<enabled, strict, handlers, queue, log, crashes, answered>>

-----------------------------------------------------------------------------
InService(c) == pc[c] \notin {"new", "done"}
Pending(c) == c \in ToSet(queue) \cup ToSet(batch)

\* the process dies, with its handlers and the Writer's queue, and is started again
Crash ==
  /\ crashes < MaxCrashes
  /\ crashes' = crashes + 1
  /\ pc' = [c \in Call |-> IF InService(c) THEN "done" ELSE pc[c]]
  /\ reply' = [c \in Call |-> IF InService(c) THEN "lost" ELSE reply[c]]
  /\ unlucky' = unlucky \cup {c \in Call : InService(c) \/ Pending(c)}
  /\ queue' = <<>> /\ batch' = <<>> /\ attempts' = 0
  /\ verdict' = [c \in Call |-> "none"]
  /\ UNCHANGED <<enabled, strict, gone, committed, changed, log, answered>>

Init ==
  /\ enabled \in BOOLEAN /\ strict \in BOOLEAN
  /\ pc = [c \in Call |-> "new"]
  /\ reply = [c \in Call |-> "none"]
  /\ gone = {} /\ committed = {} /\ changed = {}
  /\ queue = <<>> /\ batch = <<>> /\ attempts = 0
  /\ verdict = [c \in Call |-> "none"]
  /\ log = <<>>
  /\ crashes = 0
  /\ unlucky = {}
  /\ answered = [c \in Call |-> {}]

Handle(c) ==
  \/ Commit(c) \/ FindNobody(c) \/ CommitFails(c) \/ CommitUnheard(c)
  \/ Reload(c) \/ ReloadFails(c)
  \/ PublishDisabled(c) \/ WriteMessages(c) \/ Return(c) \/ Timeout(c)

Write == TakeBatch \/ Acknowledged \/ Unacknowledged \/ GiveUp

\* the bounded run is over
Over ==
  /\ \A c \in Call : At(c, "done")
  /\ queue = <<>> /\ batch = <<>>
  /\ UNCHANGED vars

Next ==
  \/ \E c \in Call : Begin(c) \/ Handle(c) \/ Disconnect(c)
  \/ Write
  \/ Crash
  \/ Over

Spec == Init /\ [][Next]_vars

\* a goroutine that can go on does: a statement returns, a publish at the latest
\* after its timeout, an attempt of the Writer at the latest after its own
FairSpec == Spec /\ (\A c \in Call : WF_vars(Handle(c))) /\ WF_vars(Write)
-----------------------------------------------------------------------------
(* Properties. *)

Where == {"new", "write", "unheard", "reload", "publish", "wait", "done"}

TypeOK ==
  /\ enabled \in BOOLEAN /\ strict \in BOOLEAN
  /\ pc \in [Call -> Where]
  /\ gone \subseteq Call /\ committed \subseteq Call /\ changed \subseteq Call
  /\ unlucky \subseteq Call
  /\ reply \in [Call -> {"none", "ok", "error", "lost"}]
  /\ queue \in Seq(Call) /\ batch \in Seq(Call) /\ log \in Seq(Call)
  /\ attempts \in 0 .. MaxAttempts
  /\ verdict \in [Call -> {"none", "sent", "error"}]
  /\ crashes \in 0 .. MaxCrashes
  /\ answered \in [Call -> SUBSET Call]

(* service-b keeps the promise of EventLog: no event of a write the database  *)
(* did not accept, none of a write that changed nothing unless the handler    *)
(* does not look, and under KAFKA_STRICT no success without the event of what *)
(* was written.                                                               *)
Promise == INSTANCE EventLog WITH strict <- enabled /\ strict

KeepsPromise == Promise!Spec

(* Where it is not strict, publishing never fails a request: an error means   *)
(* the client left or the database failed, and no event was handed over.      *)
PublishingIsBestEffort ==
  \A c \in Call : ~ strict /\ reply[c] = "error" =>
    c \in gone \cup unlucky /\ ~ Pending(c) /\ c \notin ToSet(log)

(* A handler that does not read the row back emits its event even if the      *)
(* client has left, unless the database, the broker or the process failed it  *)
(* or it found nothing to write.                                              *)
EmitsDespiteDisconnect ==
  \A c \in Call \ (Reloading \cup unlucky) :
    enabled /\ At(c, "done") => c \in ToSet(log) \/ c \in MayBeIdle \ committed

(* Events follow each other as their requests did: if one request was         *)
(* answered before another began, well or badly, and both events are in the   *)
(* topic, then one of the first comes before any of the second, even if it is *)
(* sent after its handler has given up.                                       *)
EventsInOrder ==
  \A j \in DOMAIN log : \A c \in answered[log[j]] \cap ToSet(log) :
    \E i \in 1 .. j - 1 : log[i] = c

(* Every request is answered, whatever the broker and the client do.          *)
EveryRequestEnds == \A c \in Call : InService(c) ~> At(c, "done")

(* Nothing stays in the Writer for ever.                                      *)
QueueDrains == \A c \in Call : Pending(c) ~> ~ Pending(c)

(* docs/API.md: user update/delete/role changes still emit after the database *)
(* commit even if the client disconnects early.                               *)
UpdatesEmitDespiteDisconnect ==
  \A c \in committed \ unlucky : enabled /\ At(c, "done") => c \in ToSet(log)
=============================================================================
