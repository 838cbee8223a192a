---------------------------- MODULE Publish_proofs ----------------------------
(***************************************************************************)
(* Proofs about Publish, for any set of requests, any part of them that    *)
(* reads back, and any number of attempts and crashes: EventLog's promise  *)
(* is kept, events are in order, repeated within bounds and never waited   *)
(* for when the Writer has lost them.                                      *)
(***************************************************************************)
EXTENDS Publish, FiniteSets, SequenceTheorems, FiniteSetTheorems, TLAPS

(* What a sequence holds. *)

LEMMA SetOfConcat ==
  ASSUME NEW S, NEW s \in Seq(S), NEW t \in Seq(S)
  PROVE  ToSet(s \o t) = ToSet(s) \cup ToSet(t)
<1>1. ASSUME NEW i \in DOMAIN (s \o t)
      PROVE  (s \o t)[i] \in ToSet(s) \cup ToSet(t)
  <2>1. i \in 1 .. Len(s) + Len(t)
    BY <1>1, ConcatProperties
  <2>2. CASE i <= Len(s)
    BY <2>1, <2>2, ConcatProperties DEF ToSet
  <2>3. CASE i > Len(s)
    <3>1. i - Len(s) \in DOMAIN t /\ (s \o t)[i] = t[i - Len(s)]
      BY <2>1, <2>3, ConcatProperties
    <3> QED BY <3>1 DEF ToSet
  <2> QED BY <2>1, <2>2, <2>3
<1>2. ASSUME NEW i \in DOMAIN s
      PROVE  s[i] \in ToSet(s \o t)
  <2>1. i \in DOMAIN (s \o t) /\ (s \o t)[i] = s[i]
    BY <1>2, ConcatProperties
  <2> QED BY <2>1 DEF ToSet
<1>3. ASSUME NEW i \in DOMAIN t
      PROVE  t[i] \in ToSet(s \o t)
  <2>1. Len(s) + i \in DOMAIN (s \o t) /\ (s \o t)[Len(s) + i] = t[i]
    BY <1>3, ConcatProperties
  <2> QED BY <2>1 DEF ToSet
<1> QED BY <1>1, <1>2, <1>3 DEF ToSet

LEMMA SetOfAppend ==
  ASSUME NEW S, NEW s \in Seq(S), NEW e \in S
  PROVE  ToSet(Append(s, e)) = ToSet(s) \cup {e}
<1>1. /\ DOMAIN Append(s, e) = 1 .. Len(s) + 1 /\ DOMAIN s = 1 .. Len(s) /\ Len(s) \in Nat
      /\ \A i \in 1 .. Len(s) : Append(s, e)[i] = s[i]
      /\ Append(s, e)[Len(s) + 1] = e
  OBVIOUS
<1>2. \A i \in 1 .. Len(s) + 1 : i \in 1 .. Len(s) \/ i = Len(s) + 1
  BY <1>1
<1> QED BY <1>1, <1>2 DEF ToSet

LEMMA SetOfSubSeq ==
  ASSUME NEW S, NEW s \in Seq(S), NEW m \in 1 .. Len(s) + 1, NEW n \in 0 .. Len(s)
  PROVE  SubSeq(s, m, n) \in Seq(S) /\ ToSet(SubSeq(s, m, n)) \subseteq ToSet(s)
<1>1. \A i \in m .. n : i \in DOMAIN s /\ s[i] \in S
  BY LenProperties
<1>2. /\ SubSeq(s, m, n) \in Seq(S)
      /\ DOMAIN SubSeq(s, m, n) = 1 .. Len(SubSeq(s, m, n))
      /\ \A i \in 1 .. Len(SubSeq(s, m, n)) :
           m + i - 1 \in m .. n /\ SubSeq(s, m, n)[i] = s[m + i - 1]
  BY <1>1, SubSeqProperties, LenProperties
<1> QED BY <1>1, <1>2 DEF ToSet

LEMMA SetOfEmpty == ToSet(<<>>) = {}
  BY DEF ToSet

LEMMA Extends ==
  ASSUME NEW S, NEW s \in Seq(S), NEW t \in Seq(S), t # <<>>
  PROVE  s # s \o t /\ IsPrefix(s, s \o t)
<1>1. s # s \o t
  BY ConcatEqualIffEmpty
<1>2. Len(s) <= Len(s \o t)
  BY ConcatProperties
<1>3. SubSeq(s, 1, Len(s)) = SubSeq(s \o t, 1, Len(s))
  BY ConcatProperties, SubSeqFull
<1> QED BY <1>1, <1>2, <1>3 DEF IsPrefix

-----------------------------------------------------------------------------
(* A step of Next, action by action. *)

LEMMA TypeStep ==
  ASSUME TypeOK, [Next]_vars
  PROVE  TypeOK'
<1> USE PublishAssumption DEF TypeOK, Where, Goto, At, handlers, writer
<1>1. ASSUME NEW c \in Call, Begin(c) PROVE TypeOK'
  BY <1>1 DEF Begin
<1>2. ASSUME NEW c \in Call, Commit(c) PROVE TypeOK'
  BY <1>2 DEF Commit, Accept
<1>3. ASSUME NEW c \in Call, CommitFails(c) PROVE TypeOK'
  <2>1. /\ pc' \in [Call -> Where] /\ reply' \in [Call -> {"none", "ok", "error", "lost"}]
        /\ committed' \subseteq Call /\ changed' \subseteq Call /\ unlucky' \subseteq Call
    <3>1. CASE Answer(c, "error") /\ UNCHANGED <<committed, changed>>
      BY <1>3, <3>1 DEF CommitFails, Answer
    <3>2. CASE Goto(c, "unheard") /\ Accept(c) /\ UNCHANGED reply
      BY <1>3, <3>2 DEF CommitFails, Accept
    <3> QED BY <1>3, <3>1, <3>2 DEF CommitFails
  <2>2. UNCHANGED <<enabled, strict, gone, writer, log, crashes, answered>>
    BY <1>3 DEF CommitFails
  <2> QED BY <2>1, <2>2
<1>0. ASSUME NEW c \in Call, FindNobody(c) PROVE TypeOK'
  BY <1>0 DEF FindNobody, Answer
<1>4. ASSUME NEW c \in Call, CommitUnheard(c) PROVE TypeOK'
  BY <1>4 DEF CommitUnheard, Answer
<1>5. ASSUME NEW c \in Call, Reload(c) PROVE TypeOK'
  BY <1>5 DEF Reload
<1>6. ASSUME NEW c \in Call, ReloadFails(c) PROVE TypeOK'
  BY <1>6 DEF ReloadFails, Answer
<1>7. ASSUME NEW c \in Call, PublishDisabled(c) PROVE TypeOK'
  BY <1>7 DEF PublishDisabled, Answer
<1>8. ASSUME NEW c \in Call, WriteMessages(c) PROVE TypeOK'
  BY <1>8 DEF WriteMessages
<1>9. ASSUME NEW c \in Call, Return(c) PROVE TypeOK'
  BY <1>9 DEF Return, Answer, kafkaPublishError
<1>10. ASSUME NEW c \in Call, Timeout(c) PROVE TypeOK'
  BY <1>10 DEF Timeout, Answer, kafkaPublishError
<1>11. ASSUME NEW c \in Call, Disconnect(c) PROVE TypeOK'
  BY <1>11 DEF Disconnect
<1>12. CASE TakeBatch
  <2>1. PICK n \in 1 .. Len(queue) : /\ batch' = SubSeq(queue, 1, n)
                                     /\ queue' = SubSeq(queue, n + 1, Len(queue))
    BY <1>12 DEF TakeBatch
  <2>2. batch' \in Seq(Call) /\ queue' \in Seq(Call)
    BY <2>1, SetOfSubSeq
  <2> QED BY <1>12, <2>2 DEF TakeBatch
<1>13. CASE Acknowledged
  BY <1>13 DEF Acknowledged, Tell
<1>14. CASE Unacknowledged
  <2>1. log \o batch \in Seq(Call)
    BY ConcatProperties
  <2>2. attempts' \in 0 .. MaxAttempts
    BY <1>14 DEF Unacknowledged
  <2> QED BY <1>14, <2>1, <2>2 DEF Unacknowledged
<1>15. CASE GiveUp
  <2>1. ToSet(batch) \subseteq Call
    BY LenProperties DEF ToSet
  <2> QED BY <1>15, <2>1 DEF GiveUp, Tell
<1>16. CASE Crash
  BY <1>16 DEF Crash, InService
<1>17. CASE UNCHANGED vars
  BY <1>17 DEF vars
<1> QED
  BY <1>1, <1>2, <1>3, <1>4, <1>5, <1>6, <1>7, <1>8, <1>9, <1>10, <1>11, <1>12, <1>13,
     <1>14, <1>15, <1>16, <1>17, <1>0 DEF Next, Handle, Write, Over

LEMMA InitType == Init => TypeOK
  BY PublishAssumption DEF Init, TypeOK, Where

(* The state of Publish keeps its types. *)
THEOREM TypeCorrect == Spec => []TypeOK
  BY InitType, TypeStep, PTL DEF Spec

-----------------------------------------------------------------------------
(* Where a message may come from and go to: a step enters it in the queue     *)
(* only for the handler that writes it, puts into the topic only what was in  *)
(* a batch, and takes nothing out of the topic.                               *)
MessagesMove ==
  /\ ToSet(queue') \cup ToSet(batch') \subseteq ToSet(queue) \cup ToSet(batch)
       \cup {c \in Call : pc[c] = "publish" /\ pc'[c] = "wait"}
  /\ ToSet(log) \subseteq ToSet(log')
  /\ ToSet(log') \subseteq ToSet(log) \cup ToSet(batch)

LEMMA MessageEffects ==
  ASSUME TypeOK, [Next]_vars
  PROVE  MessagesMove
<1>1. CASE UNCHANGED <<queue, batch, log>>
  BY <1>1 DEF MessagesMove
<1>2. ASSUME NEW c \in Call, WriteMessages(c) PROVE MessagesMove
  <2>1. ToSet(queue') = ToSet(queue) \cup {c} /\ UNCHANGED <<batch, log>>
    BY <1>2, SetOfAppend DEF WriteMessages, TypeOK
  <2>2. pc[c] = "publish" /\ pc'[c] = "wait"
    BY <1>2 DEF WriteMessages, At, Goto, TypeOK
  <2> QED BY <2>1, <2>2 DEF MessagesMove
<1>3. CASE TakeBatch
  <2>1. PICK n \in 1 .. Len(queue) : /\ batch' = SubSeq(queue, 1, n)
                                     /\ queue' = SubSeq(queue, n + 1, Len(queue))
    BY <1>3 DEF TakeBatch
  <2>2. /\ queue \in Seq(Call)
        /\ 1 \in 1 .. Len(queue) + 1 /\ n \in 0 .. Len(queue)
        /\ n + 1 \in 1 .. Len(queue) + 1 /\ Len(queue) \in 0 .. Len(queue)
    BY <2>1 DEF TypeOK
  <2>3. ToSet(SubSeq(queue, 1, n)) \subseteq ToSet(queue)
    BY <2>2, SetOfSubSeq
  <2>4. ToSet(SubSeq(queue, n + 1, Len(queue))) \subseteq ToSet(queue)
    BY <2>2, SetOfSubSeq
  <2> QED BY <1>3, <2>1, <2>3, <2>4 DEF TakeBatch, MessagesMove
<1>4. CASE Acknowledged \/ Unacknowledged
  <2>1. ToSet(log \o batch) = ToSet(log) \cup ToSet(batch)
    BY SetOfConcat DEF TypeOK
  <2> QED BY <1>4, <2>1, SetOfEmpty DEF Acknowledged, Unacknowledged, MessagesMove
<1>5. CASE GiveUp
  BY <1>5, SetOfEmpty DEF GiveUp, MessagesMove
<1>6. CASE Crash
  BY <1>6, SetOfEmpty DEF Crash, MessagesMove
<1>7. ASSUME NEW c \in Call,
             \/ Begin(c) \/ Commit(c) \/ FindNobody(c) \/ CommitFails(c) \/ CommitUnheard(c)
             \/ Reload(c) \/ ReloadFails(c) \/ PublishDisabled(c) \/ Return(c) \/ Timeout(c)
             \/ Disconnect(c)
      PROVE  UNCHANGED <<queue, batch, log>>
  BY <1>7 DEF Begin, Commit, FindNobody, CommitFails, CommitUnheard, Reload, ReloadFails, PublishDisabled,
              Return, Timeout, Disconnect, writer
<1> QED
  BY <1>1, <1>2, <1>3, <1>4, <1>5, <1>6, <1>7 DEF Next, Handle, Write, Over, vars, writer

-----------------------------------------------------------------------------
(* The inductive invariant.                                                  *)

Unsent(c) == ~ Pending(c) /\ c \notin ToSet(log)

(* Where a handler is tells whether its change is in the database, whether    *)
(* its message has left it and whether it has answered.                       *)
Progress ==
  \A c \in Call :
    /\ pc[c] \in {"new", "write"} => c \notin committed
    /\ pc[c] \in {"unheard", "reload", "publish", "wait"} => c \in committed
    /\ pc[c] \in {"new", "write", "unheard", "reload", "publish"} => Unsent(c)
    /\ pc[c] = "done" <=> reply[c] # "none"
    /\ pc[c] = "reload" => c \in Reloading
    /\ pc[c] = "unheard" => c \in unlucky
    /\ pc[c] = "done" /\ reply[c] = "ok" => c \in committed \/ c \in MayBeIdle

Backed == \A c \in Call : ~ Unsent(c) => c \in committed

Truthful ==
  \A c \in Call : /\ verdict[c] = "sent" => c \in ToSet(log)
                  /\ verdict[c] = "error" => c \in unlucky

IInv ==
  TypeOK /\ Progress /\ Backed /\ Truthful /\ PublishingIsBestEffort /\ EmitsDespiteDisconnect

LEMMA InitInv == Init => IInv
  BY InitType, SetOfEmpty DEF Init, IInv, Progress, Backed, Truthful, PublishingIsBestEffort,
     EmitsDespiteDisconnect, Unsent, Pending, At

LEMMA ProgressStep ==
  ASSUME IInv, [Next]_vars
  PROVE  Progress'
<1>1. MessagesMove /\ TypeOK
  BY MessageEffects DEF IInv
<1> SUFFICES ASSUME NEW d \in Call
    PROVE /\ pc'[d] \in {"new", "write"} => d \notin committed'
          /\ pc'[d] \in {"unheard", "reload", "publish", "wait"} => d \in committed'
          /\ pc'[d] \in {"new", "write", "unheard", "reload", "publish"} => Unsent(d)'
          /\ pc'[d] = "done" <=> reply'[d] # "none"
          /\ pc'[d] = "reload" => d \in Reloading
          /\ pc'[d] = "unheard" => d \in unlucky'
          /\ pc'[d] = "done" /\ reply'[d] = "ok" => d \in committed' \/ d \in MayBeIdle
  BY DEF Progress
<1> USE <1>1 DEF IInv, Progress, TypeOK, Where, Goto, At, handlers, writer, Answer
<1>2. pc'[d] \in {"new", "write", "unheard", "reload", "publish"} => Unsent(d)'
  <2>1. ASSUME pc'[d] \in {"new", "write", "unheard", "reload", "publish"}
        PROVE  pc[d] \in {"new", "write", "unheard", "reload", "publish"}
    BY <2>1 DEF Next, Handle, Write, Over, vars, Begin, Commit, FindNobody, CommitFails, CommitUnheard,
       Reload, ReloadFails, PublishDisabled, WriteMessages, Return, Timeout, Disconnect,
       TakeBatch, Acknowledged, Unacknowledged, GiveUp, Crash, InService
  <2> QED BY <2>1 DEF Unsent, Pending, MessagesMove
<1> DEFINE Goal ==
      /\ pc'[d] \in {"new", "write"} => d \notin committed'
      /\ pc'[d] \in {"unheard", "reload", "publish", "wait"} => d \in committed'
      /\ pc'[d] = "done" <=> reply'[d] # "none"
      /\ pc'[d] = "reload" => d \in Reloading
      /\ pc'[d] = "unheard" => d \in unlucky'
      /\ pc'[d] = "done" /\ reply'[d] = "ok" => d \in committed' \/ d \in MayBeIdle
<1>3. ASSUME NEW c \in Call, Begin(c) \/ Commit(c) PROVE Goal
  <2>1. CASE Begin(c)
    BY <2>1 DEF Begin
  <2>2. CASE Commit(c)
    BY <2>2 DEF Commit, Accept
  <2> QED BY <1>3, <2>1, <2>2
<1>4. ASSUME NEW c \in Call, CommitFails(c) \/ CommitUnheard(c) \/ FindNobody(c) PROVE Goal
  <2>1. CASE CommitFails(c)
    BY <2>1 DEF CommitFails, Accept
  <2>3. CASE FindNobody(c)
    BY <2>3 DEF FindNobody
  <2>2. CASE CommitUnheard(c)
    BY <2>2 DEF CommitUnheard
  <2> QED BY <1>4, <2>1, <2>2, <2>3
<1>5. ASSUME NEW c \in Call, Reload(c) \/ ReloadFails(c) PROVE Goal
  <2>1. CASE Reload(c)
    BY <2>1 DEF Reload
  <2>2. CASE ReloadFails(c)
    BY <2>2 DEF ReloadFails
  <2> QED BY <1>5, <2>1, <2>2
<1>6. ASSUME NEW c \in Call, PublishDisabled(c) \/ WriteMessages(c) PROVE Goal
  BY <1>6 DEF PublishDisabled, WriteMessages
<1>7. ASSUME NEW c \in Call, Return(c) \/ Timeout(c) PROVE Goal
  BY <1>7 DEF Return, Timeout, kafkaPublishError
<1>8. ASSUME NEW c \in Call, Disconnect(c) PROVE Goal
  BY <1>8 DEF Disconnect
<1>9. ASSUME Write PROVE Goal
  BY <1>9 DEF Write, TakeBatch, Acknowledged, Unacknowledged, GiveUp
<1>10. ASSUME Crash PROVE Goal
  BY <1>10 DEF Crash, InService
<1>11. ASSUME UNCHANGED vars PROVE Goal
  BY <1>11 DEF vars
<1> QED
  BY <1>2, <1>3, <1>4, <1>5, <1>6, <1>7, <1>8, <1>9, <1>10, <1>11 DEF Next, Handle, Over

LEMMA CommitsStay ==
  ASSUME [Next]_vars
  PROVE  committed \subseteq committed' /\ unlucky \subseteq unlucky' /\ gone \subseteq gone'
         /\ enabled' = enabled /\ strict' = strict
  BY DEF Next, Handle, Write, Over, vars, handlers, writer, Begin, Accept, Commit, FindNobody, CommitFails,
     CommitUnheard, Reload, ReloadFails, PublishDisabled, WriteMessages, Return, Timeout,
     Disconnect, TakeBatch, Acknowledged, Unacknowledged, GiveUp, Crash

LEMMA BackedStep ==
  ASSUME IInv, [Next]_vars
  PROVE  Backed'
<1>1. ASSUME NEW d \in Call, ~ Unsent(d)'
      PROVE  d \in committed
  BY <1>1, MessageEffects DEF IInv, MessagesMove, Unsent, Pending, Backed, Progress
<1> QED BY <1>1, CommitsStay DEF Backed

LEMMA TruthfulStep ==
  ASSUME IInv, [Next]_vars
  PROVE  Truthful'
<1> DEFINE True(d) == /\ verdict'[d] = "sent" => d \in ToSet(log')
                      /\ verdict'[d] = "error" => d \in unlucky'
<1> SUFFICES ASSUME NEW d \in Call PROVE True(d)
  BY DEF Truthful
<1>1. MessagesMove /\ TypeOK /\ Truthful /\ unlucky \subseteq unlucky'
  BY MessageEffects, CommitsStay DEF IInv
<1>2. CASE verdict'[d] = verdict[d] \/ verdict'[d] = "none"
  BY <1>1, <1>2 DEF MessagesMove, Truthful
<1>3. CASE Acknowledged
  <2>1. ToSet(log') = ToSet(log) \cup ToSet(batch)
    BY <1>1, <1>3, SetOfConcat DEF Acknowledged, TypeOK
  <2> QED BY <1>1, <1>2, <1>3, <2>1 DEF Acknowledged, Tell, TypeOK
<1>4. CASE GiveUp
  BY <1>1, <1>2, <1>4 DEF GiveUp, Tell, TypeOK
<1>5. ASSUME NEW c \in Call, Return(c)
      PROVE  verdict'[d] = verdict[d] \/ verdict'[d] = "none"
  BY <1>1, <1>5 DEF Return, TypeOK
<1>6. ASSUME NEW c \in Call,
             \/ Begin(c) \/ Commit(c) \/ FindNobody(c) \/ CommitFails(c) \/ CommitUnheard(c)
             \/ Reload(c) \/ ReloadFails(c) \/ PublishDisabled(c) \/ WriteMessages(c)
             \/ Timeout(c) \/ Disconnect(c)
      PROVE  verdict' = verdict
  BY <1>6 DEF Begin, Commit, FindNobody, CommitFails, CommitUnheard, Reload, ReloadFails, PublishDisabled,
              WriteMessages, Timeout, Disconnect, writer
<1>7. CASE TakeBatch \/ Unacknowledged \/ UNCHANGED vars
  BY <1>2, <1>7 DEF TakeBatch, Unacknowledged, vars, writer
<1>8. CASE Crash
  BY <1>2, <1>8 DEF Crash
<1> QED
  BY <1>2, <1>3, <1>4, <1>5, <1>6, <1>7, <1>8 DEF Next, Handle, Write, Over

(* What a step answers, to whom. *)
AnswersWell ==
  \A d \in Call :
    /\ reply'[d] # reply[d] => pc[d] # "done"
    /\ reply'[d] # reply[d] /\ reply'[d] = "error" /\ ~ strict =>
         pc[d] # "wait" /\ d \in gone \cup unlucky'
    /\ pc[d] # "done" /\ pc'[d] = "done" /\ enabled /\ d \notin Reloading \cup unlucky' =>
         \/ pc[d] = "wait" /\ verdict[d] = "sent"
         \/ d \in MayBeIdle \ committed'

LEMMA Answers ==
  ASSUME IInv, [Next]_vars
  PROVE  AnswersWell
<1> SUFFICES ASSUME NEW d \in Call
    PROVE /\ reply'[d] # reply[d] => pc[d] # "done"
          /\ reply'[d] # reply[d] /\ reply'[d] = "error" /\ ~ strict =>
               pc[d] # "wait" /\ d \in gone \cup unlucky'
          /\ pc[d] # "done" /\ pc'[d] = "done" /\ enabled /\ d \notin Reloading \cup unlucky' =>
               \/ pc[d] = "wait" /\ verdict[d] = "sent"
               \/ d \in MayBeIdle \ committed'
  BY DEF AnswersWell
<1> USE DEF IInv, TypeOK, Where, At, Goto, Answer, handlers, writer
<1>1. ASSUME NEW c \in Call, Begin(c) \/ Commit(c) \/ Reload(c) \/ WriteMessages(c) \/ Disconnect(c)
      PROVE  UNCHANGED reply /\ (pc'[d] = "done" => pc[d] = "done")
  BY <1>1 DEF Begin, Commit, Reload, WriteMessages, Disconnect
<1>2. ASSUME NEW c \in Call, CommitFails(c) \/ FindNobody(c) PROVE AnswersWell
  BY <1>2 DEF CommitFails, FindNobody, AnswersWell, Progress
<1>3. ASSUME NEW c \in Call, CommitUnheard(c) PROVE AnswersWell
  BY <1>3 DEF CommitUnheard, AnswersWell, Progress
<1>4. ASSUME NEW c \in Call, ReloadFails(c) PROVE AnswersWell
  BY <1>4 DEF ReloadFails, AnswersWell, Progress
<1>5. ASSUME NEW c \in Call, PublishDisabled(c) PROVE AnswersWell
  BY <1>5 DEF PublishDisabled, AnswersWell
<1>6. ASSUME NEW c \in Call, Return(c) PROVE AnswersWell
  BY <1>6 DEF Return, kafkaPublishError, AnswersWell, Truthful
<1>7. ASSUME NEW c \in Call, Timeout(c) PROVE AnswersWell
  BY <1>7 DEF Timeout, kafkaPublishError, AnswersWell
<1>8. ASSUME Crash PROVE AnswersWell
  BY <1>8 DEF Crash, InService, AnswersWell
<1>9. CASE Write \/ UNCHANGED vars
  BY <1>9 DEF Write, TakeBatch, Acknowledged, Unacknowledged, GiveUp, vars
<1> QED
  BY <1>1, <1>2, <1>3, <1>4, <1>5, <1>6, <1>7, <1>8, <1>9 DEF Next, Handle, Over, AnswersWell

LEMMA BestEffortStep ==
  ASSUME IInv, [Next]_vars
  PROVE  PublishingIsBestEffort'
<1> SUFFICES ASSUME NEW d \in Call, ~ strict', reply'[d] = "error"
             PROVE  d \in gone' \cup unlucky' /\ Unsent(d)'
  BY DEF PublishingIsBestEffort, Unsent
<1>1. d \in gone' \cup unlucky' /\ Unsent(d)
  <2>1. CASE reply'[d] = reply[d]
    BY <2>1, CommitsStay DEF IInv, PublishingIsBestEffort, Progress, Unsent
  <2>2. CASE reply'[d] # reply[d]
    BY <2>2, CommitsStay, Answers DEF IInv, TypeOK, Where, AnswersWell, Progress
  <2> QED BY <2>1, <2>2
<1>2. pc'[d] # "wait"
  BY ProgressStep DEF Progress
<1> QED BY <1>1, <1>2, MessageEffects DEF IInv, MessagesMove, Unsent, Pending

\* a request that is done writes nothing more
LEMMA SettledStay ==
  ASSUME IInv, [Next]_vars, NEW d \in Call, pc[d] = "done"
  PROVE  d \in committed' => d \in committed
<1> USE DEF IInv, TypeOK, At, handlers
<1>1. ASSUME NEW c \in Call, Commit(c) \/ CommitFails(c)
      PROVE  d \in committed' => d \in committed
  BY <1>1 DEF Commit, CommitFails, Accept
<1>2. ASSUME NEW c \in Call,
             \/ Begin(c) \/ FindNobody(c) \/ CommitUnheard(c) \/ Reload(c) \/ ReloadFails(c)
             \/ PublishDisabled(c) \/ WriteMessages(c) \/ Return(c) \/ Timeout(c)
             \/ Disconnect(c)
      PROVE  committed' = committed
  BY <1>2 DEF Begin, FindNobody, CommitUnheard, Reload, ReloadFails, PublishDisabled,
              WriteMessages, Return, Timeout, Disconnect
<1>3. ASSUME Write \/ Crash \/ UNCHANGED vars PROVE committed' = committed
  BY <1>3 DEF Write, TakeBatch, Acknowledged, Unacknowledged, GiveUp, Crash, vars
<1> QED BY <1>1, <1>2, <1>3 DEF Next, Handle, Over

LEMMA EmissionStep ==
  ASSUME IInv, [Next]_vars
  PROVE  EmitsDespiteDisconnect'
<1> SUFFICES ASSUME NEW d \in Call, d \notin Reloading \cup unlucky', enabled', pc'[d] = "done"
             PROVE  d \in ToSet(log') \/ d \in MayBeIdle \ committed'
  BY DEF EmitsDespiteDisconnect, At
<1>1. CASE pc[d] = "done"
  BY <1>1, CommitsStay, SettledStay, MessageEffects
  DEF IInv, EmitsDespiteDisconnect, At, MessagesMove
<1>2. CASE pc[d] # "done"
  BY <1>2, CommitsStay, Answers, MessageEffects DEF IInv, AnswersWell, Truthful, MessagesMove
<1> QED BY <1>1, <1>2

LEMMA Invariance == Spec => []IInv
<1>1. IInv /\ [Next]_vars => IInv'
  BY TypeStep, ProgressStep, BackedStep, TruthfulStep, BestEffortStep, EmissionStep DEF IInv
<1> QED BY InitInv, <1>1, PTL DEF Spec

(* Where KAFKA_STRICT is not set, publishing never fails a request.           *)
THEOREM BestEffort == Spec => []PublishingIsBestEffort
  BY Invariance, PTL DEF IInv

(* A handler that does not read its row back emits its event whether or not   *)
(* the client stays.                                                          *)
THEOREM Emission == Spec => []EmitsDespiteDisconnect
  BY Invariance, PTL DEF IInv

-----------------------------------------------------------------------------
(* The order of the events.  A request is answered before another begins only *)
(* if it is done by then, so what precedes it in the Writer and in the topic  *)
(* is settled: the queue and the batch hold the first before the second, and  *)
(* once the second has left the queue the first is no longer in it.           *)

Ordered(s) ==
  \A k, l \in DOMAIN s : s[l] \in answered[s[k]] => l < k

OrderInv ==
  /\ \A d \in Call : \A c \in answered[d] : pc[c] = "done"
  /\ Ordered(queue) /\ Ordered(batch)
  /\ \A j \in DOMAIN log : \A c \in answered[log[j]] \cap (ToSet(log) \cup ToSet(batch)) :
       \E i \in 1 .. j - 1 : log[i] = c
  /\ \A d \in ToSet(log) \cup ToSet(batch) : answered[d] \cap ToSet(queue) = {}

(* What is answered stays answered, and the history of a request whose        *)
(* message has been written does not change.                                  *)
LEMMA HistoryStays ==
  ASSUME IInv, [Next]_vars
  PROVE  /\ \A c \in Call : pc[c] = "done" => pc'[c] = "done"
         /\ \A d \in Call : ~ Unsent(d) => answered'[d] = answered[d]
         /\ \A d \in Call : answered'[d] = answered[d] \/ \A c \in answered'[d] : pc[c] = "done"
<1> USE DEF IInv, TypeOK, Where, At, Goto, Answer, handlers, writer
<1>1. ASSUME NEW c \in Call, Begin(c)
      PROVE  /\ \A d \in Call : pc[d] = "done" => pc'[d] = "done"
             /\ \A d \in Call : ~ Unsent(d) => answered'[d] = answered[d]
             /\ \A d \in Call : answered'[d] = answered[d] \/ \A e \in answered'[d] : pc[e] = "done"
  BY <1>1 DEF Begin, Progress
<1>2. ASSUME NEW c \in Call,
             \/ Commit(c) \/ FindNobody(c) \/ CommitFails(c) \/ CommitUnheard(c)
             \/ Reload(c) \/ ReloadFails(c) \/ PublishDisabled(c) \/ WriteMessages(c)
             \/ Return(c) \/ Timeout(c) \/ Disconnect(c)
      PROVE  (\A d \in Call : pc[d] = "done" => pc'[d] = "done") /\ UNCHANGED answered
  BY <1>2 DEF Commit, FindNobody, CommitFails, CommitUnheard, Reload, ReloadFails, PublishDisabled,
              WriteMessages, Return, Timeout, Disconnect
<1>3. ASSUME Write \/ Crash \/ UNCHANGED vars
      PROVE  (\A d \in Call : pc[d] = "done" => pc'[d] = "done") /\ UNCHANGED answered
  BY <1>3 DEF Write, TakeBatch, Acknowledged, Unacknowledged, GiveUp, Crash, InService, vars
<1> QED BY <1>1, <1>2, <1>3 DEF Next, Handle, Over

LEMMA AppendOrdered ==
  ASSUME NEW s \in Seq(Call), NEW e \in Call, Ordered(s),
         \A d \in ToSet(s) \cup {e} : e \notin answered[d]
  PROVE  Ordered(Append(s, e))
<1> DEFINE t == Append(s, e)
<1>1. /\ DOMAIN t = 1 .. Len(s) + 1 /\ Len(s) \in Nat /\ DOMAIN s = 1 .. Len(s)
      /\ \A i \in 1 .. Len(s) : t[i] = s[i] /\ t[i] \in ToSet(s)
      /\ t[Len(s) + 1] = e
  BY DEF ToSet
<1> HIDE DEF t
<1>2. SUFFICES ASSUME NEW k \in 1 .. Len(s) + 1, NEW l \in 1 .. Len(s) + 1,
                      t[l] \in answered[t[k]]
               PROVE  l < k
  BY <1>1 DEF Ordered, t
<1>3. t[k] \in ToSet(s) \cup {e}
  BY <1>1
<1>4. l # Len(s) + 1
  BY <1>1, <1>2, <1>3
<1>5. CASE k = Len(s) + 1
  BY <1>1, <1>4, <1>5
<1>6. CASE k # Len(s) + 1
  <2>1. k \in 1 .. Len(s) /\ l \in 1 .. Len(s)
    BY <1>1, <1>4, <1>6
  <2> QED BY <1>1, <1>2, <2>1 DEF Ordered
<1> QED BY <1>5, <1>6

LEMMA Suffix ==
  ASSUME NEW s \in Seq(Call), NEW n \in Nat, n <= Len(s)
  PROVE  LET u == SubSeq(s, n + 1, Len(s))
         IN  /\ DOMAIN u = 1 .. Len(s) - n
             /\ \A i \in 1 .. Len(s) - n : u[i] = s[n + i] /\ n + i \in DOMAIN s
<1>1. PICK N \in Nat : N = Len(s)
  BY LenProperties
<1>2. PICK u : u = SubSeq(s, n + 1, N)
  OBVIOUS
<1>3. DOMAIN s = 1 .. N /\ \A i \in n + 1 .. N : s[i] \in Call
  BY <1>1, LenProperties
<1>4. /\ u \in Seq(Call) /\ Len(u) = IF n + 1 <= N THEN N - (n + 1) + 1 ELSE 0
      /\ \A i \in 1 .. N - (n + 1) + 1 : u[i] = s[n + 1 + i - 1]
  BY <1>2, <1>3, SubSeqProperties
<1>5. DOMAIN u = 1 .. Len(u)
  BY <1>4, LenProperties
<1>6. Len(u) = N - n
  BY <1>1, <1>4
<1>7. \A i \in 1 .. N - n : u[i] = s[n + i] /\ n + i \in DOMAIN s
  BY <1>3, <1>4
<1> QED BY <1>1, <1>2, <1>5, <1>6, <1>7

(* Taking a batch from the front leaves both parts in order, and the batch    *)
(* holds nothing that was to come after what stays.                           *)
LEMMA SplitOrdered ==
  ASSUME NEW s \in Seq(Call), Ordered(s), NEW n \in 1 .. Len(s)
  PROVE  /\ Ordered(SubSeq(s, 1, n)) /\ Ordered(SubSeq(s, n + 1, Len(s)))
         /\ \A d \in ToSet(SubSeq(s, 1, n)) :
              answered[d] \cap ToSet(SubSeq(s, n + 1, Len(s))) = {}
<1> DEFINE t == SubSeq(s, 1, n)
           u == SubSeq(s, n + 1, Len(s))
<1>1. Len(s) \in Nat /\ DOMAIN s = 1 .. Len(s) /\ \A i \in 1 .. Len(s) : s[i] \in Call
  BY LenProperties
<1>2. DOMAIN t = 1 .. n /\ \A i \in 1 .. n : t[i] = s[i]
  <2>1. \A i \in 1 .. n : s[i] \in Call
    BY <1>1
  <2>2. /\ t \in Seq(Call) /\ Len(t) = n /\ \A i \in 1 .. n : t[i] = s[1 + i - 1]
    BY <2>1, SubSeqProperties
  <2> QED BY <2>2, LenProperties
<1>3. /\ DOMAIN u = 1 .. Len(s) - n
      /\ \A i \in 1 .. Len(s) - n : u[i] = s[n + i] /\ n + i \in DOMAIN s
  BY <1>1, Suffix
<1> HIDE DEF t, u
<1>4. Ordered(t)
  BY <1>1, <1>2 DEF Ordered
<1>5. Ordered(u)
  <2> SUFFICES ASSUME NEW k \in DOMAIN u, NEW l \in DOMAIN u, u[l] \in answered[u[k]]
               PROVE  l < k
    BY DEF Ordered
  <2>1. n + l < n + k
    BY <1>3 DEF Ordered
  <2> QED BY <1>1, <1>3, <2>1
<1>6. ASSUME NEW d \in ToSet(t) PROVE answered[d] \cap ToSet(u) = {}
  <2>1. PICK k \in 1 .. n : d = s[k]
    BY <1>2 DEF ToSet
  <2> SUFFICES ASSUME NEW l \in DOMAIN u, u[l] \in answered[s[k]]
               PROVE  FALSE
    BY <2>1 DEF ToSet
  <2>2. n + l < k
    BY <1>1, <1>3 DEF Ordered
  <2> QED BY <1>1, <1>3, <2>2
<1> QED BY <1>4, <1>5, <1>6 DEF t, u

(* Sending the batch puts nothing before what it is to follow. *)
LEMMA SendOrdered ==
  ASSUME TypeOK, OrderInv
  PROVE  \A j \in DOMAIN (log \o batch) :
           \A c \in answered[(log \o batch)[j]] \cap (ToSet(log) \cup ToSet(batch)) :
             \E i \in 1 .. j - 1 : (log \o batch)[i] = c
<1> DEFINE t == log \o batch
<1>1. /\ Len(log) \in Nat /\ Len(batch) \in Nat
      /\ DOMAIN log = 1 .. Len(log) /\ DOMAIN batch = 1 .. Len(batch)
  BY LenProperties DEF TypeOK
<1>2. /\ DOMAIN t = 1 .. Len(log) + Len(batch)
      /\ \A i \in 1 .. Len(log) + Len(batch) :
           t[i] = IF i <= Len(log) THEN log[i] ELSE batch[i - Len(log)]
  BY ConcatProperties, LenProperties DEF TypeOK
<1> HIDE DEF t
<1> SUFFICES ASSUME NEW j \in DOMAIN t, NEW c \in answered[t[j]], c \in ToSet(log) \cup ToSet(batch)
             PROVE  \E i \in 1 .. j - 1 : t[i] = c
  BY DEF t
<1>3. CASE j <= Len(log)
  <2>1. j \in DOMAIN log /\ t[j] = log[j]
    BY <1>1, <1>2, <1>3
  <2>2. PICK i \in 1 .. j - 1 : log[i] = c
    BY <2>1 DEF OrderInv
  <2> QED BY <1>1, <1>2, <1>3, <2>2
<1>4. CASE j > Len(log)
  <2>1. CASE c \in ToSet(log)
    <3>1. PICK i \in DOMAIN log : log[i] = c
      BY <2>1 DEF ToSet
    <3> QED BY <1>1, <1>2, <1>4, <3>1
  <2>2. CASE c \in ToSet(batch)
    <3>1. PICK l \in DOMAIN batch : batch[l] = c
      BY <2>2 DEF ToSet
    <3>2. j - Len(log) \in DOMAIN batch /\ t[j] = batch[j - Len(log)]
      BY <1>1, <1>2, <1>4
    <3>3. l < j - Len(log)
      BY <3>1, <3>2 DEF OrderInv, Ordered
    <3>4. Len(log) + l \in 1 .. j - 1 /\ t[Len(log) + l] = c
      BY <1>1, <1>2, <3>1, <3>2, <3>3
    <3> QED BY <3>4
  <2> QED BY <2>1, <2>2
<1> QED BY <1>1, <1>2, <1>3, <1>4

LEMMA InitOrder == Init => OrderInv
  BY SetOfEmpty DEF Init, OrderInv, Ordered

LEMMA OrderStep ==
  ASSUME IInv, OrderInv, [Next]_vars
  PROVE  OrderInv'
<1>1. \A d \in Call : \A c \in answered'[d] : pc'[c] = "done"
  BY HistoryStays, TypeStep DEF OrderInv, IInv, TypeOK
<1>2. TypeOK /\ TypeOK'
  BY TypeStep DEF IInv
<1>3. /\ ToSet(queue) \subseteq Call /\ ToSet(batch) \subseteq Call /\ ToSet(log) \subseteq Call
      /\ \A i \in DOMAIN queue : queue[i] \in Call
      /\ \A i \in DOMAIN batch : batch[i] \in Call
      /\ \A i \in DOMAIN log : log[i] \in Call
  BY <1>2, LenProperties DEF TypeOK, ToSet
<1>4. \A d \in ToSet(queue) \cup ToSet(batch) \cup ToSet(log) : answered'[d] = answered[d]
  BY <1>3, HistoryStays DEF Unsent, Pending
<1>5. CASE UNCHANGED <<queue, batch, log>>
  <2>1. Ordered(queue)' /\ Ordered(batch)'
    BY <1>4, <1>5 DEF OrderInv, Ordered, ToSet
  <2>2. \A j \in DOMAIN log' : \A c \in answered'[log'[j]] \cap (ToSet(log') \cup ToSet(batch')) :
          \E i \in 1 .. j - 1 : log'[i] = c
    BY <1>4, <1>5 DEF OrderInv, ToSet
  <2>3. \A d \in ToSet(log') \cup ToSet(batch') : answered'[d] \cap ToSet(queue') = {}
    BY <1>4, <1>5 DEF OrderInv
  <2> QED BY <1>1, <2>1, <2>2, <2>3 DEF OrderInv
<1>6. ASSUME NEW c \in Call, WriteMessages(c) PROVE OrderInv'
  <2>1. queue' = Append(queue, c) /\ UNCHANGED <<batch, log, answered>> /\ pc[c] = "publish"
    BY <1>6 DEF WriteMessages, At
  <2>2. \A d \in Call : c \notin answered[d]
    BY <2>1 DEF OrderInv
  <2>3. Ordered(Append(queue, c))
    BY <1>2, <1>3, <2>2, AppendOrdered DEF TypeOK, OrderInv
  <2>4. ToSet(queue') = ToSet(queue) \cup {c}
    BY <1>2, <2>1, SetOfAppend DEF TypeOK
  <2>5. Ordered(queue)' /\ Ordered(batch)'
    BY <2>1, <2>3 DEF OrderInv, Ordered
  <2>6. \A d \in ToSet(log') \cup ToSet(batch') : answered'[d] \cap ToSet(queue') = {}
    BY <1>3, <2>1, <2>2, <2>4 DEF OrderInv
  <2> QED BY <1>1, <2>1, <2>5, <2>6 DEF OrderInv
<1>7. CASE TakeBatch
  <2>1. PICK n \in 1 .. Len(queue) : /\ batch' = SubSeq(queue, 1, n)
                                     /\ queue' = SubSeq(queue, n + 1, Len(queue))
    BY <1>7 DEF TakeBatch
  <2>2. UNCHANGED <<log, answered>> /\ batch = <<>>
    BY <1>7 DEF TakeBatch
  <2>3. /\ Ordered(SubSeq(queue, 1, n)) /\ Ordered(SubSeq(queue, n + 1, Len(queue)))
        /\ \A d \in ToSet(batch') : answered[d] \cap ToSet(queue') = {}
    BY <1>2, <2>1, SplitOrdered DEF OrderInv, TypeOK
  <2>4. n \in 0 .. Len(queue) /\ n + 1 \in 1 .. Len(queue) + 1
        /\ Len(queue) \in 0 .. Len(queue) /\ 1 \in 1 .. Len(queue) + 1
    BY <1>2, LenProperties DEF TypeOK
  <2>5. ToSet(batch') \subseteq ToSet(queue) /\ ToSet(queue') \subseteq ToSet(queue)
    BY <1>2, <2>1, <2>4, SetOfSubSeq DEF TypeOK
  <2>6. Ordered(queue)' /\ Ordered(batch)'
    BY <2>1, <2>2, <2>3 DEF Ordered
  <2>7. \A j \in DOMAIN log' : \A c \in answered'[log'[j]] \cap (ToSet(log') \cup ToSet(batch')) :
          \E i \in 1 .. j - 1 : log'[i] = c
    <3> SUFFICES ASSUME NEW j \in DOMAIN log, NEW c \in answered[log[j]],
                        c \in ToSet(log) \cup ToSet(batch')
                 PROVE  \E i \in 1 .. j - 1 : log[i] = c
      BY <2>2
    <3>1. log[j] \in ToSet(log)
      BY DEF ToSet
    <3>2. c \notin ToSet(queue)
      BY <3>1 DEF OrderInv
    <3> QED BY <2>5, <3>2 DEF OrderInv
  <2>8. \A d \in ToSet(log') \cup ToSet(batch') : answered'[d] \cap ToSet(queue') = {}
    BY <2>2, <2>3, <2>5 DEF OrderInv
  <2> QED BY <1>1, <2>6, <2>7, <2>8 DEF OrderInv
<1>8. ASSUME log' = log \/ log' = log \o batch, batch' = batch \/ batch' = <<>>,
             UNCHANGED <<queue, answered>>
      PROVE  OrderInv'
  <2>1. ToSet(log') \subseteq ToSet(log) \cup ToSet(batch) /\ ToSet(batch') \subseteq ToSet(batch)
    <3>1. ToSet(log \o batch) = ToSet(log) \cup ToSet(batch)
      BY <1>2, SetOfConcat DEF TypeOK
    <3>2. ToSet(log') \subseteq ToSet(log) \cup ToSet(batch)
      BY <1>8, <3>1
    <3>3. ToSet(batch') \subseteq ToSet(batch)
      BY <1>8, SetOfEmpty
    <3> QED BY <3>2, <3>3
  <2>2. Ordered(queue)' /\ Ordered(batch)'
    BY <1>8 DEF OrderInv, Ordered
  <2>3. \A j \in DOMAIN log' : \A c \in answered'[log'[j]] \cap (ToSet(log) \cup ToSet(batch)) :
          \E i \in 1 .. j - 1 : log'[i] = c
    <3>1. CASE log' = log
      BY <1>8, <3>1 DEF OrderInv
    <3>2. CASE log' = log \o batch
      <4>1. \A j \in DOMAIN (log \o batch) :
              \A c \in answered[(log \o batch)[j]] \cap (ToSet(log) \cup ToSet(batch)) :
                \E i \in 1 .. j - 1 : (log \o batch)[i] = c
        BY <1>2, SendOrdered
      <4>2. answered' = answered
        BY <1>8
      <4> HIDE DEF OrderInv
      <4> QED BY <3>2, <4>1, <4>2
    <3> QED BY <1>8, <3>1, <3>2
  <2>4. \A d \in ToSet(log') \cup ToSet(batch') : answered'[d] \cap ToSet(queue') = {}
    BY <1>8, <2>1 DEF OrderInv
  <2> QED BY <1>1, <2>1, <2>2, <2>3, <2>4 DEF OrderInv
<1>9. CASE Acknowledged \/ Unacknowledged \/ GiveUp
  BY <1>8, <1>9 DEF Acknowledged, Unacknowledged, GiveUp
<1>10. CASE Crash
  <2>1. queue' = <<>> /\ batch' = <<>> /\ UNCHANGED <<log, answered>>
    BY <1>10 DEF Crash
  <2>2. Ordered(queue)' /\ Ordered(batch)'
    BY <2>1 DEF Ordered
  <2>3. \A j \in DOMAIN log' : \A c \in answered'[log'[j]] \cap (ToSet(log') \cup ToSet(batch')) :
          \E i \in 1 .. j - 1 : log'[i] = c
    BY <2>1, SetOfEmpty DEF OrderInv
  <2>4. \A d \in ToSet(log') \cup ToSet(batch') : answered'[d] \cap ToSet(queue') = {}
    BY <2>1, SetOfEmpty
  <2> QED BY <1>1, <2>2, <2>3, <2>4 DEF OrderInv
<1>11. ASSUME NEW c \in Call,
              \/ Begin(c) \/ Commit(c) \/ FindNobody(c) \/ CommitFails(c) \/ CommitUnheard(c)
              \/ Reload(c) \/ ReloadFails(c) \/ PublishDisabled(c) \/ Return(c)
              \/ Timeout(c) \/ Disconnect(c)
       PROVE  UNCHANGED <<queue, batch, log>>
  BY <1>11 DEF Begin, Commit, FindNobody, CommitFails, CommitUnheard, Reload, ReloadFails, PublishDisabled,
               Return, Timeout, Disconnect, writer
<1>12. ASSUME UNCHANGED vars PROVE UNCHANGED <<queue, batch, log>>
  BY <1>12 DEF vars, writer
<1> QED BY <1>5, <1>6, <1>7, <1>9, <1>10, <1>11, <1>12 DEF Next, Handle, Write, Over

(* If one request was answered before another began, its event comes first,   *)
(* even if it is sent after its handler has given up.                         *)
THEOREM Ordering == Spec => []EventsInOrder
<1>1. IInv /\ OrderInv /\ [Next]_vars => OrderInv'
  BY OrderStep
<1>2. OrderInv => EventsInOrder
  BY DEF OrderInv, EventsInOrder
<1> QED BY <1>1, <1>2, InitOrder, Invariance, PTL DEF Spec

-----------------------------------------------------------------------------
(* Publish implements EventLog: each step is one of its steps or a stutter.   *)

LEMMA SameOperators ==
  /\ \A s : Promise!ToSet(s) = ToSet(s)
  /\ \A s, t : IsPrefix(s, t) => Promise!IsPrefix(s, t)
  BY DEF ToSet, IsPrefix, Promise!ToSet, Promise!IsPrefix

LEMMA InitImplements == Init => Promise!Init
  BY DEF Init, Promise!Init

LEMMA StepImplements ==
  ASSUME IInv, [Next]_vars
  PROVE  [Promise!Next]_Promise!vars
<1> USE DEF IInv, TypeOK, Where, At, Goto, Answer, handlers, writer
<1>1. CASE UNCHANGED <<enabled, strict, committed, changed, log, reply>>
  BY <1>1 DEF Promise!vars
<1>2. ASSUME NEW c \in Call,
             \/ Begin(c) \/ Reload(c) \/ WriteMessages(c) \/ Disconnect(c)
      PROVE  UNCHANGED <<enabled, strict, committed, changed, log, reply>>
  BY <1>2 DEF Begin, Reload, WriteMessages, Disconnect
<1>3. CASE TakeBatch \/ GiveUp \/ UNCHANGED vars
  BY <1>1, <1>3 DEF TakeBatch, GiveUp, vars
<1>4. ASSUME NEW c \in Call, reply[c] = "none", c \notin committed,
             Accept(c), UNCHANGED <<enabled, strict, log, reply>>
      PROVE  Promise!Next
  BY <1>4 DEF Promise!Next, Promise!Commit, Accept
<1>5. ASSUME NEW S \in SUBSET Call, NEW r \in {"error", "lost"}, \A c \in S : reply[c] = "none",
             reply' = [c \in Call |-> IF c \in S THEN r ELSE reply[c]],
             UNCHANGED <<enabled, strict, committed, changed, log>>
      PROVE  Promise!Next
  BY <1>5 DEF Promise!Next, Promise!GiveNoAnswer
<1>6. ASSUME NEW c \in Call, reply[c] = "none", reply' = [reply EXCEPT ![c] = "error"],
             UNCHANGED <<enabled, strict, committed, changed, log>>
      PROVE  Promise!Next
  <2>1. reply' = [d \in Call |-> IF d \in {c} THEN "error" ELSE reply[d]]
    BY <1>6
  <2> QED BY <1>5, <1>6, <2>1
<1>7. ASSUME NEW c \in Call, reply[c] = "none",
             \/ c \in committed /\ (enabled /\ strict => c \in ToSet(log))
             \/ c \in MayBeIdle \ committed,
             reply' = [reply EXCEPT ![c] = "ok"],
             UNCHANGED <<enabled, strict, committed, changed, log>>
      PROVE  Promise!Next
  BY <1>7, SameOperators DEF Promise!Next, Promise!Succeed
<1>8. ASSUME log' = log \o batch, batch # <<>>, UNCHANGED <<enabled, strict, committed, changed, reply>>
      PROVE  Promise!Next
  <2>1. log # log' /\ IsPrefix(log, log')
    BY <1>8, Extends
  <2>2. ToSet(log') \subseteq committed
    <3>1. ToSet(log') = ToSet(log) \cup ToSet(batch)
      BY <1>8, SetOfConcat
    <3>2. ToSet(log') \subseteq Call
      BY TypeStep, LenProperties DEF ToSet
    <3> QED BY <3>1, <3>2 DEF Backed, Unsent, Pending
  <2> QED BY <1>8, <2>1, <2>2, SameOperators DEF Promise!Next, Promise!Emit
<1>9. ASSUME NEW c \in Call, Commit(c) PROVE Promise!Next
  BY <1>4, <1>9 DEF Commit, Progress
<1>18. ASSUME NEW c \in Call, FindNobody(c) PROVE Promise!Next
  <2>1. reply[c] = "none" /\ c \in MayBeIdle \ committed
    BY <1>18 DEF FindNobody, Progress
  <2>2. reply' = [reply EXCEPT ![c] = "ok"] /\ UNCHANGED <<enabled, strict, committed, changed, log>>
    BY <1>18 DEF FindNobody
  <2> QED BY <1>7, <2>1, <2>2
<1>10. ASSUME NEW c \in Call, CommitFails(c) PROVE Promise!Next
  BY <1>4, <1>6, <1>10 DEF CommitFails, Progress
<1>11. ASSUME NEW c \in Call, CommitUnheard(c) \/ ReloadFails(c) PROVE Promise!Next
  BY <1>6, <1>11 DEF CommitUnheard, ReloadFails, Progress
<1>12. ASSUME NEW c \in Call, PublishDisabled(c) PROVE Promise!Next
  BY <1>7, <1>12 DEF PublishDisabled, Progress
<1>13. ASSUME NEW c \in Call, Return(c) PROVE Promise!Next
  <2>1. /\ reply[c] = "none" /\ c \in committed /\ verdict[c] \in {"sent", "error"}
        /\ UNCHANGED <<enabled, strict, committed, changed, log>>
    BY <1>13 DEF Return, Progress
  <2>2. CASE verdict[c] = "sent"
    <3>1. reply' = [reply EXCEPT ![c] = "ok"] /\ c \in ToSet(log)
      BY <1>13, <2>2 DEF Return, Truthful
    <3> QED BY <1>7, <2>1, <3>1
  <2>3. CASE verdict[c] = "error" /\ strict
    <3>1. reply' = [reply EXCEPT ![c] = "error"]
      BY <1>13, <2>3 DEF Return, kafkaPublishError
    <3> QED BY <1>6, <2>1, <3>1
  <2>4. CASE verdict[c] = "error" /\ ~ strict
    <3>1. reply' = [reply EXCEPT ![c] = "ok"]
      BY <1>13, <2>4 DEF Return, kafkaPublishError
    <3> QED BY <1>7, <2>1, <2>4, <3>1
  <2> QED BY <2>1, <2>2, <2>3, <2>4
<1>14. ASSUME NEW c \in Call, Timeout(c) PROVE Promise!Next
  BY <1>6, <1>7, <1>14 DEF Timeout, kafkaPublishError, Progress
<1>15. CASE Acknowledged
  BY <1>8, <1>15 DEF Acknowledged
<1>16. CASE Unacknowledged
  BY <1>1, <1>8, <1>16 DEF Unacknowledged
<1>17. CASE Crash
  <2> DEFINE S == {c \in Call : InService(c)}
  <2>1. S \in SUBSET Call
    OBVIOUS
  <2>2. \A c \in S : reply[c] = "none"
    BY DEF InService, Progress
  <2>3. reply' = [c \in Call |-> IF c \in S THEN "lost" ELSE reply[c]]
    BY <1>17 DEF Crash
  <2>4. UNCHANGED <<enabled, strict, committed, changed, log>>
    BY <1>17 DEF Crash
  <2> HIDE DEF S
  <2> QED BY <1>5, <2>1, <2>2, <2>3, <2>4
<1> QED
  BY <1>1, <1>2, <1>3, <1>9, <1>10, <1>11, <1>12, <1>13, <1>14, <1>15, <1>16, <1>17, <1>18
  DEF Next, Handle, Write, Over

(* service-b keeps the promise about its events: none without an accepted     *)
(* write, none of a write that changed nothing except by the handlers that do *)
(* not look, and under KAFKA_STRICT no success without the event of what was  *)
(* written.                                                                   *)
THEOREM Implementation == Spec => KeepsPromise
<1>1. IInv /\ [Next]_vars => [Promise!Next]_Promise!vars
  BY StepImplements
<1> QED BY InitImplements, <1>1, Invariance, PTL DEF Spec, KeepsPromise, Promise!Spec

-----------------------------------------------------------------------------
(* What becomes of a message.  It is in the Writer once at most, it does not  *)
(* wait there once it has been sent or its handler has been told of it, and   *)
(* the topic holds as many copies of the batch as attempts were made on it.   *)

Once(s) == \A i, j \in DOMAIN s : s[i] = s[j] => i = j

Places(s, c) == {j \in DOMAIN s : s[j] = c}

MessagesInv ==
  /\ Once(queue) /\ Once(batch)
  /\ ToSet(queue) \cap (ToSet(batch) \cup ToSet(log)) = {}
  /\ \A c \in ToSet(batch) : Cardinality(Places(log, c)) <= attempts
  /\ \A c \in Call : verdict[c] # "none" => pc[c] = "wait" /\ ~ Pending(c)

(* What EveryRequestEnds has to rely on the timeout for is no lost message: a *)
(* handler that waits and was told nothing has its message in the Writer.     *)
WaitersPending == \A c \in Call : At(c, "wait") /\ verdict[c] = "none" => Pending(c)

(* The consumer may see an event again, but no more often than the Writer     *)
(* tries to send it.                                                          *)
DuplicatesBounded == \A c \in Call : Cardinality(Places(log, c)) <= MaxAttempts

LEMMA SplitOnce ==
  ASSUME NEW s \in Seq(Call), NEW n \in 1 .. Len(s)
  PROVE  LET t == SubSeq(s, 1, n)
             u == SubSeq(s, n + 1, Len(s))
         IN  /\ ToSet(t) \cup ToSet(u) = ToSet(s)
             /\ Once(s) => Once(t) /\ Once(u) /\ ToSet(t) \cap ToSet(u) = {}
<1> DEFINE t == SubSeq(s, 1, n)
           u == SubSeq(s, n + 1, Len(s))
<1>1. Len(s) \in Nat /\ DOMAIN s = 1 .. Len(s) /\ \A i \in 1 .. Len(s) : s[i] \in Call
  BY LenProperties
<1>2. DOMAIN t = 1 .. n /\ \A i \in 1 .. n : t[i] = s[i]
  <2>1. \A i \in 1 .. n : s[i] \in Call
    BY <1>1
  <2>2. t \in Seq(Call) /\ Len(t) = n /\ \A i \in 1 .. n : t[i] = s[1 + i - 1]
    BY <2>1, SubSeqProperties
  <2> QED BY <2>2, LenProperties
<1>3. /\ DOMAIN u = 1 .. Len(s) - n
      /\ \A i \in 1 .. Len(s) - n : u[i] = s[n + i] /\ n + i \in DOMAIN s
  BY <1>1, Suffix
<1> HIDE DEF t, u
<1>4. ToSet(t) \cup ToSet(u) \subseteq ToSet(s)
  BY <1>1, <1>2, <1>3 DEF ToSet
<1>5. ASSUME NEW i \in DOMAIN s PROVE s[i] \in ToSet(t) \cup ToSet(u)
  <2>1. CASE i <= n
    BY <1>1, <1>2, <2>1 DEF ToSet
  <2>2. CASE i > n
    <3>1. i - n \in DOMAIN u /\ u[i - n] = s[i]
      BY <1>1, <1>3, <2>2
    <3> QED BY <3>1 DEF ToSet
  <2> QED BY <1>1, <2>1, <2>2
<1>6. ToSet(t) \cup ToSet(u) = ToSet(s)
  BY <1>4, <1>5 DEF ToSet
<1>7. ASSUME Once(s) PROVE Once(t)
  BY <1>1, <1>2, <1>7 DEF Once
<1>8. ASSUME Once(s) PROVE Once(u)
  <2> SUFFICES ASSUME NEW k \in DOMAIN u, NEW l \in DOMAIN u, u[k] = u[l] PROVE k = l
    BY DEF Once
  <2>1. n + k = n + l
    BY <1>3, <1>8 DEF Once
  <2> QED BY <1>1, <1>3, <2>1
<1>9. ASSUME Once(s) PROVE ToSet(t) \cap ToSet(u) = {}
  <2> SUFFICES ASSUME NEW k \in DOMAIN t, NEW l \in DOMAIN u, t[k] = u[l] PROVE FALSE
    BY DEF ToSet
  <2>1. k \in DOMAIN s /\ n + l \in DOMAIN s /\ s[k] = s[n + l]
    BY <1>1, <1>2, <1>3
  <2>2. k = n + l
    BY <1>9, <2>1 DEF Once
  <2> QED BY <1>1, <1>2, <1>3, <2>2
<1> QED BY <1>6, <1>7, <1>8, <1>9 DEF t, u

LEMMA AppendOnce ==
  ASSUME NEW s \in Seq(Call), NEW e \in Call, Once(s), e \notin ToSet(s)
  PROVE  Once(Append(s, e))
<1> DEFINE t == Append(s, e)
<1>1. /\ DOMAIN t = 1 .. Len(s) + 1 /\ Len(s) \in Nat /\ DOMAIN s = 1 .. Len(s)
      /\ \A i \in 1 .. Len(s) : t[i] = s[i] /\ t[i] \in ToSet(s)
      /\ t[Len(s) + 1] = e
  BY DEF ToSet
<1> HIDE DEF t
<1> SUFFICES ASSUME NEW k \in 1 .. Len(s) + 1, NEW l \in 1 .. Len(s) + 1, t[k] = t[l]
             PROVE  k = l
  BY <1>1 DEF Once, t
<1>2. CASE k \in 1 .. Len(s) /\ l \in 1 .. Len(s)
  BY <1>1, <1>2 DEF Once
<1>3. CASE k = Len(s) + 1 \/ l = Len(s) + 1
  <2>1. t[k] = e /\ t[l] = e
    BY <1>1, <1>3
  <2>2. k \notin 1 .. Len(s) /\ l \notin 1 .. Len(s)
    BY <1>1, <2>1
  <2> QED BY <1>1, <2>2
<1> QED BY <1>1, <1>2, <1>3

LEMMA PlacesFinite ==
  ASSUME NEW s \in Seq(Call), NEW c \in Call
  PROVE  IsFiniteSet(Places(s, c)) /\ Cardinality(Places(s, c)) \in Nat
<1>1. DOMAIN s = 1 .. Len(s) /\ Len(s) \in Int /\ 1 \in Int
  BY LenProperties
<1>2. IsFiniteSet(1 .. Len(s))
  BY <1>1, FS_Interval
<1>3. Places(s, c) \in SUBSET (1 .. Len(s))
  BY <1>1 DEF Places
<1>4. IsFiniteSet(Places(s, c))
  BY <1>2, <1>3, FS_Subset
<1> QED BY <1>4, FS_CardinalityType

(* Sending a batch that holds a message once adds one copy of it, and none of *)
(* any other.                                                                 *)
LEMMA PlacesSent ==
  ASSUME NEW s \in Seq(Call), NEW t \in Seq(Call), Once(t), NEW c \in Call
  PROVE  /\ Cardinality(Places(s \o t, c)) <= Cardinality(Places(s, c)) + 1
         /\ c \notin ToSet(t) => Places(s \o t, c) = Places(s, c)
<1> DEFINE w == s \o t
<1>1. Len(s) \in Nat /\ Len(t) \in Nat /\ DOMAIN s = 1 .. Len(s) /\ DOMAIN t = 1 .. Len(t)
  BY LenProperties
<1>2. /\ DOMAIN w = 1 .. Len(s) + Len(t)
      /\ \A i \in 1 .. Len(s) + Len(t) :
           w[i] = IF i <= Len(s) THEN s[i] ELSE t[i - Len(s)]
  BY ConcatProperties, LenProperties
<1>3. w \in Seq(Call)
  BY ConcatProperties
<1> HIDE DEF w
<1>4. ASSUME NEW j \in Places(w, c), j \notin Places(s, c)
      PROVE  j - Len(s) \in DOMAIN t /\ t[j - Len(s)] = c
  BY <1>1, <1>2, <1>4 DEF Places
<1>5. Places(s, c) \subseteq Places(w, c)
  BY <1>1, <1>2 DEF Places
<1>6. CASE c \notin ToSet(t)
  <2>1. Places(w, c) = Places(s, c)
    BY <1>4, <1>5, <1>6 DEF ToSet
  <2> QED BY <2>1, PlacesFinite DEF w
<1>7. CASE c \in ToSet(t)
  <2>1. PICK k \in DOMAIN t : t[k] = c
    BY <1>7 DEF ToSet
  <2>2. PICK x : x = Len(s) + k
    OBVIOUS
  <2>3. Places(w, c) \subseteq Places(s, c) \cup {x}
    <3> SUFFICES ASSUME NEW j \in Places(w, c), j \notin Places(s, c) PROVE j = x
      OBVIOUS
    <3>1. j - Len(s) = k
      BY <1>4, <2>1 DEF Once
    <3>2. j \in Int
      BY <1>1, <1>2 DEF Places
    <3> QED BY <1>1, <2>1, <2>2, <3>1, <3>2
  <2>4. PICK P : P = Places(s, c)
    OBVIOUS
  <2>5. IsFiniteSet(P) /\ Cardinality(P) \in Nat
    BY <2>4, PlacesFinite
  <2>6. /\ IsFiniteSet(P \cup {x})
        /\ Cardinality(P \cup {x}) = IF x \in P THEN Cardinality(P) ELSE Cardinality(P) + 1
    BY <2>5, FS_AddElement
  <2>7. Cardinality(Places(w, c)) <= Cardinality(P \cup {x})
    <3>1. Places(w, c) \in SUBSET (P \cup {x})
      BY <2>3, <2>4
    <3> QED BY <2>6, <3>1, FS_Subset
  <2>8. Cardinality(Places(w, c)) \in Nat
    BY <1>3, PlacesFinite
  <2>9. Cardinality(P \cup {x}) <= Cardinality(P) + 1 /\ Cardinality(P \cup {x}) \in Nat
    BY <2>5, <2>6
  <2> QED BY <1>7, <2>4, <2>5, <2>7, <2>8, <2>9 DEF w
<1> QED BY <1>6, <1>7

LEMMA NowhereAtFirst == ASSUME NEW c \in Call PROVE Places(<<>>, c) = {}
  BY DEF Places

LEMMA InitMessages == Init => MessagesInv /\ WaitersPending /\ DuplicatesBounded
<1> SUFFICES ASSUME Init PROVE MessagesInv /\ WaitersPending /\ DuplicatesBounded
  OBVIOUS
<1>1. MessagesInv
  BY SetOfEmpty DEF Init, MessagesInv, Once
<1>2. WaitersPending
  BY DEF Init, WaitersPending, At
<1>3. DuplicatesBounded
  <2> SUFFICES ASSUME NEW c \in Call PROVE Cardinality(Places(log, c)) <= MaxAttempts
    BY DEF DuplicatesBounded
  <2>1. Places(log, c) = {}
    BY NowhereAtFirst DEF Init
  <2> QED BY <2>1, FS_EmptySet, PublishAssumption
<1> QED BY <1>1, <1>2, <1>3

\* a step of a handler that does not write a message leaves the Writer alone
LEMMA HandlersAside ==
  ASSUME TypeOK, MessagesInv, NEW c \in Call,
         \/ Begin(c) \/ Commit(c) \/ FindNobody(c) \/ CommitFails(c) \/ CommitUnheard(c)
         \/ Reload(c) \/ ReloadFails(c) \/ PublishDisabled(c) \/ Return(c)
         \/ Timeout(c) \/ Disconnect(c)
  PROVE  /\ UNCHANGED <<queue, batch, attempts, log>>
         /\ \A d \in Call : verdict'[d] # "none" => verdict'[d] = verdict[d] /\ pc'[d] = pc[d]
         /\ \A d \in Call : pc'[d] = "wait" => pc[d] = "wait" /\ verdict'[d] = verdict[d]
<1> USE DEF TypeOK, Where, At, Goto, Answer, handlers, writer, MessagesInv
<1>1. CASE Return(c)
  BY <1>1 DEF Return
<1>2. CASE Begin(c) \/ Commit(c) \/ FindNobody(c) \/ Reload(c) \/ Disconnect(c)
  BY <1>2 DEF Begin, Commit, FindNobody, Reload, Disconnect
<1>3. CASE CommitFails(c) \/ CommitUnheard(c) \/ ReloadFails(c)
  BY <1>3 DEF CommitFails, CommitUnheard, ReloadFails
<1>4. CASE PublishDisabled(c) \/ Timeout(c)
  BY <1>4 DEF PublishDisabled, Timeout
<1> QED BY <1>1, <1>2, <1>3, <1>4

LEMMA MessagesStep ==
  ASSUME IInv, MessagesInv, WaitersPending, DuplicatesBounded, [Next]_vars
  PROVE  MessagesInv' /\ WaitersPending' /\ DuplicatesBounded'
<1>1. TypeOK /\ TypeOK' /\ MaxAttempts \in Nat \ {0}
  BY TypeStep, PublishAssumption DEF IInv
<1>2. /\ ToSet(queue) \subseteq Call /\ ToSet(batch) \subseteq Call
      /\ pc \in [Call -> Where] /\ attempts \in 0 .. MaxAttempts
      /\ queue \in Seq(Call) /\ batch \in Seq(Call) /\ log \in Seq(Call)
  BY <1>1, LenProperties DEF TypeOK, ToSet
<1>3. ASSUME UNCHANGED <<queue, batch, attempts, log>>,
             \A d \in Call : verdict'[d] # "none" => verdict'[d] = verdict[d] /\ pc'[d] = pc[d],
             \A d \in Call : pc'[d] = "wait" => pc[d] = "wait" /\ verdict'[d] = verdict[d]
      PROVE  MessagesInv' /\ WaitersPending' /\ DuplicatesBounded'
  <2>1. MessagesInv'
    BY <1>3 DEF MessagesInv, Once, Pending
  <2>2. WaitersPending'
    BY <1>3 DEF WaitersPending, At, Pending
  <2>3. DuplicatesBounded'
    BY <1>3 DEF DuplicatesBounded
  <2> QED BY <2>1, <2>2, <2>3
<1>4. ASSUME NEW c \in Call,
             \/ Begin(c) \/ Commit(c) \/ FindNobody(c) \/ CommitFails(c) \/ CommitUnheard(c)
             \/ Reload(c) \/ ReloadFails(c) \/ PublishDisabled(c) \/ Return(c)
             \/ Timeout(c) \/ Disconnect(c)
      PROVE  MessagesInv' /\ WaitersPending' /\ DuplicatesBounded'
  BY <1>1, <1>3, <1>4, HandlersAside
<1>5. CASE UNCHANGED vars
  <2>1. UNCHANGED <<queue, batch, attempts, log, verdict, pc>>
    BY <1>5 DEF vars, writer, handlers
  <2> QED BY <1>3, <2>1
<1>6. ASSUME NEW c \in Call, WriteMessages(c)
      PROVE  MessagesInv' /\ WaitersPending' /\ DuplicatesBounded'
  <2>1. /\ queue' = Append(queue, c) /\ UNCHANGED <<batch, attempts, log, verdict>>
        /\ pc[c] = "publish" /\ pc' = [pc EXCEPT ![c] = "wait"]
    BY <1>6 DEF WriteMessages, At, Goto
  <2>2. c \notin ToSet(queue) \cup ToSet(batch) \cup ToSet(log)
    BY <2>1 DEF IInv, Progress, Unsent, Pending
  <2>3. ToSet(queue') = ToSet(queue) \cup {c}
    BY <1>2, <2>1, SetOfAppend
  <2>4. Once(queue')
    BY <1>2, <2>1, <2>2, AppendOnce DEF MessagesInv
  <2>5. verdict[c] = "none"
    BY <1>6, <2>1 DEF MessagesInv
  <2>6. MessagesInv'
    BY <2>1, <2>2, <2>3, <2>4, <2>5 DEF MessagesInv, Once, Pending
  <2>7. WaitersPending'
    BY <1>2, <2>1, <2>3 DEF WaitersPending, At, Pending
  <2>8. DuplicatesBounded'
    BY <2>1 DEF DuplicatesBounded
  <2> QED BY <2>6, <2>7, <2>8
<1>7. CASE TakeBatch
  <2>1. PICK n \in 1 .. Len(queue) : /\ batch' = SubSeq(queue, 1, n)
                                     /\ queue' = SubSeq(queue, n + 1, Len(queue))
    BY <1>7 DEF TakeBatch
  <2>2. UNCHANGED <<pc, attempts, log, verdict>> /\ batch = <<>>
    BY <1>7 DEF TakeBatch, handlers
  <2>3. /\ ToSet(batch') \cup ToSet(queue') = ToSet(queue)
        /\ Once(batch') /\ Once(queue') /\ ToSet(batch') \cap ToSet(queue') = {}
    BY <1>2, <2>1, SplitOnce DEF MessagesInv
  <2>4. ASSUME NEW c \in ToSet(batch') PROVE Cardinality(Places(log, c)) <= attempts
    <3>1. c \notin ToSet(log)
      BY <2>3 DEF MessagesInv
    <3>2. Places(log, c) = {}
      BY <3>1 DEF Places, ToSet
    <3> QED BY <1>2, <3>2, FS_EmptySet
  <2>5. ToSet(batch) = {}
    BY <2>2, SetOfEmpty
  <2>6. MessagesInv'
    BY <2>2, <2>3, <2>4, <2>5 DEF MessagesInv, Once, Pending
  <2>7. WaitersPending'
    BY <2>2, <2>3, <2>5 DEF WaitersPending, At, Pending
  <2>8. DuplicatesBounded'
    BY <2>2 DEF DuplicatesBounded
  <2> QED BY <2>6, <2>7, <2>8
\* what an attempt, heard of or not, adds to the topic
<1>8. ASSUME log' = log \/ log' = log \o batch, attempts < MaxAttempts
      PROVE  /\ \A c \in ToSet(batch) : Cardinality(Places(log', c)) <= attempts + 1
             /\ DuplicatesBounded'
             /\ ToSet(queue) \cap ToSet(log') = {}
  <2>1. ASSUME NEW c \in Call
        PROVE  Cardinality(Places(log', c)) <=
                 IF c \in ToSet(batch) THEN attempts + 1 ELSE MaxAttempts
    <3>1. Cardinality(Places(log, c)) \in Nat /\ Cardinality(Places(log', c)) \in Nat
      BY <1>1, PlacesFinite DEF TypeOK
    <3>2. c \in ToSet(batch) => Cardinality(Places(log, c)) <= attempts
      BY DEF MessagesInv
    <3>3. Cardinality(Places(log, c)) <= MaxAttempts
      BY DEF DuplicatesBounded
    <3>4. Cardinality(Places(log', c)) <= Cardinality(Places(log, c)) + 1
      BY <1>2, <1>8, <3>1, PlacesSent DEF MessagesInv
    <3>5. c \notin ToSet(batch) => Cardinality(Places(log', c)) = Cardinality(Places(log, c))
      <4>1. c \notin ToSet(batch) => Places(log \o batch, c) = Places(log, c)
        BY <1>2, PlacesSent DEF MessagesInv
      <4> QED BY <1>8, <4>1
    <3> QED BY <1>2, <3>1, <3>2, <3>3, <3>4, <3>5
  <2>2. DuplicatesBounded'
    <3> SUFFICES ASSUME NEW c \in Call PROVE Cardinality(Places(log', c)) <= MaxAttempts
      BY DEF DuplicatesBounded
    <3>1. Cardinality(Places(log', c)) \in Nat
      BY <1>1, PlacesFinite DEF TypeOK
    <3> QED BY <1>1, <1>2, <1>8, <2>1, <3>1
  <2>3. ToSet(queue) \cap ToSet(log') = {}
    <3>1. ToSet(log \o batch) = ToSet(log) \cup ToSet(batch)
      BY <1>2, SetOfConcat
    <3> QED BY <1>8, <3>1 DEF MessagesInv
  <2> QED BY <1>2, <2>1, <2>2, <2>3
<1>9. CASE Unacknowledged
  <2>1. /\ attempts' = attempts + 1 /\ attempts < MaxAttempts
        /\ log' = log \/ log' = log \o batch
        /\ UNCHANGED <<queue, batch, verdict, pc>>
    BY <1>9 DEF Unacknowledged, handlers
  <2>2. MessagesInv'
    BY <1>8, <2>1 DEF MessagesInv, Once, Pending
  <2>3. WaitersPending'
    BY <2>1 DEF WaitersPending, At, Pending
  <2> QED BY <1>8, <2>1, <2>2, <2>3
\* the batch is done with, and those who wait for it are told
<1>10. ASSUME NEW what \in {"sent", "error"}, Tell(what), batch' = <<>>, UNCHANGED <<queue, pc>>,
              ToSet(queue) \cap ToSet(log') = {}
       PROVE  MessagesInv' /\ WaitersPending'
  <2>1. ToSet(batch') = {}
    BY <1>10, SetOfEmpty
  <2>2. ASSUME NEW d \in Call
        PROVE  verdict'[d] = IF d \in ToSet(batch) /\ pc[d] = "wait" THEN what ELSE verdict[d]
    BY <1>10 DEF Tell, At
  <2>3. \A d \in Call : verdict'[d] # "none" => pc[d] = "wait" /\ d \notin ToSet(queue)
    BY <2>2 DEF MessagesInv, Pending
  <2>4. Once(queue') /\ Once(batch')
    BY <1>10 DEF MessagesInv, Once
  <2>6. \A d \in Call : verdict'[d] # "none" => pc'[d] = "wait" /\ ~ Pending(d)'
    BY <1>10, <2>1, <2>3 DEF Pending
  <2>7. MessagesInv'
    BY <1>10, <2>1, <2>4, <2>6 DEF MessagesInv
  <2>5. WaitersPending'
    BY <1>10, <2>2 DEF WaitersPending, At, Pending
  <2> QED BY <2>5, <2>7
<1>11. CASE Acknowledged
  <2>1. /\ attempts < MaxAttempts /\ log' = log \o batch /\ Tell("sent") /\ batch' = <<>>
        /\ UNCHANGED <<queue, pc>>
    BY <1>11 DEF Acknowledged, handlers
  <2> QED BY <1>8, <1>10, <2>1
<1>12. CASE GiveUp
  <2>1. Tell("error") /\ batch' = <<>> /\ UNCHANGED <<queue, pc, log>>
    BY <1>12 DEF GiveUp, handlers
  <2>2. ToSet(queue) \cap ToSet(log') = {}
    BY <2>1 DEF MessagesInv
  <2>3. DuplicatesBounded'
    BY <2>1 DEF DuplicatesBounded
  <2> QED BY <1>10, <2>1, <2>2, <2>3
<1>13. CASE Crash
  <2>1. /\ queue' = <<>> /\ batch' = <<>> /\ log' = log /\ verdict' = [c \in Call |-> "none"]
        /\ pc' = [c \in Call |-> IF InService(c) THEN "done" ELSE pc[c]]
    BY <1>13 DEF Crash
  <2>2. MessagesInv'
    BY <2>1, SetOfEmpty DEF MessagesInv, Once
  <2>3. WaitersPending'
    BY <2>1 DEF WaitersPending, At, InService
  <2>4. DuplicatesBounded'
    BY <2>1 DEF DuplicatesBounded
  <2> QED BY <2>2, <2>3, <2>4
<1> QED
  BY <1>4, <1>5, <1>6, <1>7, <1>9, <1>11, <1>12, <1>13 DEF Next, Handle, Write, Over

LEMMA MessagesInvariance == Spec => [](MessagesInv /\ WaitersPending /\ DuplicatesBounded)
<1>1. /\ IInv /\ MessagesInv /\ WaitersPending /\ DuplicatesBounded /\ [Next]_vars
      => (MessagesInv /\ WaitersPending /\ DuplicatesBounded)'
  BY MessagesStep
<1> QED BY <1>1, InitMessages, Invariance, PTL DEF Spec

(* A handler waits only for what the Writer still has: it never sits out its  *)
(* timeout for a message that is gone.                                        *)
THEOREM NobodyWaitsInVain == Spec => []WaitersPending
  BY MessagesInvariance, PTL

(* An event is in the topic at most as often as the Writer tries to send a    *)
(* batch: after a timeout, an error or a crash nothing writes it anew.        *)
THEOREM DuplicatesAreBounded == Spec => []DuplicatesBounded
  BY MessagesInvariance, PTL

-----------------------------------------------------------------------------
(* What the promise comes to in a state, from the steps of EventLog alone; so *)
(* it holds of whatever implements EventLog, and of Publish.                  *)
EventsTrue ==
  /\ ToSet(log) \subseteq committed
  /\ changed \subseteq committed /\ committed \ MayMiss \subseteq changed
  /\ \A c \in Call : reply[c] = "ok" =>
       \/ c \in committed /\ (enabled /\ strict => c \in ToSet(log))
       \/ c \in MayBeIdle \ committed

LEMMA PrefixSet ==
  ASSUME NEW s \in Seq(Call), NEW t \in Seq(Call), IsPrefix(s, t)
  PROVE  ToSet(s) \subseteq ToSet(t)
<1> SUFFICES ASSUME NEW i \in DOMAIN s PROVE s[i] \in ToSet(t)
  BY DEF ToSet
<1>1. Len(s) \in Nat /\ Len(t) \in Nat /\ Len(s) <= Len(t) /\ i \in 1 .. Len(s)
  BY LenProperties DEF IsPrefix
<1>2. i \in DOMAIN t
  BY <1>1, LenProperties
<1>3. s[i] = SubSeq(s, 1, Len(s))[i] /\ t[i] = SubSeq(t, 1, Len(s))[i]
  <2>1. \A j \in 1 .. Len(s) : s[j] \in Call /\ t[j] \in Call
    BY <1>1, LenProperties
  <2>2. SubSeq(s, 1, Len(s))[i] = s[1 + i - 1]
    BY <1>1, <2>1, SubSeqProperties
  <2>3. SubSeq(t, 1, Len(s))[i] = t[1 + i - 1]
    BY <1>1, <2>1, SubSeqProperties
  <2> QED BY <1>1, <2>2, <2>3
<1> QED BY <1>2, <1>3 DEF IsPrefix, ToSet

LEMMA PromiseStep ==
  ASSUME TypeOK, TypeOK', EventsTrue, [Promise!Next]_Promise!vars
  PROVE  EventsTrue'
<1> USE DEF EventsTrue
<1>1. reply \in [Call -> {"none", "ok", "error", "lost"}] /\ log \in Seq(Call) /\ log' \in Seq(Call)
  BY DEF TypeOK
<1>2. CASE UNCHANGED Promise!vars
  BY <1>2 DEF Promise!vars
<1>3. ASSUME NEW c \in Call, Promise!Commit(c) PROVE EventsTrue'
  BY <1>3 DEF Promise!Commit
<1>4. ASSUME NEW c \in Call, Promise!Succeed(c) PROVE EventsTrue'
  <2>1. /\ \/ c \in committed /\ (enabled /\ strict => c \in ToSet(log))
           \/ c \in MayBeIdle \ committed
        /\ reply' = [reply EXCEPT ![c] = "ok"]
        /\ ((enabled /\ strict)' <=> (enabled /\ strict))
        /\ UNCHANGED <<committed, changed, log>>
    BY <1>4, SameOperators DEF Promise!Succeed
  <2> QED BY <1>1, <2>1
<1>5. CASE Promise!Emit
  <2>1. /\ IsPrefix(log, log') /\ ToSet(log') \subseteq committed
        /\ ((enabled /\ strict)' <=> (enabled /\ strict))
        /\ UNCHANGED <<committed, changed, reply>>
    BY <1>5 DEF Promise!Emit, Promise!IsPrefix, Promise!ToSet, IsPrefix, ToSet
  <2>2. ToSet(log) \subseteq ToSet(log')
    BY <1>1, <2>1, PrefixSet
  <2> QED BY <2>1, <2>2
<1>6. ASSUME NEW S \in SUBSET Call, NEW r \in {"error", "lost"}, Promise!GiveNoAnswer(S, r)
      PROVE  EventsTrue'
  <2>1. /\ reply' = [c \in Call |-> IF c \in S THEN r ELSE reply[c]]
        /\ ((enabled /\ strict)' <=> (enabled /\ strict))
        /\ UNCHANGED <<committed, changed, log>>
    BY <1>6 DEF Promise!GiveNoAnswer
  <2> QED BY <1>1, <2>1
<1> QED BY <1>2, <1>3, <1>4, <1>5, <1>6 DEF Promise!Next

(* The topic announces only writes the database accepted, and each of them    *)
(* changed a row except those of the handlers that do not look.  A request    *)
(* answered with success has its write accepted and, under KAFKA_STRICT, its  *)
(* event in the topic, or it is the one that found nothing to write.          *)
THEOREM EventsAreTrue == Spec => []EventsTrue
<1>1. Init => EventsTrue
  BY SetOfEmpty DEF Init, EventsTrue
<1>2. TypeOK /\ TypeOK' /\ EventsTrue /\ [Promise!Next]_Promise!vars => EventsTrue'
  BY PromiseStep
<1>3. Spec => [][Promise!Next]_Promise!vars
  BY Implementation, PTL DEF KeepsPromise, Promise!Spec
<1> QED BY <1>1, <1>2, <1>3, TypeCorrect, PTL DEF Spec
=============================================================================
