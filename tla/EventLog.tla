------------------------------ MODULE EventLog ------------------------------
(***************************************************************************)
(* What service-b promises about its domain events, whatever fails.  An    *)
(* event is in the topic only after the database accepted the write it     *)
(* announces, any number of times; that write changed a row, unless the    *)
(* handler is one of those that do not look whether it did.  Where         *)
(* KAFKA_STRICT is 1 a request that wrote is answered with success only    *)
(* after its event is in the topic.  Module Publish implements this.       *)
(***************************************************************************)
EXTENDS Sequences, SequencesExt

CONSTANTS
  Call,
  MayMiss,    \* the requests whose write may hit no row, and count as done
  MayBeIdle   \* the requests that may succeed with nothing to write

VARIABLES
  strict,     \* publishing is enabled, and KAFKA_STRICT is 1
  committed,  \* the requests whose write the database accepted
  changed,    \* those whose write changed a row
  log,        \* the topic: the requests whose events it holds, in order
  reply       \* what each request was answered

vars == <<strict, committed, changed, log, reply>>

Init ==
  /\ strict \in BOOLEAN
  /\ committed = {} /\ changed = {}
  /\ log = <<>>
  /\ reply = [c \in Call |-> "none"]

Commit(c) ==
  /\ reply[c] = "none" /\ c \notin committed
  /\ committed' = committed \cup {c}
  /\ \/ changed' = changed \cup {c}
     \/ c \in MayMiss /\ UNCHANGED changed
  /\ UNCHANGED <<strict, log, reply>>

\* events come in batches
Emit ==
  /\ log # log' /\ IsPrefix(log, log')
  /\ ToSet(log') \subseteq committed
  /\ UNCHANGED <<strict, committed, changed, reply>>

Succeed(c) ==
  /\ reply[c] = "none"
  /\ \/ c \in committed /\ (strict => c \in ToSet(log))
     \/ c \in MayBeIdle \ committed
  /\ reply' = [reply EXCEPT ![c] = "ok"]
  /\ UNCHANGED <<strict, committed, changed, log>>

\* an error, or a crash that leaves requests unanswered, says nothing of either
GiveNoAnswer(S, r) ==
  /\ \A c \in S : reply[c] = "none"
  /\ reply' = [c \in Call |-> IF c \in S THEN r ELSE reply[c]]
  /\ UNCHANGED <<strict, committed, changed, log>>

Next ==
  \/ \E c \in Call : Commit(c) \/ Succeed(c)
  \/ Emit
  \/ \E S \in SUBSET Call, r \in {"error", "lost"} : GiveNoAnswer(S, r)

Spec == Init /\ [][Next]_vars
=============================================================================
