------------------------------ MODULE AutoSend ------------------------------
(***************************************************************************)
(* Auto-sent replies: OutreachConsumer and OutreachOrchestrator            *)
(* (tiers/tier_2/outreach_orchestrator) with the Copywriter they delegate  *)
(* to.                                                                     *)
(*                                                                         *)
(* A reply task makes the orchestrator ask the Copywriter for a text and   *)
(* store the routing context of that request in the hash                   *)
(* {tenant}:outreach:auto_send.  The consumer also reads the Copywriter's  *)
(* results: a result whose context is in the hash is turned into a         *)
(* sequencing request, which sends the email.  Every harness attempt and   *)
(* every redelivery of the reply task makes a new request with a new id.   *)
(*                                                                         *)
(* One XREADGROUP reads at most one entry of each of the two streams here  *)
(* (count = 1).                                                            *)
(***************************************************************************)
EXTENDS Naturals, Sequences, FiniteSets

CONSTANTS
  Worker,          \* the outreach consumer processes, which are also the consumer names
  NumReplies,      \* number of reply tasks
  Bodiless,        \* the requests that the Copywriter answers without a body
  HarnessRetries,  \* HarnessConfig.max_retries of the outreach harness
  MaxRetries,      \* DLQ_MAX_RETRIES
  MaxCopies,       \* bound: copywriter requests
  MaxAnswers,      \* bound: answers of the Copywriter to one request
  MaxMishaps,      \* bound: [Booking -> Nat], Redis calls that raise, SIGTERMs, crashes
                   \* and repeated answers together, by the booking of each reply
  NoOne            \* owner of an entry that is not in a pending list

(* The time of an "unparsable" booking is not in ISO format.               *)
Booking == {"none", "sound", "unparsable"}

Reply == 1 .. NumReplies
Copy == 1 .. MaxCopies
None == 0

ASSUME AutoSendAssumption ==
  /\ IsFiniteSet(Worker) /\ NoOne \notin Worker
  /\ NumReplies \in Nat /\ HarnessRetries \in Nat /\ MaxCopies \in Nat /\ MaxAnswers \in Nat
  /\ Bodiless \subseteq Copy
  /\ MaxMishaps \in [Booking -> Nat]
  /\ MaxRetries \in Nat /\ MaxRetries >= 2

VARIABLES
  booking,       \* [Reply -> Booking]: the booking a reply task delegates with the text
  tail, cursor,  \* the reply task stream and its group's last-delivered-id
  owner,         \* [Reply -> Worker or NoOne]: pending reply tasks
  count,         \* [Reply -> 0 .. MaxRetries]: times_delivered, saturating
  requests,      \* Seq(Reply): the copywriter task stream; request c is for reply requests[c]
  context,       \* SUBSET Copy: the ids in the auto_send hash
  registered,    \* SUBSET Copy: the ids that ever were in it
  answers,       \* Seq(Copy): the undelivered entries of the copywriter result stream
  answered,      \* [Copy -> 0 .. MaxAnswers]: the answers given to a request
  missed,        \* SUBSET Copy: the ids whose answer found no context
  sends,         \* [Copy -> Nat]: sequencing requests enqueued
  pc,            \* [Worker -> Location]
  reply,         \* [Worker -> Reply or None]: the reply task being handled
  answer,        \* [Worker -> Copy or None]: the answer read with it
  copy,          \* [Worker -> Nat]: the id delegate_to_copywriter just returned, or None
  tries,         \* [Worker -> Nat]: harness attempts so far
  refusals,      \* [Reply -> 0 .. MaxRetries]: deliveries the quota refused, saturating
  faults, stops, crashes, repeats

tasks == <<booking, tail, cursor, owner, count>>
texts == <<requests, answers, answered>>
local == <<reply, answer, copy, tries>>
budget == <<stops, crashes, repeats>>
vars == <<tasks, texts, context, registered, missed, sends, pc, local, refusals, faults, budget>>

TaskStep == {"enqueue", "register", "booking", "publish", "ack", "failed", "deadLetter", "ackDead"}
AnswerStep == {"lookup", "send", "report", "forget", "ackAnswer", "ackError"}
Location == {"down", "idle", "history"} \cup TaskStep \cup AnswerStep

Init ==
  /\ booking \in [Reply -> Booking]
  /\ tail = 0 /\ cursor = 0
  /\ owner = [r \in Reply |-> NoOne]
  /\ count = [r \in Reply |-> 0]
  /\ requests = <<>> /\ answers = <<>> /\ answered = [c \in Copy |-> 0]
  /\ context = {} /\ registered = {} /\ missed = {}
  /\ sends = [c \in Copy |-> 0]
  /\ pc = [w \in Worker |-> "idle"]
  /\ reply = [w \in Worker |-> None]
  /\ answer = [w \in Worker |-> None]
  /\ copy = [w \in Worker |-> None]
  /\ tries = [w \in Worker |-> 0]
  /\ refusals = [r \in Reply |-> 0]
  /\ faults = 0 /\ stops = 0 /\ crashes = 0 /\ repeats = 0

-----------------------------------------------------------------------------
Call == {"ok", "lost", "torn"}
Applied(call) == call # "lost"

Mishap == \A r \in Reply : faults + stops + crashes + repeats < MaxMishaps[booking[r]]
Charge(call) ==
  IF call = "ok" THEN UNCHANGED faults ELSE Mishap /\ faults' = faults + 1

Goto(w, location) == pc' = [pc EXCEPT ![w] = location]

CountUp(n) == IF n < MaxRetries THEN n + 1 ELSE n

(* The loop goes on with the answer it read along with a reply task.       *)
EndTask(w) ==
  /\ Goto(w, IF answer[w] # None THEN "lookup" ELSE "idle")
  /\ reply' = [reply EXCEPT ![w] = None]
  /\ copy' = [copy EXCEPT ![w] = None]
  /\ UNCHANGED <<answer, tries>>

EndAnswer(w) ==
  /\ Goto(w, "idle")
  /\ answer' = [answer EXCEPT ![w] = None]
  /\ UNCHANGED <<reply, copy, tries>>

(* An attempt raised: the harness makes another or gives up.               *)
FailAttempt(w) ==
  /\ copy' = [copy EXCEPT ![w] = None]
  /\ IF tries[w] < HarnessRetries
     THEN tries' = [tries EXCEPT ![w] = @ + 1] /\ Goto(w, "enqueue")
     ELSE UNCHANGED tries /\ Goto(w, "failed")
  /\ UNCHANGED <<reply, answer>>

Remove(r, call) ==
  owner' = IF Applied(call) THEN [owner EXCEPT ![r] = NoOne] ELSE owner

-----------------------------------------------------------------------------
(* The Manager chains a reply packet to the outbound task stream.          *)
Submit ==
  /\ tail < NumReplies
  /\ tail' = tail + 1
  /\ UNCHANGED <<booking, cursor, owner, count, texts, context, registered, missed, sends, pc, local,
                 refusals, faults, budget>>

(* External: the Copywriter answers a request, perhaps more than once.     *)
AnswerRequest(c) ==
  /\ c <= Len(requests)
  /\ answered[c] < MaxAnswers
  /\ answered' = [answered EXCEPT ![c] = @ + 1]
  /\ answers' = Append(answers, c)
  /\ IF answered[c] = 0 THEN UNCHANGED repeats ELSE Mishap /\ repeats' = repeats + 1
  /\ UNCHANGED <<tasks, requests, context, registered, missed, sends, pc, local, refusals, faults,
                 stops, crashes>>

(* w begins with reply r (or None) and the answer to request c (or None).  *)
Begin(w, r, c) ==
  /\ Goto(w, IF r # None THEN "enqueue" ELSE IF c # None THEN "lookup" ELSE "idle")
  /\ reply' = [reply EXCEPT ![w] = r]
  /\ answer' = [answer EXCEPT ![w] = c]
  /\ tries' = [tries EXCEPT ![w] = 0]
  /\ UNCHANGED copy

DeliverReply(w, r) ==
  /\ owner' = [owner EXCEPT ![r] = w]
  /\ count' = [count EXCEPT ![r] = CountUp(@)]

(* run: XREADGROUP with ">" on both streams, or fall through.  The pending *)
(* entries of the result stream are never read again, so its pending list  *)
(* is left out.                                                            *)
ReadNew(w) ==
  /\ pc[w] = "idle"
  /\ IF cursor = tail /\ answers = <<>>
     THEN Goto(w, "history") /\ UNCHANGED <<cursor, owner, count, answers, local, faults>>
     ELSE \E call \in Call :
            LET r == IF cursor < tail THEN cursor + 1 ELSE None
                c == IF answers # <<>> THEN Head(answers) ELSE None
            IN  /\ Charge(call)
                /\ IF Applied(call) /\ r # None
                   THEN DeliverReply(w, r) /\ cursor' = r
                   ELSE UNCHANGED <<cursor, owner, count>>
                /\ answers' = IF Applied(call) /\ c # None THEN Tail(answers) ELSE answers
                /\ IF call = "ok" THEN Begin(w, r, c) ELSE Begin(w, None, None)
  /\ UNCHANGED <<booking, tail, requests, answered, context, registered, missed, sends, refusals, budget>>

(* run: re-read the oldest pending reply task of this consumer.            *)
BacklogOfAll(w) == {r \in Reply : owner[r] # NoOne}
Backlog(w) == {r \in Reply : owner[r] = w}
ReadHistory(w) ==
  /\ pc[w] = "history"
  /\ \/ \E r \in Backlog(w), call \in Call :
          /\ \A q \in Backlog(w) : r <= q
          /\ Charge(call)
          /\ IF Applied(call) THEN DeliverReply(w, r) ELSE UNCHANGED <<owner, count>>
          /\ Begin(w, IF call = "ok" THEN r ELSE None, None)
     \/ Backlog(w) = {} /\ Begin(w, None, None) /\ UNCHANGED <<owner, count, faults>>
  /\ UNCHANGED <<booking, tail, cursor, texts, context, registered, missed, sends, refusals, budget>>

(* The harness asks its token bucket in Redis before the first attempt     *)
(* (a Redis call that raises grants the execution).  Every other outreach  *)
(* task draws from the bucket too, and it is refilled by the hour: it may  *)
(* be empty at any time, and for any length of time.                       *)
Refuse(w) ==
  /\ pc[w] = "enqueue" /\ tries[w] = 0
  /\ refusals' = [refusals EXCEPT ![reply[w]] = CountUp(@)]
  /\ Goto(w, "failed")
  /\ UNCHANGED <<tasks, texts, context, registered, missed, sends, local, faults, budget>>

(* _enqueue_copywriter: XADD of a request with a new id.                   *)
EnqueueCopywriter(w) ==
  /\ pc[w] = "enqueue"
  /\ \E call \in Call :
       /\ Charge(call)
       /\ IF Applied(call)
          THEN Len(requests) < MaxCopies /\ requests' = Append(requests, reply[w])
          ELSE UNCHANGED requests
       /\ IF call = "ok"
          THEN /\ copy' = [copy EXCEPT ![w] = Len(requests) + 1]
               /\ Goto(w, "register")
               /\ UNCHANGED <<reply, answer, tries>>
          ELSE FailAttempt(w)
  /\ UNCHANGED <<tasks, answers, answered, context, registered, missed, sends, refusals, budget>>

(* _register_auto_send: HSET of the context; its exceptions are swallowed. *)
RegisterUnbooked(w) ==
  /\ pc[w] = "register"
  /\ \E call \in Call :
       /\ Charge(call)
       /\ IF Applied(call) /\ booking[reply[w]] = "none"
          THEN context' = context \cup {copy[w]} /\ registered' = registered \cup {copy[w]}
          ELSE UNCHANGED <<context, registered>>
  /\ Goto(w, IF booking[reply[w]] # "none" THEN "booking" ELSE "publish")
  /\ UNCHANGED <<tasks, texts, missed, sends, local, refusals, budget>>
RegisterAutoSend(w) ==
  /\ pc[w] = "register"
  /\ \E call \in Call :
       /\ Charge(call)
       /\ IF Applied(call)
          THEN context' = context \cup {copy[w]} /\ registered' = registered \cup {copy[w]}
          ELSE UNCHANGED <<context, registered>>
  /\ Goto(w, IF booking[reply[w]] # "none" THEN "booking" ELSE "publish")
  /\ UNCHANGED <<tasks, texts, missed, sends, local, refusals, budget>>

(* _enqueue_scheduler: fromisoformat or XADD may raise, after the copy was *)
(* requested and its context stored.                                       *)
EnqueueScheduler(w) ==
  /\ pc[w] = "booking"
  /\ \/ booking[reply[w]] = "unparsable" /\ FailAttempt(w) /\ UNCHANGED faults
     \/ /\ booking[reply[w]] = "sound"
        /\ \E call \in Call :
             /\ Charge(call)
             /\ IF call = "ok" THEN Goto(w, "publish") /\ UNCHANGED local
                               ELSE FailAttempt(w)
  /\ UNCHANGED <<tasks, texts, context, registered, missed, sends, refusals, budget>>

(* process_task: XADD of the result, then XACK.                            *)
Publish(w) ==
  /\ pc[w] = "publish"
  /\ \E call \in Call : Charge(call) /\ Goto(w, IF call = "ok" THEN "ack" ELSE "failed")
  /\ UNCHANGED <<tasks, texts, context, registered, missed, sends, local, refusals, budget>>

AckForgotten(w) ==
  /\ pc[w] = "ack"
  /\ EndTask(w)
  /\ UNCHANGED <<tasks, texts, context, registered, missed, sends, refusals, faults, budget>>
Ack(w) ==
  /\ pc[w] = "ack"
  /\ \E call \in Call :
       /\ Charge(call)
       /\ Remove(reply[w], call)
       /\ IF call = "ok" THEN EndTask(w) ELSE Goto(w, "failed") /\ UNCHANGED local
  /\ UNCHANGED <<booking, tail, cursor, count, texts, context, registered, missed, sends, refusals, budget>>

(* _handle_failure: the delivery count is 1 when XPENDING fails or finds   *)
(* nothing.  (No error envelope: create_error_envelope is called with a    *)
(* keyword it does not have, and the TypeError is swallowed.)              *)
HandleFailure(w) ==
  /\ pc[w] = "failed"
  /\ \E call \in {"ok", "lost"} :
       /\ Charge(call)
       /\ IF call = "ok" /\ owner[reply[w]] # NoOne /\ count[reply[w]] >= MaxRetries
          THEN Goto(w, "deadLetter") /\ UNCHANGED local
          ELSE EndTask(w)
  /\ UNCHANGED <<tasks, texts, context, registered, missed, sends, refusals, budget>>

DeadLetter(w) ==
  /\ pc[w] = "deadLetter"
  /\ \E call \in Call : Charge(call)
  /\ Goto(w, "ackDead")
  /\ UNCHANGED <<tasks, texts, context, registered, missed, sends, local, refusals, budget>>

AckDead(w) ==
  /\ pc[w] = "ackDead"
  /\ \E call \in Call : Charge(call) /\ Remove(reply[w], call)
  /\ EndTask(w)
  /\ UNCHANGED <<booking, tail, cursor, count, texts, context, registered, missed, sends, refusals, budget>>

-----------------------------------------------------------------------------
(* process_copywriter_result: HGET of the context.  No context: ignored.   *)
(* No body: create_error_envelope raises, so the context stays.            *)
Lookup(w) ==
  /\ pc[w] = "lookup"
  /\ \E call \in {"ok", "lost"} :
       /\ Charge(call)
       /\ missed' = IF call = "ok" /\ answer[w] \notin context
                    THEN missed \cup {answer[w]} ELSE missed
       /\ Goto(w, IF call # "ok" THEN "ackError"
                  ELSE IF answer[w] \notin context THEN "ackAnswer"
                  ELSE IF answer[w] \notin Bodiless THEN "send" ELSE "ackError")
  /\ UNCHANGED <<tasks, texts, context, registered, sends, local, refusals, budget>>

(* _enqueue_sequencing: XADD of the request that sends the email.          *)
SendAgain(w) ==
  /\ pc[w] = "send"
  /\ \E call \in Call :
       /\ Charge(call)
       /\ sends' = IF Applied(call) THEN [sends EXCEPT ![answer[w]] = @ + 1] ELSE sends
       /\ Goto(w, IF call = "ok" THEN "report" ELSE "lookup")
  /\ UNCHANGED <<tasks, texts, context, registered, missed, local, refusals, budget>>
EnqueueSequencing(w) ==
  /\ pc[w] = "send"
  /\ \E call \in Call :
       /\ Charge(call)
       /\ sends' = IF Applied(call) THEN [sends EXCEPT ![answer[w]] = @ + 1] ELSE sends
       /\ Goto(w, IF call = "ok" THEN "report" ELSE "ackError")
  /\ UNCHANGED <<tasks, texts, context, registered, missed, local, refusals, budget>>

(* process_copywriter_result: XADD of the result, HDEL, XACK.              *)
Report(w) ==
  /\ pc[w] = "report"
  /\ \E call \in Call : Charge(call) /\ Goto(w, IF call = "ok" THEN "forget" ELSE "ackError")
  /\ UNCHANGED <<tasks, texts, context, registered, missed, sends, local, refusals, budget>>

Forget(w) ==
  /\ pc[w] = "forget"
  /\ \E call \in Call :
       /\ Charge(call)
       /\ context' = IF Applied(call) THEN context \ {answer[w]} ELSE context
       /\ Goto(w, IF call = "ok" THEN "ackAnswer" ELSE "ackError")
  /\ UNCHANGED <<tasks, texts, registered, missed, sends, local, refusals, budget>>

(* XACK of the answer, and once more in the except branch when it raised.  *)
AckAnswer(w) ==
  /\ pc[w] \in {"ackAnswer", "ackError"}
  /\ \E call \in Call :
       /\ Charge(call)
       /\ IF call # "ok" /\ pc[w] = "ackAnswer"
          THEN Goto(w, "ackError") /\ UNCHANGED local
          ELSE EndAnswer(w)
  /\ UNCHANGED <<tasks, texts, context, registered, missed, sends, refusals, budget>>

-----------------------------------------------------------------------------
(* The process ends and with it whatever it had read.                      *)
Leave(w) ==
  /\ Goto(w, "down")
  /\ reply' = [reply EXCEPT ![w] = None]
  /\ answer' = [answer EXCEPT ![w] = None]
  /\ copy' = [copy EXCEPT ![w] = None]
  /\ tries' = [tries EXCEPT ![w] = 0]
  /\ UNCHANGED <<tasks, texts, context, registered, missed, sends, refusals, faults>>

(* SIGTERM: run returns at the loop head or before the next entry of what  *)
(* it read, the only places where it looks at shutdown_requested.          *)
Terminate(w) ==
  /\ \/ pc[w] \in {"idle", "lookup"}
     \/ pc[w] = "enqueue" /\ tries[w] = 0
  /\ Mishap
  /\ stops' = stops + 1
  /\ Leave(w)
  /\ UNCHANGED <<crashes, repeats>>

Crash(w) ==
  /\ pc[w] # "down"
  /\ Mishap
  /\ crashes' = crashes + 1
  /\ Leave(w)
  /\ UNCHANGED <<stops, repeats>>

(* The container is started again, under the same consumer name.           *)
Restart(w) ==
  /\ pc[w] = "down"
  /\ Goto(w, "idle")
  /\ UNCHANGED <<tasks, texts, context, registered, missed, sends, local, refusals, faults, budget>>

HandleReply(w) ==
  \/ Refuse(w) \/ EnqueueCopywriter(w) \/ RegisterAutoSend(w) \/ EnqueueScheduler(w)
  \/ Publish(w) \/ Ack(w) \/ HandleFailure(w) \/ DeadLetter(w) \/ AckDead(w)

HandleAnswer(w) ==
  Lookup(w) \/ EnqueueSequencing(w) \/ Report(w) \/ Forget(w) \/ AckAnswer(w)

Step(w) == ReadNew(w) \/ ReadHistory(w) \/ HandleReply(w) \/ HandleAnswer(w)

Next ==
  \/ Submit
  \/ \E c \in Copy : AnswerRequest(c)
  \/ \E w \in Worker : Step(w) \/ Terminate(w) \/ Crash(w) \/ Restart(w)

(* The workers loop and are restarted; the Copywriter answers every        *)
(* request once at least, which is what AgentConsumer shows of it.         *)
Fairness ==
  /\ \A w \in Worker : WF_vars(Step(w)) /\ WF_vars(Restart(w))
  /\ \A c \in Copy : WF_vars(answered[c] = 0 /\ AnswerRequest(c))

Spec == Init /\ [][Next]_vars /\ Fairness

-----------------------------------------------------------------------------
(* Types; a worker has a reply while it is at a step of its task (run,     *)
(* process_task), pending under its own name if at all, and every id was   *)
(* made by delegate_to_copywriter.                                         *)
TypeOK ==
  /\ booking \in [Reply -> Booking]
  /\ tail \in 0 .. NumReplies /\ cursor \in 0 .. tail
  /\ owner \in [Reply -> Worker \cup {NoOne}]
  /\ count \in [Reply -> 0 .. MaxRetries]
  /\ requests \in Seq(Reply) /\ Len(requests) <= MaxCopies
  /\ answers \in Seq(DOMAIN requests)
  /\ answered \in [Copy -> 0 .. MaxAnswers]
  /\ context \subseteq registered /\ registered \subseteq DOMAIN requests
  /\ missed \subseteq DOMAIN requests
  /\ sends \in [Copy -> Nat]
  /\ pc \in [Worker -> Location]
  /\ \A w \in Worker : /\ pc[w] \in TaskStep <=> reply[w] \in Reply
                       /\ reply[w] \in Reply => owner[reply[w]] \in {w, NoOne}
                       /\ pc[w] \in AnswerStep => answer[w] \in DOMAIN requests
                       /\ copy[w] \in {None} \cup DOMAIN requests
                       /\ tries[w] \in 0 .. HarnessRetries
  /\ refusals \in [Reply -> 0 .. MaxRetries]
  /\ \A r \in Reply : {faults, stops, crashes, repeats} \subseteq 0 .. MaxMishaps[booking[r]]

Incidents == faults + crashes
CopiesOf(r) == {c \in DOMAIN requests : requests[c] = r}
Waiting(c) == Cardinality({i \in DOMAIN answers : answers[i] = c})
TextsRead(c) == IF c \in Bodiless THEN 0 ELSE answered[c] - Waiting(c)

(* An answer of the Copywriter sends at most one email, whatever raises or *)
(* crashes while it is handled: it is acknowledged in every case and never *)
(* read again.                                                             *)
OneSendPerAnswer == \A c \in Copy : sends[c] <= TextsRead(c)

(* A reply is written again only after a raised call or a crash, one text  *)
(* each; SIGTERM is free.  But a reply with an unparsable booking time is  *)
(* written by every attempt of every delivery.                             *)
CopiesPaidFor ==
  \A r \in Reply :
    LET attempts == IF booking[r] = "unparsable" THEN HarnessRetries + 1 ELSE 1
        deliveries == IF booking[r] = "unparsable" THEN MaxRetries ELSE 1
    IN  Cardinality(CopiesOf(r)) <= attempts * (deliveries + Incidents)

(* A reply that nothing disturbs is sent: one of its texts is, unless one  *)
(* was bodiless or was answered before its context was stored.  The quota  *)
(* keeps it from being sent only by refusing as many deliveries as make a  *)
(* dead letter, and not before.                                            *)
ReplyIsSent ==
  \A r \in Reply :
    (r <= tail) ~> \/ Incidents + stops > 0
                   \/ refusals[r] = MaxRetries
                   \/ \E c \in CopiesOf(r) : sends[c] > 0 \/ c \in (missed \cap registered) \cup Bodiless
=============================================================================
