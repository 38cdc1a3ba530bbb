-------------------------- MODULE ChannelSequencer --------------------------
(***************************************************************************)
(* Where emails leave the system: ChannelSequencerAgentConsumer, its       *)
(* harness and ChannelSequencerAgent (tiers/tier_3/channel_sequencer_agent).*)
(*                                                                         *)
(* Workers share a consumer group.  A request is a list of steps, which    *)
(* are dispatched in order; one that fails does not keep the next from     *)
(* being dispatched, but makes the harness do the whole list again.  Then  *)
(* each email that was sent is passed to persistence, a result is          *)
(* published and the entry acknowledged.  An entry that raised is read     *)
(* again, and dispatched again, until it was delivered MaxDeliveries times.*)
(* The hourly limit is a Redis counter that the workers share.             *)
(***************************************************************************)
EXTENDS Naturals, Sequences, FiniteSets

CONSTANTS
  Worker,          \* the worker processes
  Request,         \* the sequencing requests, numbered from 1 in the order of the stream
  Steps,           \* [Request -> Seq(Kind)]
  Leadless,        \* the requests with no lead id: their emails are not recorded
  Malformed,       \* the entries that do not parse as an envelope
  Decoder,         \* the workers whose Redis client decodes replies: not main()'s
  HarnessRetries,  \* max_retries of the harness
  MaxDeliveries,   \* DLQ_MAX_RETRIES
  MaxPerHour,      \* OUTBOUND_MAX_PER_HOUR, 0 for no limit
  Allowed,         \* bound: <<mishaps, changes of the hour, requests>> together
  None

(* An email, a channel with a webhook, a step with a delay, one held back  *)
(* (hard stop, no webhook), an email without recipient, subject or body.   *)
Kind == {"email", "webhook", "later", "held", "flawed"}

ASSUME SequencerAssumption ==
  /\ IsFiniteSet(Worker) /\ Decoder \subseteq Worker
  /\ Request \subseteq Nat
  /\ Steps \in [Request -> Seq(Kind)]
  /\ Leadless \subseteq Request /\ Malformed \subseteq Request
  /\ HarnessRetries \in Nat /\ MaxDeliveries \in Nat \ {0, 1}
  /\ MaxPerHour \in Nat
  /\ Allowed \subseteq Nat \X Nat \X (SUBSET Request)
  /\ None \notin Request \cup Worker

VARIABLES
  entry,     \* [Request -> State]: the task stream and its pending list
  owner,     \* [Request -> Worker or None]: whose pending entry it is
  tries,     \* [Request -> Nat]: times_delivered
  pc, todo, cur,  \* by worker: location, rest of the batch, request in hand
  attempt,   \* [Worker -> Nat]: attempts of the harness that failed
  reports,   \* [Worker -> Seq(Status)]: deliveries of this attempt
  recorded,  \* [Worker -> Nat]: the deliveries before it were passed to persistence
  sends,     \* [Request -> Seq(Nat)]: how often each step was dispatched
  records,   \* [Request -> Seq(Nat)]: how often its email was recorded
  answers,   \* [Request -> SUBSET {"ok", "error"}]: results that were published
  throttled, \* SUBSET Request: an email of it was over the hourly limit
  hour, tickets, \* the hour, and the counter that is named after it
  sentNow,   \* emails that left in this hour
  spent, mishaps

State == {"absent", "new", "pending", "done", "dead", "stranded"}
Status == {"sent", "error", "scheduled", "blocked", "throttled"}
Location == {"down", "idle", "take", "dispatch", "send", "record", "report", "ack",
             "failed", "deadLetter", "ackDead"}

queue == <<entry, owner, tries>>
loop == <<pc, todo, cur>>
progress == <<attempt, reports, recorded>>
effects == <<sends, records, answers, throttled>>
limit == <<hour, tickets, sentNow>>
charged == <<spent, mishaps>>
vars == <<queue, loop, progress, effects, limit, charged>>

Zeros(r) == [i \in DOMAIN Steps[r] |-> 0]

Init ==
  /\ entry = [r \in Request |-> "absent"] /\ owner = [r \in Request |-> None]
  /\ tries = [r \in Request |-> 0]
  /\ pc = [w \in Worker |-> "idle"] /\ todo = [w \in Worker |-> {}]
  /\ cur = [w \in Worker |-> None]
  /\ attempt = [w \in Worker |-> 0] /\ reports = [w \in Worker |-> <<>>]
  /\ recorded = [w \in Worker |-> 0]
  /\ sends = [r \in Request |-> Zeros(r)] /\ records = [r \in Request |-> Zeros(r)]
  /\ answers = [r \in Request |-> {}] /\ throttled = {}
  /\ hour = 0 /\ tickets = 0 /\ sentNow = 0
  /\ spent = [r \in Request |-> 0] /\ mishaps = 0

-----------------------------------------------------------------------------
(* A call succeeds, raises without effect ("lost") or raises after it took *)
(* effect ("torn"); a mishap is charged to the request in hand.            *)
Call == {"ok", "lost", "torn"}
Applied(call) == call # "lost"

(* A mishap is a call that raises or the end of a process.                 *)
Entered == {r \in Request : entry[r] # "absent"}
MayCome(m, h, requests) ==
  \E bound \in Allowed : m <= bound[1] /\ h <= bound[2] /\ requests \subseteq bound[3]

Mishap == MayCome(mishaps + 1, hour, Entered) /\ mishaps' = mishaps + 1
Charge(call, r) ==
  IF call = "ok" THEN UNCHANGED charged ELSE Mishap /\ spent' = [spent EXCEPT ![r] = @ + 1]

Goto(w, location) == pc' = [pc EXCEPT ![w] = location]
Upcoming(w) == Len(reports[w]) + 1
StepOf(w) == Steps[cur[w]][Upcoming(w)]
Dispatching(w, kinds) ==
  pc[w] = "dispatch" /\ Upcoming(w) <= Len(Steps[cur[w]]) /\ StepOf(w) \in kinds

Report(w, status) == reports' = [reports EXCEPT ![w] = Append(@, status)]
(* Each attempt has a list of deliveries of its own.                       *)
Remember(w) == UNCHANGED reports
Forget(w) == reports' = [reports EXCEPT ![w] = <<>>]
CountIf(did, count, r, i) == IF did THEN [count EXCEPT ![r][i] = @ + 1] ELSE count

(* The process ends.  Its name, worker_{id(self)}, is not used again, and  *)
(* nobody claims what is pending under it.                                 *)
Die(w) ==
  /\ entry' = [r \in Request |-> IF owner[r] = w THEN "stranded" ELSE entry[r]]
  /\ owner' = [r \in Request |-> IF owner[r] = w THEN None ELSE owner[r]]
  /\ Goto(w, "down")
  /\ todo' = [todo EXCEPT ![w] = {}] /\ cur' = [cur EXCEPT ![w] = None]
  /\ attempt' = [attempt EXCEPT ![w] = 0] /\ reports' = [reports EXCEPT ![w] = <<>>]
  /\ recorded' = [recorded EXCEPT ![w] = 0]

-----------------------------------------------------------------------------
(* External: AutoSend's consumer, or another, adds a request.              *)
Submit(r) ==
  /\ entry[r] = "absent" /\ (\A q \in Entered : q < r)
  /\ MayCome(mishaps, hour, Entered \cup {r})
  /\ entry' = [entry EXCEPT ![r] = "new"]
  /\ UNCHANGED <<owner, tries, loop, progress, effects, limit, charged>>

(* The hour changes, and with it the name of the counter.                  *)
Tick ==
  /\ MayCome(mishaps, hour + 1, Entered)
  /\ hour' = hour + 1 /\ tickets' = 0 /\ sentNow' = 0
  /\ UNCHANGED <<queue, loop, progress, effects, charged>>

(* run: new entries and, if there are none, its own pending ones.  A read  *)
(* that raises ends the process: see Crash.                                *)
New == {r \in Request : entry[r] = "new"}
NoBacklog(w) == {}
Backlog(w) == {r \in Request : owner[r] = w}

Read(w) ==
  /\ pc[w] = "idle"
  /\ LET batch == IF New # {} THEN New ELSE Backlog(w) IN
       /\ batch # {}
       /\ todo' = [todo EXCEPT ![w] = batch]
       /\ entry' = [r \in Request |-> IF r \in batch THEN "pending" ELSE entry[r]]
       /\ owner' = [r \in Request |-> IF r \in batch THEN w ELSE owner[r]]
       /\ tries' = [r \in Request |-> IF r \in batch THEN tries[r] + 1 ELSE tries[r]]
  /\ Goto(w, "take")
  /\ UNCHANGED <<cur, progress, effects, limit, charged>>

(* The next entry of the batch, in the order of the stream; what does not  *)
(* parse raises.                                                           *)
Take(w) ==
  /\ pc[w] = "take"
  /\ IF todo[w] = {}
     THEN Goto(w, "idle") /\ cur' = [cur EXCEPT ![w] = None] /\ UNCHANGED todo
     ELSE \E r \in todo[w] :
            /\ \A q \in todo[w] : r <= q
            /\ todo' = [todo EXCEPT ![w] = @ \ {r}]
            /\ cur' = [cur EXCEPT ![w] = r]
            /\ Goto(w, IF r \in Malformed THEN "failed" ELSE "dispatch")
  /\ attempt' = [attempt EXCEPT ![w] = 0] /\ Forget(w)
  /\ recorded' = [recorded EXCEPT ![w] = 0]
  /\ UNCHANGED <<queue, effects, limit, charged>>

-----------------------------------------------------------------------------
(* The harness: an attempt that raised, or ended in an error, is followed  *)
(* by another from the first step, or by the result "error".               *)
FailAttempt(w) ==
  /\ attempt' = [attempt EXCEPT ![w] = @ + 1]
  /\ Forget(w)
  /\ Goto(w, IF attempt[w] = HarnessRetries THEN "report" ELSE "dispatch")

(* build_sequence: steps that are not dispatched now.                      *)
PassOver(w) ==
  /\ Dispatching(w, {"later", "held"})
  /\ Report(w, IF StepOf(w) = "later" THEN "scheduled" ELSE "blocked")
  /\ UNCHANGED <<queue, loop, attempt, recorded, effects, limit, charged>>

(* _send_email_step raises for an incomplete email, and the rest of the    *)
(* list is not looked at.                                                  *)
Refuse(w) ==
  /\ Dispatching(w, {"flawed"})
  /\ FailAttempt(w)
  /\ UNCHANGED <<queue, todo, cur, recorded, effects, limit, charged>>

(* _throttle_check: INCR of the counter of the hour, whose exception       *)
(* nobody catches before the harness.                                      *)
WithinLimit(n) == n < MaxPerHour
OverLimit(n) == n > MaxPerHour
Throttle(w) ==
  /\ Dispatching(w, {"email"})
  /\ IF MaxPerHour = 0
     THEN Goto(w, "send") /\ UNCHANGED <<attempt, reports, throttled, tickets, charged>>
     ELSE \E call \in Call :
            /\ Charge(call, cur[w])
            /\ tickets' = IF Applied(call) THEN tickets + 1 ELSE tickets
            /\ IF call # "ok" THEN FailAttempt(w) /\ UNCHANGED throttled
               ELSE IF OverLimit(tickets + 1)
               THEN Report(w, "throttled") /\ throttled' = throttled \cup {cur[w]}
                    /\ UNCHANGED <<pc, attempt>>
               ELSE Goto(w, "send") /\ UNCHANGED <<attempt, reports, throttled>>
  /\ UNCHANGED <<queue, todo, cur, recorded, sends, records, answers, hour, sentNow>>

(* SMTP or a webhook accepts the message, or an exception or an error      *)
(* response is reported, perhaps although it did.                          *)
Send(w) ==
  /\ pc[w] = "send" \/ Dispatching(w, {"webhook"})
  /\ \E call \in Call :
       /\ Charge(call, cur[w])
       /\ sends' = CountIf(Applied(call), sends, cur[w], Upcoming(w))
       /\ sentNow' = IF Applied(call) /\ StepOf(w) = "email" THEN sentNow + 1 ELSE sentNow
       /\ Report(w, IF call = "ok" THEN "sent" ELSE "error")
  /\ Goto(w, "dispatch")
  /\ UNCHANGED <<queue, todo, cur, attempt, recorded, records, answers, throttled, hour, tickets>>

FailedIfThrottled(status) == status \in {"error", "throttled"}
NeverFailed(status) == FALSE
Failed(status) == status = "error"
Conclude(w) ==
  /\ pc[w] = "dispatch" /\ Upcoming(w) > Len(Steps[cur[w]])
  /\ IF \E i \in DOMAIN reports[w] : Failed(reports[w][i])
     THEN FailAttempt(w)
     ELSE Goto(w, "record") /\ UNCHANGED <<attempt, reports>>
  /\ UNCHANGED <<queue, todo, cur, recorded, effects, limit, charged>>

-----------------------------------------------------------------------------
(* _persist_email_deliveries: a compound write for each email that was     *)
(* sent; exceptions are swallowed.  Nothing is recorded after an error.    *)
DueUnsent(w) == {i \in DOMAIN reports[w] : i > recorded[w] /\ Steps[cur[w]][i] = "email"}
Due(w) == {i \in DOMAIN reports[w] :
             i > recorded[w] /\ Steps[cur[w]][i] = "email" /\ reports[w][i] = "sent"}
Record(w) ==
  /\ pc[w] = "record"
  /\ IF Due(w) = {} \/ cur[w] \in Leadless
     THEN Goto(w, "report") /\ UNCHANGED <<recorded, records, charged>>
     ELSE \E i \in Due(w), call \in Call :
            /\ \A k \in Due(w) : i <= k
            /\ Charge(call, cur[w])
            /\ records' = CountIf(Applied(call), records, cur[w], i)
            /\ recorded' = [recorded EXCEPT ![w] = i]
            /\ UNCHANGED pc
  /\ UNCHANGED <<queue, todo, cur, attempt, reports, sends, answers, throttled, limit>>

(* process_task: XADD of the result, XACK.                                 *)
Outcome(w) == IF attempt[w] > HarnessRetries THEN "error" ELSE "ok"
Answer(w) ==
  /\ pc[w] = "report"
  /\ \E call \in Call :
       /\ Charge(call, cur[w])
       /\ answers' = IF Applied(call) THEN [answers EXCEPT ![cur[w]] = @ \cup {Outcome(w)}]
                                      ELSE answers
       /\ Goto(w, IF call = "ok" THEN "ack" ELSE "failed")
  /\ UNCHANGED <<queue, todo, cur, progress, sends, records, throttled, limit>>

Settle(r, state) ==
  /\ entry' = [entry EXCEPT ![r] = state]
  /\ owner' = [owner EXCEPT ![r] = None]

Ack(w) ==
  /\ pc[w] = "ack"
  /\ \E call \in Call :
       /\ Charge(call, cur[w])
       /\ IF Applied(call) THEN Settle(cur[w], "done") ELSE UNCHANGED <<entry, owner>>
       /\ Goto(w, IF call = "ok" THEN "take" ELSE "failed")
  /\ UNCHANGED <<tries, todo, cur, progress, effects, limit>>

(* _handle_failure: the delivery count is 1 when XPENDING raises or finds  *)
(* nothing.  It is called in the except branch, so that what it raises     *)
(* ends the loop: DeadLetterMessage.to_dict, when the keys of the entry are *)
(* bytes, its XADD or its XACK.                                            *)
HandleFailure(w) ==
  /\ pc[w] = "failed"
  /\ \E call \in {"ok", "lost"} :
       /\ Charge(call, cur[w])
       /\ LET spoilt == call = "ok" /\ owner[cur[w]] = w /\ tries[cur[w]] >= MaxDeliveries
          IN  IF spoilt /\ w \notin Decoder THEN Die(w)
              ELSE /\ Goto(w, IF spoilt THEN "deadLetter" ELSE "take")
                   /\ UNCHANGED <<entry, owner, todo, cur, progress>>
  /\ UNCHANGED <<tries, effects, limit>>

DeadLetter(w) ==
  /\ pc[w] = "deadLetter"
  /\ \E call \in {"ok", "lost"} :
       /\ Charge(call, cur[w])
       /\ IF call = "ok"
          THEN Goto(w, "ackDead") /\ UNCHANGED <<entry, owner, todo, cur, progress>>
          ELSE Die(w)
  /\ UNCHANGED <<tries, effects, limit>>

(* An XACK that was applied and raised all the same, and so ends the loop, *)
(* leaves what its success and a Crash at the next step leave, at the same *)
(* price: it needs no outcome of its own.                                  *)
AckDead(w) ==
  /\ pc[w] = "ackDead"
  /\ \/ Settle(cur[w], "dead") /\ Goto(w, "take") /\ UNCHANGED <<todo, cur, progress, charged>>
     \/ Charge("lost", cur[w]) /\ Die(w)
  /\ UNCHANGED <<tries, effects, limit>>

(* The process is killed, or its XREADGROUP raises.                        *)
Crash(w) ==
  /\ pc[w] # "down"
  /\ Mishap
  /\ spent' = IF cur[w] = None THEN spent ELSE [spent EXCEPT ![cur[w]] = @ + 1]
  /\ Die(w)
  /\ UNCHANGED <<tries, effects, limit>>

Restart(w) ==
  /\ pc[w] = "down"
  /\ Goto(w, "idle")
  /\ UNCHANGED <<queue, todo, cur, progress, effects, limit, charged>>

-----------------------------------------------------------------------------
Step(w) ==
  \/ Read(w) \/ Take(w)
  \/ PassOver(w) \/ Refuse(w) \/ Throttle(w) \/ Send(w) \/ Conclude(w)
  \/ Record(w) \/ Answer(w) \/ Ack(w)
  \/ HandleFailure(w) \/ DeadLetter(w) \/ AckDead(w)

Next ==
  \/ \E r \in Request : Submit(r)
  \/ Tick
  \/ \E w \in Worker : Step(w) \/ Crash(w) \/ Restart(w)

(* A worker's loop runs on, and its container is started again.            *)
Fairness == \A w \in Worker : WF_vars(Step(w) \/ Restart(w))

Spec == Init /\ [][Next]_vars /\ Fairness

-----------------------------------------------------------------------------
(* Types; a pending entry has an owner that is up, and a worker reports on *)
(* no more steps than its request has.                                     *)
TypeOK ==
  /\ entry \in [Request -> State] /\ owner \in [Request -> Worker \cup {None}]
  /\ tries \in [Request -> Nat]
  /\ \A r \in Request : IF entry[r] = "pending" THEN owner[r] # None /\ pc[owner[r]] # "down"
                                                ELSE owner[r] = None
  /\ pc \in [Worker -> Location] /\ todo \in [Worker -> SUBSET Request]
  /\ cur \in [Worker -> Request \cup {None}]
  /\ attempt \in [Worker -> 0 .. HarnessRetries + 1]
  /\ reports \in [Worker -> Seq(Status)] /\ recorded \in [Worker -> Nat]
  /\ \A w \in Worker : cur[w] # None => Len(reports[w]) <= Len(Steps[cur[w]])
  /\ \A r \in Request : sends[r] \in [DOMAIN Steps[r] -> Nat]
                     /\ records[r] \in [DOMAIN Steps[r] -> Nat]
  /\ answers \in [Request -> SUBSET {"ok", "error"}] /\ throttled \subseteq Request
  /\ hour \in Nat /\ tickets \in Nat /\ sentNow \in Nat
  /\ spent \in [Request -> Nat] /\ mishaps \in Nat

(* A step is dispatched once, and once more for each mishap while its      *)
(* request was in hand: the harness and the redelivery repeat nothing on   *)
(* their own, except that a list with an incomplete email is begun again   *)
(* in each attempt.                                                        *)
Flawed(r) == \E i \in DOMAIN Steps[r] : Steps[r][i] = "flawed"
Executions(r) == IF Flawed(r) THEN HarnessRetries + 1 ELSE 1
SendsPaidFor ==
  \A r \in Request : \A i \in DOMAIN Steps[r] :
    sends[r][i] <= Executions(r) * (1 + spent[r])

(* What is recorded was sent and, once the request is acknowledged without *)
(* a mishap, what was sent is recorded as often as it was sent, unless the *)
(* request has no lead or ended in an error.                               *)
RecordsMatchSends ==
  \A r \in Request : \A i \in DOMAIN Steps[r] :
    /\ records[r][i] <= sends[r][i]
    /\ entry[r] = "done" /\ Steps[r][i] = "email" =>
         records[r][i] = sends[r][i] \/ spent[r] > 0 \/ r \in Leadless \/ Flawed(r)

(* In an hour no more emails leave than the limit allows, and one for each *)
(* worker that passed the check before the hour changed.                   *)
HourlyLimit == MaxPerHour > 0 => sentNow <= MaxPerHour + Cardinality(Worker)

(* A result that is not an error means that everything was dispatched that *)
(* was neither throttled nor held back, in this execution or an earlier.   *)
OkMeansSent ==
  \A r \in Request :
    "ok" \in answers[r] =>
      \A i \in DOMAIN Steps[r] :
        Steps[r][i] \in {"email", "webhook"} =>
          sends[r][i] > 0 \/ (Steps[r][i] = "email" /\ r \in throttled)

(* Every request is answered and acknowledged, or dead-lettered after as   *)
(* many deliveries, or pending under the name of a process that ended: by  *)
(* a mishap, or over an entry that it could not dead-letter.               *)
Undeliverable == {m \in Malformed : tries[m] >= MaxDeliveries}
EveryRequestSettles ==
  \A r \in Request :
    entry[r] = "new" ~>
      \/ entry[r] = "done" /\ answers[r] # {}
      \/ entry[r] = "dead" /\ (r \in Undeliverable \/ spent[r] >= MaxDeliveries)
      \/ entry[r] = "stranded" /\ (mishaps > 0 \/ (Undeliverable # {} /\ Decoder # Worker))
=============================================================================
