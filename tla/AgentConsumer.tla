---------------------------- MODULE AgentConsumer ----------------------------
(***************************************************************************)
(* The Tier-3 agent consumer: PersistenceAgentConsumer                     *)
(* (tiers/tier_3/persistence_agent/consumer.py) and, with the same loop,   *)
(* CopywriterAgentConsumer.  Worker processes share one Redis consumer     *)
(* group on a task stream.  Each reads one entry at a time, runs it        *)
(* through its harness, publishes a result or error envelope and           *)
(* acknowledges; an exception leads to _handle_failure, which dead-letters *)
(* the entry once Redis has delivered it MaxRetries times.                 *)
(*                                                                         *)
(* Every Redis call is a step of its own, and may raise: either the        *)
(* command never reached Redis ("lost") or it was applied and the reply    *)
(* did not come back ("torn").  A process may stop at any await.           *)
(***************************************************************************)
EXTENDS Naturals, FiniteSets

CONSTANTS
  Worker,      \* the worker processes (containers)
  Decoder,     \* the workers whose Redis client decodes replies to str
  NumTasks,    \* number of entries that producers add to the stream
  Malformed,   \* the entries whose envelope does not parse
  MaxRetries,  \* DLQ_MAX_RETRIES
  DlqEnabled,  \* DLQ_ENABLED
  MaxFaults,   \* bound: Redis calls that raise
  MaxCrashes,  \* bound: process crashes
  NoOne        \* owner of an entry that is not in the pending list

Task == 1 .. NumTasks
NoTask == 0

ASSUME ConsumerAssumption ==
  /\ Decoder \subseteq Worker
  /\ NumTasks \in Nat
  /\ Malformed \subseteq Task
  /\ MaxRetries \in Nat /\ MaxRetries >= 2
  /\ DlqEnabled \in BOOLEAN
  /\ MaxFaults \in Nat
  /\ MaxCrashes \in Nat
  /\ NoOne \notin Worker \X Nat

VARIABLES
  tail,       \* number of entries in the task stream
  cursor,     \* last-delivered-id of the consumer group
  owner,      \* [Task -> consumer name or NoOne]: the pending entries list
  count,      \* [Task -> 0 .. MaxRetries]: times_delivered, saturating
  published,  \* [Task -> [Kind -> Nat]]: what was added to the result and dead-letter streams
  pc,         \* [Worker -> Location]
  held,       \* [Worker -> Task or NoTask]: the entry process_task works on
  life,       \* [Worker -> Nat]: how often the process was restarted
  faults,     \* Redis calls that raised so far
  crashes     \* processes that crashed so far

stream == <<tail, cursor, owner, count>>
vars == <<tail, cursor, owner, count, published, pc, held, life, faults, crashes>>

Kind == {"result", "error", "dead"}
Busy == {"run", "publishResult", "publishError", "ack", "failed",
         "deadLetter", "reportError", "ackDead"}
Location == {"down", "idle", "history"} \cup Busy

Init ==
  /\ tail = 0
  /\ cursor = 0
  /\ owner = [t \in Task |-> NoOne]
  /\ count = [t \in Task |-> 0]
  /\ published = [t \in Task |-> [k \in Kind |-> 0]]
  /\ pc = [w \in Worker |-> "idle"]
  /\ held = [w \in Worker |-> NoTask]
  /\ life = [w \in Worker |-> 0]
  /\ faults = 0
  /\ crashes = 0

-----------------------------------------------------------------------------
(* consumer_name is `worker_{id(self)}`: a process that is started again   *)
(* has another name, so the name is the process with its incarnation.      *)
Name(w) == <<w, life[w]>>

(* The outcomes of one Redis call.                                         *)
Call == {"ok", "lost", "torn"}
Applied(call) == call # "lost"

Charge(call) ==
  IF call = "ok" THEN UNCHANGED faults
                 ELSE faults < MaxFaults /\ faults' = faults + 1

GoTo(w, location) ==
  /\ pc' = [pc EXCEPT ![w] = location]
  /\ held' = [held EXCEPT ![w] = IF location \in Busy THEN @ ELSE NoTask]

Post(t, kind, call) ==
  published' = IF Applied(call) THEN [published EXCEPT ![t][kind] = @ + 1]
                                ELSE published

Remove(t, call) ==
  owner' = IF Applied(call) THEN [owner EXCEPT ![t] = NoOne] ELSE owner

(* times_delivered, counted up to the only value it is compared with: past *)
(* MaxRetries every larger count behaves the same.                         *)
CountUp(n) == IF n < MaxRetries THEN n + 1 ELSE n

(* XREADGROUP hands entry t to w and counts the delivery, even when the    *)
(* reply never arrives.                                                    *)
Deliver(w, t, call) ==
  /\ owner' = IF Applied(call) THEN [owner EXCEPT ![t] = Name(w)] ELSE owner
  /\ count' = IF Applied(call) THEN [count EXCEPT ![t] = CountUp(@)] ELSE count
  /\ pc' = [pc EXCEPT ![w] = IF call = "ok" THEN "run" ELSE "idle"]
  /\ held' = [held EXCEPT ![w] = IF call = "ok" THEN t ELSE NoTask]
  /\ Charge(call)

(* The entries XREADGROUP with id "0" can return to w.                     *)
BacklogOfAll(w) == {t \in Task : owner[t] # NoOne}
Backlog(w) == {t \in Task : owner[t] = Name(w)}

(* _get_delivery_count: XPENDING of one id; 1 when it fails or finds none. *)
CountOfAcked(t, call) == IF call = "ok" THEN count[t] ELSE 1
ObservedCount(t, call) ==
  IF call = "ok" /\ owner[t] # NoOne THEN count[t] ELSE 1

ShouldDeadLetterEarly(n) == DlqEnabled /\ n + 1 >= MaxRetries
ShouldDeadLetter(n) == DlqEnabled /\ n >= MaxRetries

-----------------------------------------------------------------------------
(* A producer adds the next task to the stream.                            *)
Submit ==
  /\ tail < NumTasks
  /\ tail' = tail + 1
  /\ UNCHANGED <<cursor, owner, count, published, pc, held, life, faults, crashes>>

(* run: read the next undelivered entry, or fall through to the history    *)
(* read when there is none.                                                *)
ReadNew(w) ==
  /\ pc[w] = "idle"
  /\ \/ /\ cursor < tail
        /\ \E call \in Call :
             /\ Deliver(w, cursor + 1, call)
             /\ cursor' = IF Applied(call) THEN cursor + 1 ELSE cursor
     \/ /\ cursor = tail
        /\ GoTo(w, "history")
        /\ UNCHANGED <<cursor, owner, count, faults>>
  /\ UNCHANGED <<tail, published, life, crashes>>

(* run: re-read this consumer's own oldest pending entry.                  *)
ReadHistoryNever(w) ==
  /\ pc[w] = "history"
  /\ GoTo(w, "idle")
  /\ UNCHANGED <<stream, published, life, faults, crashes>>
ReadHistory(w) ==
  /\ pc[w] = "history"
  /\ \/ \E t \in Backlog(w), call \in Call :
          /\ \A u \in Backlog(w) : t <= u
          /\ Deliver(w, t, call)
     \/ /\ Backlog(w) = {}
        /\ GoTo(w, "idle")
        /\ UNCHANGED <<owner, count, faults>>
  /\ UNCHANGED <<tail, cursor, published, life, crashes>>

(* process_task up to the result envelope: the envelope may not parse, the *)
(* harness reports success or, after its own retries, an error status, and *)
(* building or serialising the result may raise.                           *)
Execute(w) ==
  /\ pc[w] = "run"
  /\ \/ held[w] \notin Malformed /\ GoTo(w, "publishResult")
     \/ held[w] \notin Malformed /\ GoTo(w, "publishError")
     \/ GoTo(w, "failed")
  /\ UNCHANGED <<stream, published, life, faults, crashes>>

(* process_task: XADD of the result or error envelope.                     *)
Publish(w) ==
  /\ pc[w] \in {"publishResult", "publishError"}
  /\ \E call \in Call :
       /\ Charge(call)
       /\ Post(held[w], IF pc[w] = "publishResult" THEN "result" ELSE "error", call)
       /\ GoTo(w, IF call = "ok" THEN "ack" ELSE "failed")
  /\ UNCHANGED <<stream, life, crashes>>

(* process_task: XACK.                                                     *)
AckForgotten(w) ==
  /\ pc[w] = "ack"
  /\ GoTo(w, "idle")
  /\ UNCHANGED <<stream, published, life, faults, crashes>>
Ack(w) ==
  /\ pc[w] = "ack"
  /\ \E call \in Call :
       /\ Charge(call)
       /\ Remove(held[w], call)
       /\ GoTo(w, IF call = "ok" THEN "idle" ELSE "failed")
  /\ UNCHANGED <<tail, cursor, count, published, life, crashes>>

(* _handle_failure up to DeadLetterMessage.to_dict: below the threshold    *)
(* the entry stays pending.  to_dict is json.dumps of the raw entry, which *)
(* raises TypeError on the bytes keys of a client that does not decode.    *)
HandleFailure(w) ==
  /\ pc[w] = "failed"
  /\ \E call \in {"ok", "lost"} :
       /\ DlqEnabled \/ call = "ok"
       /\ Charge(call)
       /\ GoTo(w, IF ShouldDeadLetter(ObservedCount(held[w], call)) /\ w \in Decoder
                  THEN "deadLetter" ELSE "idle")
  /\ UNCHANGED <<stream, published, life, crashes>>

(* _handle_failure: XADD to the dead-letter stream; an exception leaves    *)
(* process_task and ends in the loop's handler.                            *)
DeadLetter(w) ==
  /\ pc[w] = "deadLetter"
  /\ \E call \in Call :
       /\ Charge(call)
       /\ Post(held[w], "dead", call)
       /\ GoTo(w, IF call # "ok" THEN "idle"
                  ELSE IF held[w] \in Malformed THEN "ackDead" ELSE "reportError")
  /\ UNCHANGED <<stream, life, crashes>>

(* _handle_failure: the error envelope; its exceptions are swallowed.      *)
ReportError(w) ==
  /\ pc[w] = "reportError"
  /\ \E call \in Call :
       /\ Charge(call)
       /\ Post(held[w], "error", call)
       /\ GoTo(w, "ackDead")
  /\ UNCHANGED <<stream, life, crashes>>

(* _handle_failure: the final XACK.                                        *)
AckDead(w) ==
  /\ pc[w] = "ackDead"
  /\ \E call \in Call :
       /\ Charge(call)
       /\ Remove(held[w], call)
       /\ GoTo(w, "idle")
  /\ UNCHANGED <<tail, cursor, count, published, life, crashes>>

(* The process stops: a kill, or a cancellation, which is not an Exception *)
(* and so passes every handler up to the end of run.                       *)
Crash(w) ==
  /\ pc[w] # "down"
  /\ crashes < MaxCrashes
  /\ crashes' = crashes + 1
  /\ GoTo(w, "down")
  /\ UNCHANGED <<stream, published, life, faults>>

(* The container is started again: a new consumer object, a new name.      *)
Restart(w) ==
  /\ pc[w] = "down"
  /\ life' = [life EXCEPT ![w] = @ + 1]
  /\ GoTo(w, "idle")
  /\ UNCHANGED <<stream, published, faults, crashes>>

Step(w) ==
  \/ ReadNew(w)
  \/ ReadHistory(w)
  \/ Execute(w)
  \/ Publish(w)
  \/ Ack(w)
  \/ HandleFailure(w)
  \/ DeadLetter(w)
  \/ ReportError(w)
  \/ AckDead(w)

Next ==
  \/ Submit
  \/ \E w \in Worker : Step(w) \/ Crash(w) \/ Restart(w)

(* A worker that is up keeps looping, and Docker restarts one that exited. *)
(* Producers owe nothing.                                                  *)
Fairness == \A w \in Worker : WF_vars(Step(w)) /\ WF_vars(Restart(w))

Safe == Init /\ [][Next]_vars
Spec == Safe /\ Fairness

-----------------------------------------------------------------------------
(* The type invariant, with who may hold what: an entry is held exactly    *)
(* while process_task runs on it, and it was delivered and is pending      *)
(* under the holder's own name, or left the group under it (run,           *)
(* process_task).                                                          *)
TypeOK ==
  /\ tail \in 0 .. NumTasks
  /\ cursor \in 0 .. tail
  /\ owner \in [Task -> (Worker \X Nat) \cup {NoOne}]
  /\ count \in [Task -> 0 .. MaxRetries]
  /\ published \in [Task -> [Kind -> Nat]]
  /\ pc \in [Worker -> Location]
  /\ held \in [Worker -> Task \cup {NoTask}]
  /\ life \in [Worker -> Nat]
  /\ faults \in 0 .. MaxFaults
  /\ crashes \in 0 .. MaxCrashes
  /\ \A w \in Worker :
       /\ pc[w] \in Busy <=> held[w] # NoTask
       /\ held[w] # NoTask => held[w] <= cursor /\ owner[held[w]] \in {Name(w), NoOne}

Settled(t) == t <= cursor /\ owner[t] = NoOne

(* t is pending for a consumer name that no process will ever use again.   *)
Orphaned(t) == owner[t] # NoOne /\ \A w \in Worker : owner[t] # Name(w)

Incidents == faults + crashes
Replies(t) == published[t]["result"] + published[t]["error"]

(* An entry leaves the pending list only after a result, an error or a     *)
(* dead letter was recorded for it, whatever Redis call raised and         *)
(* whichever process died (process_task and _handle_failure order XADD     *)
(* before XACK).                                                           *)
NoSilentDrop ==
  \A t \in Task : Settled(t) => \E k \in Kind : published[t][k] > 0

(* An entry is dead-lettered only when Redis delivered it MaxRetries times *)
(* (failure_count < max_retries returns early).                            *)
DeadOnlyAfterRetries ==
  \A t \in Task : published[t]["dead"] > 0 => count[t] >= MaxRetries

(* Two processes never work on the same entry at once: a worker re-reads   *)
(* the pending entries of its own name only.                               *)
ExclusiveHold ==
  \A v, w \in Worker : held[v] = held[w] /\ held[v] # NoTask => v = w

(* Every reply and every dead letter beyond the first is paid for by a     *)
(* raised Redis call or a crash: with none of either, a task is answered   *)
(* once.                                                                   *)
DuplicatesPaidFor ==
  \A t \in Task : /\ Replies(t) <= 1 + Incidents
                  /\ published[t]["dead"] <= 1 + Incidents

(* The at-least-once contract, with the outcomes recorded so far.          *)
PhaseOf(t) ==
  IF t > tail THEN "absent"
  ELSE IF t > cursor THEN "queued"
  ELSE IF owner[t] # NoOne THEN "leased" ELSE "settled"

Delivery == INSTANCE TaskDelivery
  WITH Outcome <- Kind,
       phase <- [t \in Task |-> PhaseOf(t)],
       recorded <- [t \in Task |-> {k \in Kind : published[t][k] > 0}]

(* The consumer implements TaskDelivery: in particular nothing is recorded *)
(* about an entry after it was acknowledged, although a torn XACK sends    *)
(* process_task into _handle_failure with the entry already gone.          *)
AtLeastOnce == Delivery!Spec

(* Every submitted task is settled in the end, unless the process that     *)
(* read it died (nothing reclaims its entries) or its worker cannot        *)
(* dead-letter (the entry of a client that does not decode replies).       *)
EveryTaskSettles ==
  \A t \in Task :
    (t <= tail) ~> \/ Settled(t)
                   \/ Orphaned(t)
                   \/ \E w \in Worker \ Decoder : owner[t] = Name(w)

=============================================================================
