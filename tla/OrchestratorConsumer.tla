------------------------ MODULE OrchestratorConsumer ------------------------
(***************************************************************************)
(* The Tier-2 inbound orchestrator consumer: InboundConsumer               *)
(* (tiers/tier_2/inbound_orchestrator/consumer.py) with core/dlq.py.       *)
(*                                                                         *)
(* It differs from the Tier-3 loop of AgentConsumer in what matters here:  *)
(* entries are read in batches and an exception abandons the rest of the   *)
(* batch; the envelope is parsed outside the try block, so an entry that   *)
(* does not parse never reaches _handle_failure; send_to_dlq swallows its  *)
(* own failure and the entry is acknowledged all the same; SIGTERM sets a  *)
(* flag that is read before every entry; and the consumer name comes from  *)
(* the process id, so that a restarted container finds its old backlog.    *)
(***************************************************************************)
EXTENDS Naturals, FiniteSets, FiniteSetsExt

CONSTANTS
  Worker,      \* the consumer processes
  Name,        \* [Worker -> consumer name]: `inbound-worker-{pid}`
  NumTasks,    \* number of entries that producers add to the stream
  Malformed,   \* the entries whose envelope does not parse
  Batch,       \* count argument of XREADGROUP
  MaxRetries,  \* DLQ_MAX_RETRIES
  DlqEnabled,  \* DLQ_ENABLED
  MaxFaults,   \* bound: Redis calls that raise
  MaxStops,    \* bound: SIGTERMs
  MaxCrashes,  \* bound: process crashes
  MaxTrouble,  \* bound: all of these together
  NoOne        \* owner of an entry that is not in the pending list

Task == 1 .. NumTasks
NoTask == 0

ASSUME OrchestratorAssumption ==
  /\ DOMAIN Name = Worker
  /\ NumTasks \in Nat
  /\ Malformed \subseteq Task
  /\ Batch \in Nat \ {0}
  /\ MaxRetries \in Nat /\ MaxRetries >= 2
  /\ DlqEnabled \in BOOLEAN
  /\ MaxFaults \in Nat /\ MaxStops \in Nat /\ MaxCrashes \in Nat
  /\ MaxTrouble \in Nat
  /\ \A w \in Worker : Name[w] # NoOne

VARIABLES
  tail,       \* number of entries in the task stream
  cursor,     \* last-delivered-id of the consumer group
  owner,      \* [Task -> consumer name or NoOne]: the pending entries list
  count,      \* [Task -> 0 .. MaxRetries]: times_delivered, saturating
  published,  \* [Task -> [Kind -> Nat]]: what was added to the result and dead-letter streams
  pc,         \* [Worker -> Location]
  held,       \* [Worker -> Task or NoTask]: the entry process_message works on
  batch,      \* [Worker -> SUBSET Task]: read, not yet taken
  stopping,   \* [Worker -> BOOLEAN]: shutdown_requested
  faults,     \* Redis calls that raised so far
  stops,      \* SIGTERMs so far
  crashes     \* processes that crashed so far

stream == <<tail, cursor, owner, count>>
budget == <<stops, crashes>>
vars == <<stream, published, pc, held, batch, stopping, faults, budget>>

Kind == {"result", "error", "dead"}
Busy == {"run", "publish", "ack", "failed", "deadLetter", "reportError", "ackDead"}
Location == {"down", "idle", "history", "batch"} \cup Busy

Init ==
  /\ tail = 0 /\ cursor = 0
  /\ owner = [t \in Task |-> NoOne]
  /\ count = [t \in Task |-> 0]
  /\ published = [t \in Task |-> [k \in Kind |-> 0]]
  /\ pc = [w \in Worker |-> "idle"]
  /\ held = [w \in Worker |-> NoTask]
  /\ batch = [w \in Worker |-> {}]
  /\ stopping = [w \in Worker |-> FALSE]
  /\ faults = 0 /\ stops = 0 /\ crashes = 0

-----------------------------------------------------------------------------
(* The outcomes of one Redis call: lost calls never reached Redis, torn    *)
(* ones were applied and raised all the same.                              *)
Call == {"ok", "lost", "torn"}
Applied(call) == call # "lost"

Trouble == faults + stops + crashes

Charge(call) ==
  IF call = "ok" THEN UNCHANGED faults
                 ELSE faults < MaxFaults /\ Trouble < MaxTrouble /\ faults' = faults + 1

(* w keeps its batch and moves on with entry t.                            *)
GoOn(w, location) ==
  /\ pc' = [pc EXCEPT ![w] = location]
  /\ held' = [held EXCEPT ![w] = IF location \in Busy THEN @ ELSE NoTask]
  /\ UNCHANGED batch

(* w leaves the batch loop: an exception, the end of run, or the end of    *)
(* the process.                                                            *)
Abandon(w, location) ==
  /\ pc' = [pc EXCEPT ![w] = location]
  /\ held' = [held EXCEPT ![w] = NoTask]
  /\ batch' = [batch EXCEPT ![w] = {}]

Post(t, kind, call) ==
  published' = IF Applied(call) THEN [published EXCEPT ![t][kind] = @ + 1]
                                ELSE published

Remove(t, call) ==
  owner' = IF Applied(call) THEN [owner EXCEPT ![t] = NoOne] ELSE owner

CountUp(n) == IF n < MaxRetries THEN n + 1 ELSE n

(* XREADGROUP hands the entries T to w and counts the delivery of each.    *)
Deliver(w, T, call) ==
  /\ owner' = [t \in Task |-> IF t \in T /\ Applied(call) THEN Name[w] ELSE owner[t]]
  /\ count' = [t \in Task |-> IF t \in T /\ Applied(call) THEN CountUp(count[t]) ELSE count[t]]
  /\ pc' = [pc EXCEPT ![w] = IF call = "ok" THEN "batch" ELSE "idle"]
  /\ batch' = [batch EXCEPT ![w] = IF call = "ok" THEN T ELSE {}]
  /\ Charge(call)
  /\ UNCHANGED held

(* The first entries of a set, as many as one read returns.                *)
FirstBatch(T) == {t \in T : Cardinality({u \in T : u < t}) < Batch}
FirstEntry(T) == {t \in T : \A u \in T : t <= u}

(* What XREADGROUP from id 0 returns: this consumer name's pending entries. *)
BacklogOfAll(w) == {t \in Task : owner[t] # NoOne}
Backlog(w) == {t \in Task : owner[t] = Name[w]}

(* _get_delivery_count: 1 when XPENDING fails or finds nothing.            *)
ObservedCount(t, call) ==
  IF call = "ok" /\ owner[t] # NoOne THEN count[t] ELSE 1

ShouldDeadLetter(n) == DlqEnabled /\ n >= MaxRetries

-----------------------------------------------------------------------------
(* A producer adds the next task to the stream.                            *)
Submit ==
  /\ tail < NumTasks
  /\ tail' = tail + 1
  /\ UNCHANGED <<cursor, owner, count, published, pc, held, batch, stopping,
                 faults, budget>>

(* run: the loop head, which ends the process once SIGTERM was seen.       *)
LeaveLoop(w) ==
  /\ pc[w] = "idle" /\ stopping[w]
  /\ Abandon(w, "down")
  /\ UNCHANGED <<stream, published, stopping, faults, budget>>

(* run: read up to Batch undelivered entries, or fall through to the       *)
(* history read when there is none.                                        *)
ReadNew(w) ==
  /\ pc[w] = "idle" /\ ~stopping[w]
  /\ \/ /\ cursor < tail
        /\ LET T == FirstBatch((cursor + 1) .. tail)
           IN  \E call \in Call :
                 /\ Deliver(w, T, call)
                 /\ cursor' = IF Applied(call) THEN Max(T) ELSE cursor
     \/ /\ cursor = tail
        /\ GoOn(w, "history")
        /\ UNCHANGED <<cursor, owner, count, faults>>
  /\ UNCHANGED <<tail, published, stopping, budget>>

(* run: re-read the oldest pending entries of this consumer name.          *)
ReadHistoryNever(w) ==
  /\ pc[w] = "history"
  /\ GoOn(w, "idle")
  /\ UNCHANGED <<stream, published, stopping, faults, budget>>
ReadHistory(w) ==
  /\ pc[w] = "history"
  /\ \/ /\ Backlog(w) # {}
        /\ \E call \in Call : Deliver(w, FirstBatch(Backlog(w)), call)
     \/ /\ Backlog(w) = {}
        /\ GoOn(w, "idle")
        /\ UNCHANGED <<owner, count, faults>>
  /\ UNCHANGED <<tail, cursor, published, stopping, budget>>

(* run: the batch loop: return on SIGTERM, else take the next entry.       *)
TakeNext(w) ==
  /\ pc[w] = "batch"
  /\ \/ stopping[w] /\ batch[w] # {} /\ Abandon(w, "down")
     \/ batch[w] = {} /\ GoOn(w, "idle")
     \/ /\ ~stopping[w]
        /\ \E t \in FirstEntry(batch[w]) :
             /\ pc' = [pc EXCEPT ![w] = "run"]
             /\ held' = [held EXCEPT ![w] = t]
             /\ batch' = [batch EXCEPT ![w] = @ \ {t}]
  /\ UNCHANGED <<stream, published, stopping, faults, budget>>

(* process_message up to the result: from_redis_message raises outside the *)
(* try block, the orchestrator may raise inside it.                        *)
Execute(w) ==
  /\ pc[w] = "run"
  /\ \/ /\ held[w] \in Malformed
        /\ Abandon(w, "idle")
     \/ /\ held[w] \notin Malformed
        /\ GoOn(w, "publish") \/ GoOn(w, "failed")
  /\ UNCHANGED <<stream, published, stopping, faults, budget>>

(* process_message: XADD of the result envelope.                           *)
PublishUnchecked(w) ==
  /\ pc[w] = "publish"
  /\ \E call \in Call : Charge(call) /\ Post(held[w], "result", call) /\ GoOn(w, "ack")
  /\ UNCHANGED <<stream, stopping, budget>>
Publish(w) ==
  /\ pc[w] = "publish"
  /\ \E call \in Call :
       /\ Charge(call)
       /\ Post(held[w], "result", call)
       /\ GoOn(w, IF call = "ok" THEN "ack" ELSE "failed")
  /\ UNCHANGED <<stream, stopping, budget>>

(* process_message: XACK.                                                  *)
AckForgotten(w) ==
  /\ pc[w] = "ack"
  /\ GoOn(w, "batch")
  /\ UNCHANGED <<stream, published, stopping, faults, budget>>
Ack(w) ==
  /\ pc[w] = "ack"
  /\ \E call \in Call :
       /\ Charge(call)
       /\ Remove(held[w], call)
       /\ GoOn(w, IF call = "ok" THEN "batch" ELSE "failed")
  /\ UNCHANGED <<tail, cursor, count, published, stopping, budget>>

(* _handle_failure: below the threshold the exception is raised again and  *)
(* ends the batch.                                                         *)
HandleFailure(w) ==
  /\ pc[w] = "failed"
  /\ \E call \in {"ok", "lost"} :
       /\ Charge(call)
       /\ IF ShouldDeadLetter(ObservedCount(held[w], call))
          THEN GoOn(w, "deadLetter")
          ELSE Abandon(w, "idle")
  /\ UNCHANGED <<stream, published, stopping, budget>>

(* send_to_dlq: its exceptions become a return value nobody looks at.      *)
DeadLetter(w) ==
  /\ pc[w] = "deadLetter"
  /\ \E call \in Call :
       /\ Charge(call)
       /\ Post(held[w], "dead", call)
  /\ GoOn(w, "reportError")
  /\ UNCHANGED <<stream, stopping, budget>>

(* _handle_failure: the error envelope; its exceptions are swallowed.      *)
ReportError(w) ==
  /\ pc[w] = "reportError"
  /\ \E call \in Call :
       /\ Charge(call)
       /\ Post(held[w], "error", call)
  /\ GoOn(w, "ackDead")
  /\ UNCHANGED <<stream, stopping, budget>>

(* _handle_failure: XACK; process_message raises again either way.         *)
AckDead(w) ==
  /\ pc[w] = "ackDead"
  /\ \E call \in Call :
       /\ Charge(call)
       /\ Remove(held[w], call)
  /\ Abandon(w, "idle")
  /\ UNCHANGED <<tail, cursor, count, published, stopping, budget>>

(* SIGTERM: the handler only sets shutdown_requested.                      *)
Signal(w) ==
  /\ pc[w] # "down" /\ ~stopping[w]
  /\ stops < MaxStops /\ Trouble < MaxTrouble
  /\ stops' = stops + 1
  /\ stopping' = [stopping EXCEPT ![w] = TRUE]
  /\ UNCHANGED <<stream, published, pc, held, batch, faults, crashes>>

(* The process is killed between two steps.                                *)
Crash(w) ==
  /\ pc[w] # "down"
  /\ crashes < MaxCrashes /\ Trouble < MaxTrouble
  /\ crashes' = crashes + 1
  /\ Abandon(w, "down")
  /\ UNCHANGED <<stream, published, stopping, faults, stops>>

(* The container is started again, with the process id it had before.      *)
Restart(w) ==
  /\ pc[w] = "down"
  /\ GoOn(w, "idle")
  /\ stopping' = [stopping EXCEPT ![w] = FALSE]
  /\ UNCHANGED <<stream, published, faults, budget>>

Step(w) ==
  \/ LeaveLoop(w) \/ ReadNew(w) \/ ReadHistory(w) \/ TakeNext(w)
  \/ Execute(w) \/ Publish(w) \/ Ack(w)
  \/ HandleFailure(w) \/ DeadLetter(w) \/ ReportError(w) \/ AckDead(w)

Next ==
  \/ Submit
  \/ \E w \in Worker : Step(w) \/ Signal(w) \/ Crash(w) \/ Restart(w)

(* A worker that is up keeps looping, and a container that stopped is      *)
(* started again.                                                          *)
Fairness == \A w \in Worker : WF_vars(Step(w)) /\ WF_vars(Restart(w))

Spec == Init /\ [][Next]_vars /\ Fairness

-----------------------------------------------------------------------------
(* What a worker read and has not yet settled.                             *)
InHand(w) == batch[w] \cup ({held[w]} \ {NoTask})

(* The type invariant, with who may hold what: an entry is in hand exactly *)
(* while process_message runs on it, and what a worker has in hand was     *)
(* delivered and is pending under its own name, or left the group under it *)
(* (run, process_message).                                                 *)
TypeOK ==
  /\ tail \in 0 .. NumTasks
  /\ cursor \in 0 .. tail
  /\ owner \in [Task -> {Name[w] : w \in Worker} \cup {NoOne}]
  /\ count \in [Task -> 0 .. MaxRetries]
  /\ published \in [Task -> [Kind -> Nat]]
  /\ pc \in [Worker -> Location]
  /\ held \in [Worker -> Task \cup {NoTask}]
  /\ batch \in [Worker -> SUBSET Task]
  /\ stopping \in [Worker -> BOOLEAN]
  /\ faults \in 0 .. MaxFaults /\ stops \in 0 .. MaxStops /\ crashes \in 0 .. MaxCrashes
  /\ \A w \in Worker : /\ pc[w] \in Busy <=> held[w] # NoTask
                       /\ \A t \in InHand(w) : t <= cursor /\ owner[t] \in {Name[w], NoOne}

Settled(t) == t <= cursor /\ owner[t] = NoOne
Answered(t) == \E k \in Kind : published[t][k] > 0
Replies(t) == published[t]["result"] + published[t]["error"]
Incidents == faults + crashes

(* An entry can leave the group with nothing recorded about it (send_to_dlq *)
(* swallows its failure), but only when both the dead letter and the error *)
(* envelope could not be written.                                          *)
LossPaidFor == \A t \in Task : Settled(t) /\ ~Answered(t) => faults >= 2

(* A further reply or dead letter costs a raised call or a crash; SIGTERM  *)
(* is free, because the flag is only read between two entries.             *)
DuplicatesPaidFor ==
  \A t \in Task : /\ Replies(t) <= 1 + Incidents
                  /\ published[t]["dead"] <= 1 + Incidents

(* Every entry that parses is settled in the end, across crashes, SIGTERMs *)
(* and raised calls, because a restarted process keeps its name, unless it *)
(* waits behind an entry that does not parse: that one heads every re-read *)
(* and ends every batch.                                                   *)
BehindPoison(t) == \E m \in Malformed : m < t /\ owner[m] = owner[t] /\ owner[t] # NoOne
EveryTaskSettles ==
  \A t \in Task \ Malformed : (t <= tail) ~> (Settled(t) \/ BehindPoison(t))

=============================================================================
