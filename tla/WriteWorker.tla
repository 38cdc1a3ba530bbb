----------------------------- MODULE WriteWorker -----------------------------
(***************************************************************************)
(* The write worker: WriteWorker                                           *)
(* (tiers/tier_3/persistence_agent/write_worker.py), which shares the      *)
(* stream persist:tasks among processes that read undelivered entries      *)
(* only; what is pending is never read again.  An entry is delivered twice *)
(* when an operator sets the group back (scripts/utils/ops.py, group-reset; *)
(* scripts/redis/streams_group_reset.py, "'0-0' for replay"); a key with a *)
(* time to live is to keep a replay from repeating the work.               *)
(*                                                                         *)
(* SIGTERM runs `shutdown` on the thread that processes: while it waits    *)
(* for the entry in flight, that entry does not move.  An exception that   *)
(* leaves `process` ends the process.                                      *)
(*                                                                         *)
(* WORKER_ONCE is off, and the rate limiter is the one in memory.          *)
(***************************************************************************)
EXTENDS Naturals, FiniteSets

CONSTANTS
  Worker,      \* the worker processes
  NumTasks,    \* number of entries that producers add to the stream
  Malformed,   \* the entries whose envelope does not parse
  LastTry,     \* the entries whose envelope has max_retries of one more than its retry_count
  MaxRetries,  \* REDIS_MAX_RETRIES
  DlqEnabled,  \* ENABLE_DLQ
  Allowed      \* bound: SUBSET [Trouble -> Nat], how much trouble there may be

Task == 1 .. NumTasks
NoTask == 0

(* A call that raises, a process that is killed, a SIGTERM, a time-out of  *)
(* the rate limiter, a reset of the group, a key that expires.             *)
Trouble == {"fault", "crash", "stop", "throttle", "rewind", "expiry"}

ASSUME WriteWorkerAssumption ==
  /\ IsFiniteSet(Worker)
  /\ NumTasks \in Nat /\ MaxRetries \in Nat
  /\ Malformed \subseteq Task /\ LastTry \subseteq Task
  /\ DlqEnabled \in BOOLEAN
  /\ Allowed \subseteq [Trouble -> Nat]
  /\ [trouble \in Trouble |-> 0] \in Allowed

VARIABLES
  tail,        \* number of entries in the task stream
  grouped,     \* whether the consumer group exists
  cursor,      \* its last-delivered-id
  pending,     \* SUBSET Task: the pending entries list
  keys,        \* SUBSET Task: the entries whose idempotency key is set
  acked,       \* SUBSET Task: the entries that were ever acknowledged
  written,     \* [Task -> Nat]: how often the write of an entry was applied
  published,   \* [Task -> [Kind -> Nat]]: what was added to the result and dead-letter streams
  pc,          \* [Worker -> Location]
  held,        \* [Worker -> Task or NoTask]
  tries,       \* [Worker -> Nat]: retries so far
  processing,  \* [Worker -> BOOLEAN]: _processing
  waiting,     \* [Worker -> BOOLEAN]: in shutdown's waiting loop
  stopping,    \* [Worker -> BOOLEAN]: _stop
  spent        \* [Trouble -> Nat]: the trouble there was so far

stream == <<tail, grouped, cursor, pending, acked>>
work == <<written, published>>
local == <<pc, held, tries, processing>>
control == <<waiting, stopping>>
vars == <<stream, keys, work, local, control, spent>>

Kind == {"result", "error", "dead"}
Working == {"write", "publish", "report", "ack"}
Busy == {"taken", "lock", "skip"} \cup Working
Location == {"down", "head", "read"} \cup Busy

Init ==
  /\ tail = 0 /\ grouped = FALSE /\ cursor = 0
  /\ pending = {} /\ keys = {} /\ acked = {}
  /\ written = [t \in Task |-> 0]
  /\ published = [t \in Task |-> [k \in Kind |-> 0]]
  /\ pc = [w \in Worker |-> "down"]
  /\ held = [w \in Worker |-> NoTask]
  /\ tries = [w \in Worker |-> 0]
  /\ processing = [w \in Worker |-> FALSE]
  /\ waiting = [w \in Worker |-> FALSE] /\ stopping = [w \in Worker |-> FALSE]
  /\ spent = [trouble \in Trouble |-> 0]

-----------------------------------------------------------------------------
Spend(trouble) ==
  /\ spent' = [spent EXCEPT ![trouble] = @ + 1]
  /\ spent' \in Allowed

(* The outcomes of one call to Redis or the database: lost calls never     *)
(* reached it, torn ones were applied and raised all the same.             *)
Call == {"ok", "lost", "torn"}
Applied(call) == call # "lost"
Charge(call) == IF call = "ok" THEN UNCHANGED spent ELSE Spend("fault")

Goto(w, location) ==
  /\ pc' = [pc EXCEPT ![w] = location]
  /\ UNCHANGED <<held, tries, processing>>

(* w is done with its entry and goes on, or its process ends.              *)
LetGo(w, location, busy) ==
  /\ pc' = [pc EXCEPT ![w] = location]
  /\ held' = [held EXCEPT ![w] = NoTask]
  /\ tries' = [tries EXCEPT ![w] = 0]
  /\ processing' = [processing EXCEPT ![w] = busy]
Finish(w) == LetGo(w, "head", FALSE)
Exit(w) == LetGo(w, "down", FALSE)

Post(t, kind, call) ==
  published' = IF Applied(call) THEN [published EXCEPT ![t][kind] = @ + 1] ELSE published

Remove(t, call) ==
  /\ pending' = IF Applied(call) THEN pending \ {t} ELSE pending
  /\ acked' = IF Applied(call) THEN acked \cup {t} ELSE acked

(* process, the retry loop: the whole entry again, until retries run out.  *)
RetryOnceMore(w) ==
  IF tries[w] <= MaxRetries
  THEN /\ pc' = [pc EXCEPT ![w] = "write"]
       /\ tries' = [tries EXCEPT ![w] = @ + 1]
       /\ UNCHANGED <<held, processing>>
  ELSE Goto(w, "report")
Retry(w) ==
  IF tries[w] < MaxRetries
  THEN /\ pc' = [pc EXCEPT ![w] = "write"]
       /\ tries' = [tries EXCEPT ![w] = @ + 1]
       /\ UNCHANGED <<held, processing>>
  ELSE Goto(w, "report")

-----------------------------------------------------------------------------
(* A producer adds the next task to the stream.                            *)
Submit ==
  /\ tail < NumTasks
  /\ tail' = tail + 1
  /\ UNCHANGED <<grouped, cursor, pending, acked, keys, work, local, control, spent>>

(* __init__: the first worker creates the group, at the end of the stream; *)
(* exceptions are swallowed.                                               *)
Start(w) ==
  /\ pc[w] = "down"
  /\ \E call \in Call :
       /\ Charge(call)
       /\ grouped' = (grouped \/ Applied(call))
       /\ cursor' = IF ~grouped /\ Applied(call) THEN tail ELSE cursor
  /\ Goto(w, "head")
  /\ stopping' = [stopping EXCEPT ![w] = FALSE]
  /\ UNCHANGED <<tail, pending, acked, keys, work, waiting>>

(* start: the loop head.                                                   *)
LoopHeadBlind(w) ==
  /\ pc[w] = "head"
  /\ Goto(w, "read")
  /\ UNCHANGED <<stream, keys, work, control, spent>>
LoopHead(w) ==
  /\ pc[w] = "head"
  /\ IF stopping[w] THEN Exit(w) ELSE Goto(w, "read")
  /\ UNCHANGED <<stream, keys, work, control, spent>>

(* start: XREADGROUP of one undelivered entry.  What it raises, also       *)
(* NOGROUP, ends the process.                                              *)
ReadNew(w) ==
  /\ pc[w] = "read"
  /\ \/ ~grouped /\ Exit(w) /\ UNCHANGED <<cursor, pending, spent>>
     \/ grouped /\ cursor = tail /\ Goto(w, "head") /\ UNCHANGED <<cursor, pending, spent>>
     \/ /\ grouped /\ cursor < tail
        /\ \E call \in Call :
             /\ Charge(call)
             /\ cursor' = IF Applied(call) THEN cursor + 1 ELSE cursor
             /\ pending' = IF Applied(call) THEN pending \cup {cursor + 1} ELSE pending
             /\ IF call = "ok"
                THEN /\ pc' = [pc EXCEPT ![w] = "taken"]
                     /\ held' = [held EXCEPT ![w] = cursor + 1]
                     /\ UNCHANGED <<tries, processing>>
                ELSE Exit(w)
  /\ UNCHANGED <<tail, grouped, acked, keys, work, control>>

(* start and the head of process: an entry read after SIGTERM is not begun; *)
(* a time-out of the rate limiter returns with _processing set; an         *)
(* envelope that does not parse raises.                                    *)
Admit(w) ==
  /\ pc[w] = "taken"
  /\ \/ stopping[w] /\ LetGo(w, "head", processing[w]) /\ UNCHANGED spent
     \/ ~stopping[w] /\ Spend("throttle") /\ LetGo(w, "head", TRUE)
     \/ ~stopping[w] /\ held[w] \in Malformed /\ Exit(w) /\ UNCHANGED spent
     \/ /\ ~stopping[w] /\ held[w] \notin Malformed
        /\ pc' = [pc EXCEPT ![w] = "lock"]
        /\ processing' = [processing EXCEPT ![w] = TRUE]
        /\ UNCHANGED <<held, tries, spent>>
  /\ UNCHANGED <<stream, keys, work, control>>

(* process: SET NX EX of the idempotency key; exceptions are swallowed.    *)
LockBlind(w) ==
  /\ pc[w] = "lock"
  /\ keys' = keys \cup {held[w]}
  /\ Goto(w, "write")
  /\ UNCHANGED <<stream, work, control, spent>>
Lock(w) ==
  /\ pc[w] = "lock"
  /\ \E call \in Call :
       /\ Charge(call)
       /\ keys' = IF Applied(call) THEN keys \cup {held[w]} ELSE keys
       /\ Goto(w, IF call = "ok" /\ held[w] \in keys THEN "skip" ELSE "write")
  /\ UNCHANGED <<stream, work, control>>

(* process: XACK of an entry whose key was set already; exceptions are     *)
(* swallowed.                                                              *)
Skip(w) ==
  /\ pc[w] = "skip"
  /\ \E call \in Call : Charge(call) /\ Remove(held[w], call)
  /\ Finish(w)
  /\ UNCHANGED <<tail, grouped, cursor, keys, work, control>>

(* _handle_task: the agent writes, or refuses, or its database call raises. *)
Write(w) ==
  /\ pc[w] = "write"
  /\ \/ Retry(w) /\ UNCHANGED <<written, spent>>
     \/ \E call \in Call :
          /\ Charge(call)
          /\ written' = IF Applied(call) THEN [written EXCEPT ![held[w]] = @ + 1] ELSE written
          /\ IF call = "ok" THEN Goto(w, "publish") ELSE Retry(w)
  /\ UNCHANGED <<stream, keys, published, control>>

(* process: XADD of the result.                                            *)
PublishUnchecked(w) ==
  /\ pc[w] = "publish"
  /\ \E call \in Call : Charge(call) /\ Post(held[w], "result", call)
  /\ Goto(w, "ack")
  /\ UNCHANGED <<stream, keys, written, control>>
Publish(w) ==
  /\ pc[w] = "publish"
  /\ \E call \in Call :
       /\ Charge(call)
       /\ Post(held[w], "result", call)
       /\ IF call = "ok" THEN Goto(w, "ack") ELSE Retry(w)
  /\ UNCHANGED <<stream, keys, written, control>>

(* process, retries exhausted: a dead letter, whose exceptions are         *)
(* swallowed, or an error envelope, whose exceptions end the process.      *)
Report(w) ==
  /\ pc[w] = "report"
  /\ \E call \in Call :
       /\ Charge(call)
       /\ \/ /\ held[w] \in LastTry /\ DlqEnabled
             /\ Post(held[w], "dead", call)
             /\ Goto(w, "ack")
          \/ /\ held[w] \notin LastTry \/ ~DlqEnabled
             /\ Post(held[w], "error", call)
             /\ IF call = "ok" THEN Goto(w, "ack") ELSE Exit(w)
  /\ UNCHANGED <<stream, keys, written, control>>

(* process: XACK; exceptions are swallowed.  The key stays.                *)
AckForgotten(w) ==
  /\ pc[w] = "ack"
  /\ Finish(w)
  /\ UNCHANGED <<stream, keys, work, control, spent>>
AckUnlocking(w) ==
  /\ pc[w] = "ack"
  /\ \E call \in Call : Charge(call) /\ Remove(held[w], call)
  /\ keys' = keys \ {held[w]}
  /\ Finish(w)
  /\ UNCHANGED <<tail, grouped, cursor, work, control>>
Ack(w) ==
  /\ pc[w] = "ack"
  /\ \E call \in Call : Charge(call) /\ Remove(held[w], call)
  /\ Finish(w)
  /\ UNCHANGED <<tail, grouped, cursor, keys, work, control>>

-----------------------------------------------------------------------------
(* SIGTERM: shutdown waits when _processing is set, else it sets _stop.    *)
Signal(w) ==
  /\ pc[w] # "down" /\ ~waiting[w] /\ ~stopping[w]
  /\ Spend("stop")
  /\ IF processing[w]
     THEN waiting' = [waiting EXCEPT ![w] = TRUE] /\ UNCHANGED stopping
     ELSE stopping' = [stopping EXCEPT ![w] = TRUE] /\ UNCHANGED waiting
  /\ UNCHANGED <<stream, keys, work, local>>

(* shutdown: thirty seconds have passed; _stop is set and the entry goes   *)
(* on.                                                                     *)
ResumeWhenIdle(w) ==
  /\ waiting[w] /\ ~processing[w]
  /\ waiting' = [waiting EXCEPT ![w] = FALSE]
  /\ stopping' = [stopping EXCEPT ![w] = TRUE]
  /\ UNCHANGED <<stream, keys, work, local, spent>>
Resume(w) ==
  /\ waiting[w]
  /\ waiting' = [waiting EXCEPT ![w] = FALSE]
  /\ stopping' = [stopping EXCEPT ![w] = TRUE]
  /\ UNCHANGED <<stream, keys, work, local, spent>>

(* The process is killed: at any time, or because it is still waiting when *)
(* the grace period of its container ends, ten seconds after SIGTERM.      *)
Kill(w) ==
  /\ pc[w] # "down"
  /\ \/ waiting[w] /\ UNCHANGED spent
     \/ Spend("crash")
  /\ Exit(w)
  /\ waiting' = [waiting EXCEPT ![w] = FALSE]
  /\ UNCHANGED <<stream, keys, work, stopping>>

(* The idempotency key expires (OPS_IDEMP_TTL).                            *)
Expire(t) ==
  /\ t \in keys
  /\ Spend("expiry")
  /\ keys' = keys \ {t}
  /\ UNCHANGED <<stream, work, local, control>>

(* An operator sets the group to the beginning of the stream, to replay    *)
(* it, or to its end, to skip what is there.                               *)
GroupReset ==
  /\ grouped
  /\ Spend("rewind")
  /\ cursor' \in {0, tail}
  /\ UNCHANGED <<tail, grouped, pending, acked, keys, work, local, control>>

Step(w) ==
  /\ ~waiting[w]
  /\ \/ LoopHead(w) \/ ReadNew(w) \/ Admit(w) \/ Lock(w) \/ Skip(w)
     \/ Write(w) \/ Publish(w) \/ Report(w) \/ Ack(w)

Next ==
  \/ Submit
  \/ \E w \in Worker : Start(w) \/ Step(w) \/ Signal(w) \/ Resume(w) \/ Kill(w)
  \/ \E t \in Task : Expire(t)
  \/ GroupReset

(* A worker that is up keeps looping, its wait for the entry in flight has *)
(* a time-out, and a container that stopped is started again.              *)
Fairness == \A w \in Worker : WF_vars(Step(w)) /\ WF_vars(Resume(w)) /\ WF_vars(Start(w))

Spec == Init /\ [][Next]_vars /\ Fairness

-----------------------------------------------------------------------------
(* Types; no worker retries more often than MaxRetries allows (process).   *)
TypeOK ==
  /\ tail \in 0 .. NumTasks /\ cursor \in 0 .. tail /\ grouped \in BOOLEAN
  /\ pending \subseteq Task /\ acked \subseteq Task /\ keys \subseteq Task
  /\ written \in [Task -> Nat]
  /\ published \in [Task -> [Kind -> Nat]]
  /\ pc \in [Worker -> Location]
  /\ held \in [Worker -> Task \cup {NoTask}]
  /\ \A w \in Worker : pc[w] \in Busy <=> held[w] # NoTask
  /\ tries \in [Worker -> 0 .. MaxRetries]
  /\ processing \in [Worker -> BOOLEAN]
  /\ waiting \in [Worker -> BOOLEAN] /\ stopping \in [Worker -> BOOLEAN]
  /\ spent \in Allowed

InHand(t) == \E w \in Worker : held[w] = t
Replies(t) == published[t]["result"] + published[t]["error"]
Answered(t) == \E k \in Kind : published[t][k] > 0

(* However often the group is set back, two workers never work on one      *)
(* entry at once, unless its key expired or could not be set.              *)
WorkIsExclusive ==
  spent["fault"] + spent["expiry"] = 0 =>
    \A v, w \in Worker :
      {pc[v], pc[w]} \subseteq Working /\ held[v] = held[w] => v = w

(* An entry is written and answered once; each further time costs a call   *)
(* that raised or a key that expired, however often it is delivered and    *)
(* whoever dies.                                                           *)
RepetitionPaidFor ==
  \A t \in Task :
    /\ written[t] <= 1 + spent["fault"] + spent["expiry"]
    /\ Replies(t) <= 1 + spent["fault"] + spent["expiry"]

(* An acknowledged entry was answered, unless its dead letter could not be *)
(* written, or it was replayed while its key said that a worker was about  *)
(* to: that worker still is, or it died.                                   *)
AckedIsAnswered ==
  \A t \in acked :
    \/ Answered(t)
    \/ t \in LastTry /\ DlqEnabled /\ spent["fault"] > 0
    \/ /\ spent["rewind"] > 0
       /\ InHand(t) \/ spent["fault"] + spent["crash"] + spent["stop"] > 0

(* An entry stays pending without a worker only when something went wrong: *)
(* it did not parse, a call raised, the process was killed or told to stop, *)
(* or the rate limiter timed out.                                          *)
StrandedPaidFor ==
  \A t \in pending \ Malformed :
    InHand(t) \/ spent["fault"] + spent["crash"] + spent["stop"] + spent["throttle"] > 0

(* Every submitted task is delivered and worked off or left behind; no     *)
(* worker keeps it for ever, not even when it is told to stop meanwhile.   *)
EveryTaskIsLetGo == \A t \in Task : (t <= tail) ~> (t <= cursor /\ ~InHand(t))

(* A worker that was told to stop does.                                    *)
ShutdownEnds == \A w \in Worker : (waiting[w] \/ stopping[w]) ~> (pc[w] = "down")
=============================================================================
