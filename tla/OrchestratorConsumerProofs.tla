---------------------- MODULE OrchestratorConsumerProofs ----------------------
(***************************************************************************)
(* What the Tier-2 consumer guarantees, for any number of workers and      *)
(* entries, any batch size, any retry limit of at least two, and any       *)
(* number of raised calls, SIGTERMs and crashes.                           *)
(***************************************************************************)
EXTENDS OrchestratorConsumer, FiniteSetTheorems, TLAPS

(* What each variable may hold.                                            *)
Types ==
  /\ tail \in 0 .. NumTasks
  /\ cursor \in 0 .. tail
  /\ owner \in [Task -> {Name[w] : w \in Worker} \cup {NoOne}]
  /\ count \in [Task -> 0 .. MaxRetries]
  /\ published \in [Task -> [Kind -> Nat]]
  /\ pc \in [Worker -> Location]
  /\ held \in [Worker -> Task \cup {NoTask}]
  /\ batch \in [Worker -> SUBSET Task]
  /\ stopping \in [Worker -> BOOLEAN]
  /\ faults \in 0 .. MaxFaults /\ stops \in 0 .. MaxStops /\ crashes \in 0 .. MaxCrashes

(* What a worker has in hand is pending under its name, or gone: another   *)
(* process that shares the name may have acknowledged it.                  *)
Mine == \A w \in Worker : \A t \in InHand(w) : owner[t] \in {Name[w], NoOne}

(* An entry that left the group: delivered and no longer pending.          *)
Gone(t) == t <= cursor /\ owner[t] = NoOne

(* What a worker has in hand: an entry exactly in process_message, and a   *)
(* batch, of other entries, only from the read until the batch loop ends.  *)
Hands ==
  \A w \in Worker :
    /\ pc[w] \in Busy <=> held[w] # NoTask
    /\ pc[w] \in {"down", "idle", "history"} => batch[w] = {}
    /\ held[w] <= cursor /\ held[w] \notin batch[w]
    /\ \A t \in batch[w] : t <= cursor

(* Nothing is pending before it is delivered.                              *)
Fresh == \A t \in Task : t > cursor => owner[t] = NoOne

(* An entry that leaves the group has an outcome, or cost two faults.      *)
Outcomes ==
  /\ \A t \in Task : Gone(t) => Answered(t) \/ faults >= 2
  /\ \A w \in Worker :
       /\ pc[w] = "ack" => Answered(held[w])
       /\ pc[w] = "reportError" => Answered(held[w]) \/ faults >= 1
       /\ pc[w] = "ackDead" => Answered(held[w]) \/ faults >= 2

(* What a worker has in hand is pending under its name, except that a torn *)
(* XACK may have removed it just before _handle_failure.                   *)
Owned ==
  \A w \in Worker :
    /\ \A t \in batch[w] : owner[t] = Name[w]
    /\ pc[w] \in Busy => \/ owner[held[w]] = Name[w]
                         \/ pc[w] = "failed" /\ owner[held[w]] = NoOne

(* An entry has one reply and one dead letter in hand until it left the    *)
(* group or a worker is past the step that writes it.                      *)
Done(t, after) == Gone(t) \/ \E w \in Worker : held[w] = t /\ pc[w] \in after
Open(t, after) == IF Done(t, after) THEN 0 ELSE 1
ReplyLedger == \A t \in Task : Replies(t) + Open(t, {"ack", "ackDead"}) <= 1 + Incidents
DeadLedger ==
  \A t \in Task : published[t]["dead"] + Open(t, {"reportError", "ackDead"}) <= 1 + Incidents

USE OrchestratorAssumption DEF Task, NoTask

-----------------------------------------------------------------------------
(* One read returns an interval that starts at the cursor, and Max is its  *)
(* last entry.                                                             *)
LEMMA ReadInterval ==
  ASSUME NEW c \in Nat, NEW n \in Nat, c < n
  PROVE  \E m \in (c + 1) .. n : /\ FirstBatch((c + 1) .. n) = (c + 1) .. m
                                 /\ Max((c + 1) .. m) = m
<1>. DEFINE T == (c + 1) .. n
            m == IF n <= c + Batch THEN n ELSE c + Batch
<1>1. m \in (c + 1) .. n
  OBVIOUS
<1>2. ASSUME NEW t \in T
      PROVE  Cardinality({u \in T : u < t}) = t - 1 - c
  <2>1. {u \in T : u < t} = (c + 1) .. (t - 1)
    OBVIOUS
  <2>2. Cardinality((c + 1) .. (t - 1)) = t - 1 - c
    BY FS_Interval
  <2>. QED BY <2>1, <2>2
<1>3. FirstBatch(T) = {t \in T : t - 1 - c < Batch}
  BY <1>2 DEF FirstBatch
<1>4. {t \in T : t - 1 - c < Batch} = (c + 1) .. m
  OBVIOUS
<1>5. Max((c + 1) .. m) = m
  <2>1. m \in (c + 1) .. m /\ \A y \in (c + 1) .. m : m >= y
    BY <1>1
  <2>2. \A x \in (c + 1) .. m : (\A y \in (c + 1) .. m : x >= y) => x = m
    BY <2>1
  <2>. QED BY <2>1, <2>2 DEF Max
<1>. QED BY <1>1, <1>3, <1>4, <1>5

-----------------------------------------------------------------------------
(* What one step does to the worker that moves and to the others.          *)
Others(w) ==
  \A v \in Worker : v # w => pc'[v] = pc[v] /\ held'[v] = held[v] /\ batch'[v] = batch[v]
Moved(w, location, entry, rest) ==
  /\ pc' = [pc EXCEPT ![w] = location]
  /\ held' = [held EXCEPT ![w] = entry]
  /\ batch' = [batch EXCEPT ![w] = rest]

LocalOK ==
  /\ pc \in [Worker -> Location]
  /\ held \in [Worker -> Task \cup {NoTask}]
  /\ batch \in [Worker -> SUBSET Task]
StreamOK ==
  /\ tail \in 0 .. NumTasks
  /\ cursor \in 0 .. tail
  /\ owner \in [Task -> {Name[w] : w \in Worker} \cup {NoOne}]
  /\ count \in [Task -> 0 .. MaxRetries]
PostsOK == published \in [Task -> [Kind -> Nat]]
BudgetOK == faults \in 0 .. MaxFaults /\ stops \in 0 .. MaxStops /\ crashes \in 0 .. MaxCrashes

LEMMA TypeParts ==
  Types <=> LocalOK /\ StreamOK /\ PostsOK /\ BudgetOK /\ stopping \in [Worker -> BOOLEAN]
BY DEF Types, LocalOK, StreamOK, PostsOK, BudgetOK

LEMMA MovedEffect ==
  ASSUME LocalOK, NEW w \in Worker, NEW l, NEW e, NEW r, Moved(w, l, e, r)
  PROVE  pc'[w] = l /\ held'[w] = e /\ batch'[w] = r /\ Others(w)
BY DEF LocalOK, Moved, Others

LEMMA MovedType ==
  ASSUME LocalOK, NEW w \in Worker, NEW l \in Location, NEW e \in Task \cup {NoTask},
         NEW r \in SUBSET Task, Moved(w, l, e, r)
  PROVE  LocalOK'
BY DEF LocalOK, Moved

LEMMA GoOnMoved ==
  ASSUME LocalOK, NEW w \in Worker, NEW l, GoOn(w, l)
  PROVE  Moved(w, l, IF l \in Busy THEN held[w] ELSE NoTask, batch[w])
BY DEF LocalOK, GoOn, Moved

LEMMA AbandonMoved ==
  ASSUME LocalOK, NEW w \in Worker, NEW l, Abandon(w, l)
  PROVE  Moved(w, l, NoTask, {})
BY DEF LocalOK, Abandon, Moved

LEMMA DeliverMoved ==
  ASSUME LocalOK, NEW w \in Worker, NEW T, NEW call, Deliver(w, T, call)
  PROVE  Moved(w, IF call = "ok" THEN "batch" ELSE "idle", held[w], IF call = "ok" THEN T ELSE {})
BY DEF LocalOK, Deliver, Moved

(* What a call may cost.                                                   *)
LEMMA ChargeEffect ==
  ASSUME BudgetOK, NEW call, Charge(call)
  PROVE  /\ faults' \in 0 .. MaxFaults
         /\ call = "ok" => faults' = faults
         /\ call # "ok" => faults' = faults + 1
BY DEF Charge, BudgetOK

LEMMA PostType ==
  ASSUME PostsOK, NEW t, NEW k \in Kind, NEW call, Post(t, k, call)
  PROVE  PostsOK'
<1>1. CASE t \in Task
  <2>1. published[t] \in [Kind -> Nat] /\ published[t][k] + 1 \in Nat
    BY <1>1 DEF PostsOK
  <2>2. [published[t] EXCEPT ![k] = @ + 1] \in [Kind -> Nat]
    BY <2>1
  <2>. QED BY <1>1, <2>2 DEF PostsOK, Post
<1>2. CASE t \notin Task
  BY <1>2 DEF PostsOK, Post
<1>. QED BY <1>1, <1>2

LEMMA RemoveType ==
  ASSUME StreamOK, NEW t, NEW call, Remove(t, call), UNCHANGED <<tail, cursor, count>>
  PROVE  StreamOK'
BY DEF StreamOK, Remove

LEMMA DeliverType ==
  ASSUME StreamOK, NEW w \in Worker, NEW T, NEW call, Deliver(w, T, call),
         UNCHANGED tail, cursor' \in 0 .. tail
  PROVE  StreamOK'
<1>1. \A t \in Task : CountUp(count[t]) \in 0 .. MaxRetries /\ count[t] \in 0 .. MaxRetries
  BY DEF StreamOK, CountUp
<1>2. count' \in [Task -> 0 .. MaxRetries]
  BY <1>1 DEF Deliver
<1>3. owner' \in [Task -> {Name[v] : v \in Worker} \cup {NoOne}]
  BY DEF Deliver, StreamOK
<1>. QED BY <1>2, <1>3 DEF StreamOK

(* XREADGROUP of new entries, flattened.                                   *)
LEMMA ReadNewMoves ==
  ASSUME Types, NEW w \in Worker, ReadNew(w)
  PROVE  /\ pc[w] = "idle" /\ UNCHANGED <<tail, published, stopping, budget>>
         /\ \/ /\ Moved(w, "history", NoTask, batch[w])
               /\ UNCHANGED <<cursor, owner, count, faults>>
            \/ \E call \in Call, m \in (cursor + 1) .. tail :
                 /\ Deliver(w, (cursor + 1) .. m, call)
                 /\ cursor' = IF Applied(call) THEN m ELSE cursor
<1>. /\ LocalOK /\ StreamOK
  BY TypeParts
<1>1. pc[w] = "idle" /\ UNCHANGED <<tail, published, stopping, budget>>
  BY DEF ReadNew
<1>2. CASE cursor < tail
  <2>1. cursor \in Nat /\ tail \in Nat
    BY DEF StreamOK
  <2>2. PICK m \in (cursor + 1) .. tail :
          /\ FirstBatch((cursor + 1) .. tail) = (cursor + 1) .. m
          /\ Max((cursor + 1) .. m) = m
    BY <1>2, <2>1, ReadInterval
  <2>3. PICK call \in Call :
          /\ Deliver(w, (cursor + 1) .. m, call)
          /\ cursor' = IF Applied(call) THEN m ELSE cursor
    BY <1>2, <2>1, <2>2 DEF ReadNew
  <2>. QED BY <1>1, <2>3
<1>3. CASE GoOn(w, "history") /\ UNCHANGED <<cursor, owner, count, faults>>
  BY <1>1, <1>3, GoOnMoved DEF Busy
<1>. QED BY <1>2, <1>3 DEF ReadNew

LEMMA FirstBatchSubset == \A T : FirstBatch(T) \subseteq T
BY DEF FirstBatch

LEMMA InitTypes == Init => Types
<1>. SUFFICES ASSUME Init PROVE Types
  OBVIOUS
<1>1. LocalOK
  BY DEF Init, LocalOK, Location
<1>2. StreamOK
  BY DEF Init, StreamOK
<1>3. PostsOK
  BY DEF Init, PostsOK
<1>4. BudgetOK /\ stopping \in [Worker -> BOOLEAN]
  BY DEF Init, BudgetOK
<1>. QED BY <1>1, <1>2, <1>3, <1>4, TypeParts

LEMMA StepTypes ==
  ASSUME Types, [Next]_vars
  PROVE  Types'
<1>. /\ LocalOK /\ StreamOK /\ PostsOK /\ BudgetOK /\ stopping \in [Worker -> BOOLEAN]
  BY TypeParts
<1>a. ASSUME LocalOK', StreamOK', PostsOK', BudgetOK', stopping' \in [Worker -> BOOLEAN]
      PROVE  Types'
  BY <1>a DEF Types, LocalOK, StreamOK, PostsOK, BudgetOK
<1>b. ASSUME NEW w \in Worker, NEW l \in Location, GoOn(w, l) \/ Abandon(w, l)
      PROVE  LocalOK'
  <2>1. held[w] \in Task \cup {NoTask} /\ batch[w] \in SUBSET Task
    BY DEF LocalOK
  <2>. QED BY <1>b, <2>1, GoOnMoved, AbandonMoved, MovedType
<1>c. ASSUME NEW w \in Worker, NEW T \in SUBSET Task, NEW call, Deliver(w, T, call)
      PROVE  LocalOK'
  <2>1. held[w] \in Task \cup {NoTask}
    BY DEF LocalOK
  <2>2. "batch" \in Location /\ "idle" \in Location
    BY DEF Location
  <2>. QED BY <1>c, <2>1, <2>2, DeliverMoved, MovedType
<1>d. ASSUME UNCHANGED stream
      PROVE  StreamOK'
  BY <1>d DEF stream, StreamOK
<1>e. ASSUME NEW call, Charge(call), UNCHANGED budget
      PROVE  BudgetOK'
  BY <1>e, ChargeEffect DEF budget, BudgetOK
<1>f. ASSUME UNCHANGED <<faults, budget>>
      PROVE  BudgetOK'
  BY <1>f DEF budget, BudgetOK
<1>g. ASSUME UNCHANGED published
      PROVE  PostsOK'
  BY <1>g DEF PostsOK
<1>h. ASSUME UNCHANGED stopping
      PROVE  stopping' \in [Worker -> BOOLEAN]
  BY <1>h
<1>. HIDE DEF Task, NoTask
<1>1. CASE Submit
  <2>1. LocalOK'
    BY <1>1 DEF Submit, LocalOK
  <2>2. StreamOK'
    BY <1>1 DEF Submit, StreamOK
  <2>. QED BY <1>1, <2>1, <2>2, <1>a, <1>f, <1>g, <1>h DEF Submit
<1>2. ASSUME NEW w \in Worker, ReadNew(w)
      PROVE  Types'
  <2>1. CASE /\ Moved(w, "history", NoTask, batch[w])
             /\ UNCHANGED <<tail, published, stopping, budget, cursor, owner, count, faults>>
    <3>1. batch[w] \in SUBSET Task /\ "history" \in Location
      BY DEF LocalOK, Location
    <3>. QED BY <2>1, <3>1, MovedType, <1>a, <1>d, <1>f, <1>g, <1>h DEF stream, NoTask
  <2>2. ASSUME NEW call \in Call, NEW m \in (cursor + 1) .. tail,
               Deliver(w, (cursor + 1) .. m, call),
               cursor' = IF Applied(call) THEN m ELSE cursor,
               UNCHANGED <<tail, published, stopping, budget>>
        PROVE  Types'
    <3>1. (cursor + 1) .. m \in SUBSET Task /\ cursor' \in 0 .. tail
      BY <2>2 DEF StreamOK, Task
    <3>2. Charge(call)
      BY <2>2 DEF Deliver
    <3>. QED BY <2>2, <3>1, <3>2, DeliverType, <1>a, <1>c, <1>e, <1>g, <1>h
  <2>. QED BY <1>2, <2>1, <2>2, ReadNewMoves
<1>3. ASSUME NEW w \in Worker, ReadHistory(w)
      PROVE  Types'
  <2>1. UNCHANGED <<tail, cursor, published, stopping, budget>>
    BY <1>3 DEF ReadHistory
  <2>2. ASSUME NEW call \in Call, Deliver(w, FirstBatch(Backlog(w)), call)
        PROVE  Types'
    <3>1. FirstBatch(Backlog(w)) \in SUBSET Task
      BY FirstBatchSubset DEF Backlog
    <3>2. Charge(call) /\ cursor' \in 0 .. tail
      BY <2>1, <2>2 DEF Deliver, StreamOK
    <3>. QED BY <2>1, <2>2, <3>1, <3>2, DeliverType, <1>a, <1>c, <1>e, <1>g, <1>h
  <2>3. CASE GoOn(w, "idle") /\ UNCHANGED <<owner, count, faults>>
    <3>1. "idle" \in Location
      BY DEF Location
    <3>. QED BY <2>1, <2>3, <3>1, <1>a, <1>b, <1>d, <1>f, <1>g, <1>h DEF stream
  <2>. QED BY <1>3, <2>2, <2>3 DEF ReadHistory
<1>4. ASSUME NEW w \in Worker, TakeNext(w)
      PROVE  Types'
  <2>1. LocalOK'
    <3>1. CASE Abandon(w, "down") \/ GoOn(w, "idle")
      BY <3>1, <1>b DEF Location
    <3>2. ASSUME NEW t \in FirstEntry(batch[w]),
                 pc' = [pc EXCEPT ![w] = "run"], held' = [held EXCEPT ![w] = t],
                 batch' = [batch EXCEPT ![w] = @ \ {t}]
          PROVE  LocalOK'
      <4>1. t \in Task /\ batch[w] \ {t} \in SUBSET Task /\ "run" \in Location
        BY DEF FirstEntry, LocalOK, Location, Busy
      <4>2. Moved(w, "run", t, batch[w] \ {t})
        BY <3>2 DEF Moved, LocalOK
      <4>. QED BY <4>1, <4>2, MovedType
    <3>. QED BY <1>4, <3>1, <3>2 DEF TakeNext
  <2>. QED BY <1>4, <2>1, <1>a, <1>d, <1>f, <1>g, <1>h DEF TakeNext
<1>5. ASSUME NEW w \in Worker, LeaveLoop(w) \/ Execute(w)
      PROVE  Types'
  <2>1. LocalOK'
    BY <1>5, <1>b DEF LeaveLoop, Execute, Location, Busy
  <2>. QED BY <1>5, <2>1, <1>a, <1>d, <1>f, <1>g, <1>h DEF LeaveLoop, Execute
<1>6. ASSUME NEW w \in Worker, Publish(w) \/ DeadLetter(w) \/ ReportError(w)
      PROVE  Types'
  <2>1. LocalOK'
    <3>. {"ack", "failed", "reportError", "ackDead"} \subseteq Location
      BY DEF Location, Busy
    <3>. QED BY <1>6, <1>b DEF Publish, DeadLetter, ReportError
  <2>2. PostsOK'
    BY <1>6, PostType DEF Publish, DeadLetter, ReportError, Kind
  <2>3. BudgetOK'
    BY <1>6, <1>e DEF Publish, DeadLetter, ReportError
  <2>. QED BY <1>6, <2>1, <2>2, <2>3, <1>a, <1>d, <1>h DEF Publish, DeadLetter, ReportError
<1>7. ASSUME NEW w \in Worker, Ack(w) \/ AckDead(w)
      PROVE  Types'
  <2>1. LocalOK'
    <3>. {"batch", "failed", "idle"} \subseteq Location
      BY DEF Location, Busy
    <3>. QED BY <1>7, <1>b DEF Ack, AckDead
  <2>2. StreamOK'
    BY <1>7, RemoveType DEF Ack, AckDead
  <2>3. BudgetOK'
    BY <1>7, <1>e DEF Ack, AckDead
  <2>. QED BY <1>7, <2>1, <2>2, <2>3, <1>a, <1>g, <1>h DEF Ack, AckDead
<1>8. ASSUME NEW w \in Worker, HandleFailure(w)
      PROVE  Types'
  <2>1. LocalOK'
    <3>. {"deadLetter", "idle"} \subseteq Location
      BY DEF Location, Busy
    <3>. QED BY <1>8, <1>b DEF HandleFailure
  <2>2. BudgetOK'
    BY <1>8, <1>e DEF HandleFailure
  <2>. QED BY <1>8, <2>1, <2>2, <1>a, <1>d, <1>g, <1>h DEF HandleFailure
<1>9. ASSUME NEW w \in Worker, Signal(w) \/ Crash(w) \/ Restart(w)
      PROVE  Types'
  <2>1. LocalOK'
    <3>1. CASE Signal(w)
      BY <3>1 DEF Signal, LocalOK
    <3>2. CASE Crash(w) \/ Restart(w)
      <4>. {"down", "idle"} \subseteq Location
        BY DEF Location, Busy
      <4>. QED BY <3>2, <1>b DEF Crash, Restart
    <3>. QED BY <1>9, <3>1, <3>2
  <2>2. BudgetOK'
    BY <1>9 DEF Signal, Crash, Restart, budget, BudgetOK
  <2>3. stopping' \in [Worker -> BOOLEAN]
    BY <1>9 DEF Signal, Crash, Restart
  <2>. QED BY <1>9, <2>1, <2>2, <2>3, <1>a, <1>d, <1>g DEF Signal, Crash, Restart
<1>10. CASE UNCHANGED vars
  BY <1>10 DEF vars, stream, budget, Types
<1>. QED
  BY <1>1, <1>2, <1>3, <1>4, <1>5, <1>6, <1>7, <1>8, <1>9, <1>10 DEF Next, Step

-----------------------------------------------------------------------------
(* What the calls do to the streams.                                       *)
LEMMA PostEffect ==
  ASSUME PostsOK, NEW t \in Task, NEW k \in Kind, NEW call, Post(t, k, call)
  PROVE  \A u \in Task, j \in Kind :
           published'[u][j] = IF u = t /\ j = k /\ Applied(call) THEN published[u][j] + 1
                                                                 ELSE published[u][j]
<1>1. published \in [Task -> [Kind -> Nat]] /\ published[t] \in [Kind -> Nat]
  BY DEF PostsOK
<1>2. CASE Applied(call)
  <2>1. published' = [published EXCEPT ![t] = [published[t] EXCEPT ![k] = published[t][k] + 1]]
    BY <1>1, <1>2 DEF Post
  <2>2. published'[t] = [published[t] EXCEPT ![k] = published[t][k] + 1]
    BY <1>1, <2>1
  <2>3. \A u \in Task : u # t => published'[u] = published[u]
    BY <1>1, <2>1
  <2>. QED BY <1>1, <1>2, <2>2, <2>3
<1>3. CASE ~Applied(call)
  BY <1>3 DEF Post
<1>. QED BY <1>2, <1>3

(* What was published stays published.                                     *)
LEMMA PostKeeps ==
  ASSUME PostsOK, NEW t \in Task, NEW k \in Kind, NEW call, Post(t, k, call)
  PROVE  /\ \A u \in Task : Answered(u) => Answered(u)'
         /\ Applied(call) => Answered(t)'
<1>1. \A u \in Task, j \in Kind : published[u][j] \in Nat
  BY DEF PostsOK
<1>. QED BY <1>1, PostEffect DEF Answered

LEMMA RemoveEffect ==
  ASSUME StreamOK, NEW t, NEW call, Remove(t, call)
  PROVE  \A u \in Task : owner'[u] = IF u = t /\ Applied(call) THEN NoOne ELSE owner[u]
BY DEF StreamOK, Remove

LEMMA DeliverEffect ==
  ASSUME NEW w \in Worker, NEW T, NEW call, Deliver(w, T, call)
  PROVE  \A u \in Task : owner'[u] = IF u \in T /\ Applied(call) THEN Name[w] ELSE owner[u]
BY DEF Deliver

(* The locations, as facts rather than as enumerated sets.                 *)
LEMMA Locations ==
  /\ \A l \in Busy : l \in Location /\ l \notin {"down", "idle", "history", "batch"}
  /\ {"down", "idle", "history", "batch"} \subseteq Location
  /\ \A l \in {"run", "publish", "ack", "failed", "deadLetter", "reportError", "ackDead"} : l \in Busy
BY DEF Location, Busy

(* A worker in process_message holds a delivered entry, the others none.   *)
LEMMA HeldEntry ==
  ASSUME Types, Hands, NEW w \in Worker
  PROVE  /\ pc[w] \in Busy => held[w] \in Task /\ held[w] <= cursor
         /\ pc[w] \notin Busy => held[w] = NoTask
         /\ held[w] \in Task \cup {NoTask}
BY DEF Types, Hands

LEMMA HandsMoved ==
  ASSUME Types, Hands, NEW w \in Worker, NEW l, NEW e, NEW r, Moved(w, l, e, r),
         l \in Busy <=> e # NoTask,
         l \in {"down", "idle", "history"} => r = {},
         e \in Nat, cursor \in Nat, cursor' \in Nat, cursor <= cursor', e <= cursor', e \notin r,
         r \subseteq Task, \A t \in r : t <= cursor'
  PROVE  Hands'
<1>1. pc'[w] = l /\ held'[w] = e /\ batch'[w] = r /\ Others(w)
  BY TypeParts, MovedEffect
<1>2. ASSUME NEW v \in Worker
      PROVE  /\ pc'[v] \in Busy <=> held'[v] # NoTask
             /\ pc'[v] \in {"down", "idle", "history"} => batch'[v] = {}
             /\ held'[v] <= cursor' /\ held'[v] \notin batch'[v]
             /\ \A t \in Task : t \in batch'[v] => t <= cursor'
  <2>1. held[v] \in Nat /\ batch[v] \subseteq Task
    BY DEF Types
  <2>. QED BY <1>1, <2>1 DEF Hands, Others
<1>3. \A v \in Worker : batch'[v] \subseteq Task
  BY <1>1 DEF Others, Types
<1>. QED BY <1>2, <1>3 DEF Hands

(* Going on within process_message, or out of the batch.                   *)
LEMMA HandsGoOn ==
  ASSUME Types, Hands, NEW w \in Worker, NEW l \in Location, GoOn(w, l), UNCHANGED cursor,
         l \in Busy => pc[w] \in Busy,
         l \in {"down", "idle", "history"} => batch[w] = {}
  PROVE  Hands'
<1>1. Moved(w, l, IF l \in Busy THEN held[w] ELSE NoTask, batch[w])
  BY TypeParts, GoOnMoved
<1>2. cursor \in Nat /\ batch[w] \subseteq Task /\ held[w] \in Nat
  BY DEF Types
<1>3. /\ held[w] <= cursor /\ held[w] \notin batch[w] /\ (pc[w] \in Busy <=> held[w] # NoTask)
      /\ \A t \in batch[w] : t <= cursor
  BY DEF Hands
<1>. QED BY <1>1, <1>2, <1>3, HandsMoved

LEMMA HandsAbandon ==
  ASSUME Types, Hands, NEW w \in Worker, NEW l \in {"down", "idle"}, Abandon(w, l),
         UNCHANGED cursor
  PROVE  Hands'
<1>1. Moved(w, l, NoTask, {}) /\ cursor \in Nat
  BY TypeParts, AbandonMoved DEF Types
<1>. QED BY <1>1, HandsMoved, Locations

LEMMA HandsDeliver ==
  ASSUME Types, Hands, NEW w \in Worker, pc[w] \in {"idle", "history"}, NEW T \in SUBSET Task,
         NEW call, Deliver(w, T, call), cursor' \in Nat, cursor <= cursor',
         call = "ok" => \A t \in T : t <= cursor'
  PROVE  Hands'
<1>1. Moved(w, IF call = "ok" THEN "batch" ELSE "idle", held[w], IF call = "ok" THEN T ELSE {})
  BY TypeParts, DeliverMoved
<1>2. pc[w] \notin Busy /\ "batch" \notin Busy /\ "idle" \notin Busy
  BY Locations
<1>3. held[w] = NoTask
  BY <1>2, HeldEntry
<1>. cursor \in Nat
  BY DEF Types
<1>4. CASE call = "ok"
  <2>1. Moved(w, "batch", NoTask, T) /\ NoTask \notin T
    BY <1>1, <1>3, <1>4
  <2>2. NoTask \in Nat /\ NoTask <= cursor' /\ "batch" \notin {"down", "idle", "history"}
    OBVIOUS
  <2>3. T \subseteq Task /\ \A t \in T : t <= cursor'
    BY <1>4
  <2>. QED BY <1>2, <2>1, <2>2, <2>3, HandsMoved
<1>5. CASE call # "ok"
  BY <1>1, <1>2, <1>3, <1>5, HandsMoved
<1>. QED BY <1>4, <1>5

LEMMA StepHands ==
  ASSUME Types, Hands, Fresh, [Next]_vars
  PROVE  Hands'
<1>. USE DEF stream, budget
<1>. cursor \in Nat /\ tail \in Nat
  BY DEF Types
<1>1. CASE Submit \/ UNCHANGED vars
  BY <1>1 DEF Submit, vars, Hands
<1>2. ASSUME NEW w \in Worker, ReadNew(w)
      PROVE  Hands'
  <2>1. CASE Moved(w, "history", NoTask, batch[w]) /\ UNCHANGED cursor /\ pc[w] = "idle"
    <3>1. batch[w] = {}
      BY <2>1 DEF Hands
    <3>. QED BY <2>1, <3>1, HandsMoved, Locations
  <2>2. ASSUME pc[w] = "idle", NEW call \in Call, NEW m \in (cursor + 1) .. tail,
               Deliver(w, (cursor + 1) .. m, call), cursor' = IF Applied(call) THEN m ELSE cursor
        PROVE  Hands'
    <3>1. /\ (cursor + 1) .. m \in SUBSET Task /\ cursor' \in Nat /\ cursor <= cursor'
          /\ call = "ok" => \A t \in (cursor + 1) .. m : t <= cursor'
      BY <2>2 DEF Types, Applied
    <3>. QED BY <2>2, <3>1, HandsDeliver
  <2>. QED BY <1>2, <2>1, <2>2, ReadNewMoves
<1>3. ASSUME NEW w \in Worker, ReadHistory(w)
      PROVE  Hands'
  <2>1. pc[w] = "history" /\ UNCHANGED cursor
    BY <1>3 DEF ReadHistory
  <2>2. ASSUME NEW call \in Call, Deliver(w, FirstBatch(Backlog(w)), call)
        PROVE  Hands'
    <3>1. FirstBatch(Backlog(w)) \in SUBSET Task /\ \A t \in Backlog(w) : t <= cursor
      BY FirstBatchSubset DEF Backlog, Fresh
    <3>. QED BY <2>1, <2>2, <3>1, HandsDeliver, FirstBatchSubset
  <2>3. CASE GoOn(w, "idle")
    <3>1. batch[w] = {}
      BY <2>1 DEF Hands
    <3>. QED BY <2>1, <2>3, <3>1, HandsGoOn, Locations
  <2>. QED BY <1>3, <2>2, <2>3 DEF ReadHistory
<1>4. ASSUME NEW w \in Worker, TakeNext(w)
      PROVE  Hands'
  <2>1. pc[w] = "batch" /\ UNCHANGED cursor
    BY <1>4 DEF TakeNext
  <2>2. CASE Abandon(w, "down")
    BY <2>1, <2>2, HandsAbandon
  <2>3. CASE batch[w] = {} /\ GoOn(w, "idle")
    BY <2>1, <2>3, HandsGoOn, Locations
  <2>4. ASSUME NEW t \in FirstEntry(batch[w]),
               pc' = [pc EXCEPT ![w] = "run"], held' = [held EXCEPT ![w] = t],
               batch' = [batch EXCEPT ![w] = @ \ {t}]
        PROVE  Hands'
    <3>1. t \in batch[w] /\ t \in Task
      BY DEF FirstEntry, Types
    <3>2. Moved(w, "run", t, batch[w] \ {t})
      BY <2>4 DEF Moved, Types
    <3>3. t <= cursor /\ batch[w] \ {t} \subseteq Task /\ \A u \in batch[w] \ {t} : u <= cursor
      BY <3>1 DEF Hands, Types
    <3>. QED BY <2>1, <3>1, <3>2, <3>3, HandsMoved, Locations
  <2>. QED BY <1>4, <2>2, <2>3, <2>4 DEF TakeNext
<1>5. ASSUME NEW w \in Worker, LeaveLoop(w) \/ AckDead(w) \/ Crash(w)
      PROVE  Hands'
  BY <1>5, HandsAbandon DEF LeaveLoop, AckDead, Crash
<1>6. ASSUME NEW w \in Worker, Execute(w) \/ HandleFailure(w)
      PROVE  Hands'
  <2>1. pc[w] \in Busy /\ UNCHANGED cursor
    BY <1>6, Locations DEF Execute, HandleFailure
  <2>2. \/ Abandon(w, "idle")
        \/ GoOn(w, "publish") \/ GoOn(w, "failed") \/ GoOn(w, "deadLetter")
    BY <1>6 DEF Execute, HandleFailure
  <2>. QED BY <2>1, <2>2, HandsAbandon, HandsGoOn, Locations
<1>7. ASSUME NEW w \in Worker, Publish(w) \/ Ack(w) \/ DeadLetter(w) \/ ReportError(w)
      PROVE  Hands'
  <2>1. pc[w] \in Busy /\ UNCHANGED cursor
    BY <1>7, Locations DEF Publish, Ack, DeadLetter, ReportError
  <2>2. \E l \in {"ack", "failed", "batch", "reportError", "ackDead"} : GoOn(w, l)
    BY <1>7 DEF Publish, Ack, DeadLetter, ReportError
  <2>. QED BY <2>1, <2>2, HandsGoOn, Locations
<1>8. ASSUME NEW w \in Worker, Signal(w)
      PROVE  Hands'
  BY <1>8 DEF Signal, Hands
<1>9. ASSUME NEW w \in Worker, Restart(w)
      PROVE  Hands'
  <2>1. pc[w] = "down" /\ batch[w] = {} /\ UNCHANGED cursor /\ GoOn(w, "idle")
    BY <1>9 DEF Restart, Hands
  <2>. QED BY <2>1, HandsGoOn, Locations
<1>. QED BY <1>1, <1>2, <1>3, <1>4, <1>5, <1>6, <1>7, <1>8, <1>9 DEF Next, Step

-----------------------------------------------------------------------------
LEMMA GoOnEffect ==
  ASSUME Types, NEW w \in Worker, NEW l \in Location, GoOn(w, l)
  PROVE  pc'[w] = l /\ held'[w] = (IF l \in Busy THEN held[w] ELSE NoTask) /\ Others(w)
BY TypeParts, GoOnMoved, MovedEffect

LEMMA AbandonEffect ==
  ASSUME Types, NEW w \in Worker, NEW l, Abandon(w, l)
  PROVE  pc'[w] = l /\ held'[w] = NoTask /\ batch'[w] = {} /\ Others(w)
BY TypeParts, AbandonMoved, MovedEffect

(* What a step does to the pending list: it leaves an entry alone,         *)
(* delivers it, or removes what a worker acknowledges.                     *)
Kept(t) == owner'[t] = owner[t] /\ (t <= cursor' => t <= cursor)
Delivered(t) ==
  /\ t <= cursor'
  /\ \E w \in Worker : owner'[t] = Name[w] /\ (t > cursor \/ owner[t] = Name[w])
Acked(t) ==
  /\ owner'[t] = NoOne /\ t <= cursor
  /\ \E w \in Worker :
       held[w] = t /\ pc[w] \in {"ack", "ackDead"} /\ pc'[w] \in {"batch", "idle", "failed"}

LEMMA StreamMoves ==
  ASSUME Types, Hands, Fresh, [Next]_vars
  PROVE  cursor <= cursor' /\ \A t \in Task : Kept(t) \/ Delivered(t) \/ Acked(t)
<1>. /\ cursor \in Nat /\ tail \in Nat /\ StreamOK
     /\ \A w \in Worker : Name[w] # NoOne
  BY TypeParts DEF Types
<1>1. CASE UNCHANGED <<cursor, owner>>
  BY <1>1 DEF Kept
<1>2. ASSUME NEW w \in Worker, ReadNew(w)
      PROVE  cursor <= cursor' /\ \A t \in Task : Kept(t) \/ Delivered(t)
  <2>1. ASSUME NEW call \in Call, NEW m \in (cursor + 1) .. tail,
               Deliver(w, (cursor + 1) .. m, call), cursor' = IF Applied(call) THEN m ELSE cursor
        PROVE  cursor <= cursor' /\ \A t \in Task : Kept(t) \/ Delivered(t)
    BY <2>1, DeliverEffect DEF Kept, Delivered
  <2>. QED BY <1>1, <1>2, <2>1, ReadNewMoves DEF Kept
<1>3. ASSUME NEW w \in Worker, ReadHistory(w)
      PROVE  cursor <= cursor' /\ \A t \in Task : Kept(t) \/ Delivered(t)
  <2>1. UNCHANGED cursor
    BY <1>3 DEF ReadHistory
  <2>2. ASSUME NEW call \in Call, Deliver(w, FirstBatch(Backlog(w)), call)
        PROVE  \A t \in Task : Kept(t) \/ Delivered(t)
    <3>1. \A t \in FirstBatch(Backlog(w)) : t \in Task /\ t <= cursor /\ owner[t] = Name[w]
      BY FirstBatchSubset DEF Backlog, Fresh
    <3>. QED BY <2>1, <2>2, <3>1, DeliverEffect DEF Kept, Delivered
  <2>. QED BY <1>3, <2>1, <2>2 DEF ReadHistory, Kept
<1>4. ASSUME NEW w \in Worker, Ack(w) \/ AckDead(w)
      PROVE  cursor <= cursor' /\ \A t \in Task : Kept(t) \/ Acked(t)
  <2>1. pc[w] \in {"ack", "ackDead"} /\ UNCHANGED cursor
    BY <1>4 DEF Ack, AckDead
  <2>2. held[w] <= cursor
    BY DEF Hands
  <2>3. PICK call : Remove(held[w], call)
    BY <1>4 DEF Ack, AckDead
  <2>4. pc'[w] \in {"batch", "idle", "failed"}
    BY <1>4, GoOnEffect, AbandonEffect, Locations DEF Ack, AckDead
  <2>. QED BY <2>1, <2>2, <2>3, <2>4, RemoveEffect DEF Kept, Acked
<1>5. ASSUME NEW w \in Worker,
             \/ LeaveLoop(w) \/ TakeNext(w) \/ Execute(w) \/ Publish(w) \/ HandleFailure(w)
             \/ DeadLetter(w) \/ ReportError(w) \/ Signal(w) \/ Crash(w) \/ Restart(w)
      PROVE  UNCHANGED <<cursor, owner>>
  BY <1>5 DEF LeaveLoop, TakeNext, Execute, Publish, HandleFailure, DeadLetter, ReportError,
              Signal, Crash, Restart, stream
<1>6. ASSUME Submit \/ UNCHANGED vars
      PROVE  UNCHANGED <<cursor, owner>>
  BY <1>6 DEF Submit, vars, stream
<1>. QED BY <1>1, <1>2, <1>3, <1>4, <1>5, <1>6 DEF Next, Step

LEMMA StepFresh ==
  ASSUME Types, Hands, Fresh, [Next]_vars
  PROVE  Fresh'
<1>. cursor \in Nat /\ cursor' \in Nat
  BY StepTypes DEF Types
<1>. QED BY StreamMoves DEF Fresh, Kept, Delivered, Acked

(* What was published stays published, and a raised call stays raised.     *)
LEMMA EvidenceGrows ==
  ASSUME Types, Hands, [Next]_vars
  PROVE  faults <= faults' /\ \A t \in Task : Answered(t) => Answered(t)'
<1>. faults \in Nat /\ BudgetOK /\ PostsOK
  BY TypeParts DEF Types
<1>1. \A call : Charge(call) => faults <= faults'
  BY DEF Charge
<1>2. faults <= faults'
  <2>1. ASSUME NEW w \in Worker, ReadNew(w)
        PROVE  faults <= faults'
    BY <1>1, <2>1, ReadNewMoves DEF Deliver
  <2>2. ASSUME NEW w \in Worker,
               \/ ReadHistory(w) \/ Publish(w) \/ Ack(w) \/ HandleFailure(w) \/ DeadLetter(w)
               \/ ReportError(w) \/ AckDead(w)
        PROVE  faults <= faults'
    BY <1>1, <2>2 DEF ReadHistory, Deliver, Publish, Ack, HandleFailure, DeadLetter,
                      ReportError, AckDead
  <2>3. ASSUME NEW w \in Worker,
               LeaveLoop(w) \/ TakeNext(w) \/ Execute(w) \/ Signal(w) \/ Crash(w) \/ Restart(w)
        PROVE  UNCHANGED faults
    BY <2>3 DEF LeaveLoop, TakeNext, Execute, Signal, Crash, Restart
  <2>4. CASE Submit \/ UNCHANGED vars
    BY <2>4 DEF Submit, vars
  <2>. QED BY <2>1, <2>2, <2>3, <2>4 DEF Next, Step
<1>3. CASE UNCHANGED published
  BY <1>2, <1>3 DEF Answered
<1>4. ASSUME NEW w \in Worker, Publish(w) \/ DeadLetter(w) \/ ReportError(w)
      PROVE  \A t \in Task : Answered(t) => Answered(t)'
  <2>1. held[w] \in Task
    BY <1>4, HeldEntry, Locations DEF Publish, DeadLetter, ReportError
  <2>2. PICK k \in Kind, call \in Call : Post(held[w], k, call)
    BY <1>4 DEF Publish, DeadLetter, ReportError, Kind
  <2>. QED BY <2>1, <2>2, PostKeeps
<1>5. ASSUME NEW w \in Worker,
             \/ LeaveLoop(w) \/ ReadNew(w) \/ ReadHistory(w) \/ TakeNext(w) \/ Execute(w) \/ Ack(w)
             \/ HandleFailure(w) \/ AckDead(w) \/ Signal(w) \/ Crash(w) \/ Restart(w)
      PROVE  UNCHANGED published
  BY <1>5 DEF LeaveLoop, ReadNew, ReadHistory, TakeNext, Execute, Ack, HandleFailure, AckDead,
              Signal, Crash, Restart
<1>6. ASSUME Submit \/ UNCHANGED vars
      PROVE  UNCHANGED published
  BY <1>6 DEF Submit, vars
<1>. QED BY <1>2, <1>3, <1>4, <1>5, <1>6 DEF Next, Step

(* How a worker comes to a step that removes an entry, or to the error     *)
(* envelope.                                                               *)
Late == {"ack", "reportError", "ackDead"}
Stays(v) == pc'[v] = pc[v] /\ held'[v] = held[v]
Answers(v) == held'[v] = held[v] /\ pc[v] \in Busy /\ Answered(held[v])'
GivesUp(v) ==
  /\ held'[v] = held[v] /\ faults' = faults + 1
  /\ \/ pc[v] = "deadLetter" /\ pc'[v] = "reportError"
     \/ pc[v] = "reportError" /\ pc'[v] = "ackDead"

LEMMA LateMoves ==
  ASSUME Types, Hands, [Next]_vars
  PROVE  \A v \in Worker : Stays(v) \/ pc'[v] \notin Late \/ Answers(v) \/ GivesUp(v)
<1>. BudgetOK /\ PostsOK /\ LocalOK
  BY TypeParts DEF Types
<1>1. CASE UNCHANGED <<pc, held>>
  BY <1>1 DEF Stays
<1>2. ASSUME NEW w \in Worker, Others(w),
             Stays(w) \/ pc'[w] \notin Late \/ Answers(w) \/ GivesUp(w)
      PROVE  \A v \in Worker : Stays(v) \/ pc'[v] \notin Late \/ Answers(v) \/ GivesUp(v)
  BY <1>2 DEF Others, Stays
<1>3. ASSUME NEW w \in Worker, ReadNew(w) \/ ReadHistory(w)
      PROVE  Others(w) /\ pc'[w] \notin Late
  <2>1. \/ \E T, call : Deliver(w, T, call)
        \/ \E l \in {"history", "idle"} : GoOn(w, l) \/ Moved(w, l, NoTask, batch[w])
    BY <1>3, ReadNewMoves DEF ReadHistory
  <2>. QED BY <2>1, DeliverMoved, GoOnMoved, MovedEffect DEF Late
<1>4. ASSUME NEW w \in Worker, TakeNext(w)
      PROVE  Others(w) /\ pc'[w] \notin Late
  BY <1>4, AbandonEffect, GoOnEffect, Locations DEF TakeNext, Late, LocalOK, Others
<1>5. ASSUME NEW w \in Worker, LeaveLoop(w) \/ AckDead(w) \/ Crash(w)
      PROVE  Others(w) /\ pc'[w] \notin Late
  BY <1>5, AbandonEffect DEF LeaveLoop, AckDead, Crash, Late
<1>6. ASSUME NEW w \in Worker, Execute(w) \/ HandleFailure(w) \/ Restart(w) \/ Ack(w)
      PROVE  Others(w) /\ pc'[w] \notin Late
  <2>1. \/ Abandon(w, "idle")
        \/ \E l \in {"publish", "failed", "deadLetter", "idle", "batch"} : GoOn(w, l)
    BY <1>6 DEF Execute, HandleFailure, Restart, Ack
  <2>. QED BY <2>1, AbandonEffect, GoOnEffect, Locations DEF Late
<1>7. ASSUME NEW w \in Worker, Publish(w)
      PROVE  Others(w) /\ (pc'[w] \notin Late \/ Answers(w))
  <2>1. PICK call \in Call :
          /\ Post(held[w], "result", call)
          /\ GoOn(w, IF call = "ok" THEN "ack" ELSE "failed")
    BY <1>7 DEF Publish
  <2>2. held[w] \in Task /\ pc[w] \in Busy /\ "result" \in Kind
    BY <1>7, HeldEntry, Locations DEF Publish, Kind
  <2>3. CASE call = "ok"
    <3>1. Applied(call)
      BY <2>3 DEF Applied
    <3>2. pc'[w] = "ack" /\ held'[w] = held[w] /\ Others(w)
      BY <2>1, <2>3, GoOnEffect, Locations
    <3>3. Answered(held[w])'
      BY <2>1, <2>2, <3>1, <3>2, PostKeeps
    <3>. QED BY <2>2, <3>2, <3>3 DEF Answers
  <2>4. CASE call # "ok"
    BY <2>1, <2>4, GoOnEffect, Locations DEF Late
  <2>. QED BY <2>3, <2>4
<1>8. ASSUME NEW w \in Worker, DeadLetter(w) \/ ReportError(w)
      PROVE  Others(w) /\ (Answers(w) \/ GivesUp(w))
  <2>1. PICK call \in Call, k \in Kind : Charge(call) /\ Post(held[w], k, call)
    BY <1>8 DEF DeadLetter, ReportError, Kind
  <2>2. \/ pc[w] = "deadLetter" /\ GoOn(w, "reportError")
        \/ pc[w] = "reportError" /\ GoOn(w, "ackDead")
    BY <1>8 DEF DeadLetter, ReportError
  <2>3. held[w] \in Task /\ pc[w] \in Busy
    BY <2>2, HeldEntry, Locations
  <2>4. /\ Others(w) /\ held'[w] = held[w]
        /\ \/ pc[w] = "deadLetter" /\ pc'[w] = "reportError"
           \/ pc[w] = "reportError" /\ pc'[w] = "ackDead"
    BY <2>2, GoOnEffect, Locations
  <2>5. CASE Applied(call)
    BY <2>1, <2>3, <2>4, <2>5, PostKeeps DEF Answers
  <2>6. CASE ~Applied(call)
    BY <2>1, <2>4, <2>6, ChargeEffect DEF GivesUp, Applied
  <2>. QED BY <2>5, <2>6
<1>9. ASSUME Submit \/ UNCHANGED vars \/ \E w \in Worker : Signal(w)
      PROVE  UNCHANGED <<pc, held>>
  BY <1>9 DEF Submit, vars, Signal
<1>. QED
  BY <1>1, <1>2, <1>3, <1>4, <1>5, <1>6, <1>7, <1>8, <1>9 DEF Next, Step

LEMMA StepOutcomes ==
  ASSUME Types, Hands, Fresh, Outcomes, [Next]_vars
  PROVE  Outcomes'
<1>. faults \in Nat /\ faults' \in Nat /\ cursor \in Nat /\ cursor' \in Nat
  BY StepTypes DEF Types
<1>1. faults <= faults' /\ \A t \in Task : Answered(t) => Answered(t)'
  BY EvidenceGrows
<1>2. ASSUME NEW t \in Task, Gone(t)'
      PROVE  Answered(t)' \/ faults' >= 2
  <2>1. CASE Kept(t)
    BY <1>1, <1>2, <2>1 DEF Kept, Gone, Outcomes
  <2>2. CASE Acked(t)
    BY <1>1, <2>2 DEF Acked, Outcomes
  <2>. QED BY <1>2, <2>1, <2>2, StreamMoves DEF Delivered, Gone
<1>3. ASSUME NEW v \in Worker, NEW t \in Task, held'[v] = t
      PROVE  /\ pc'[v] = "ack" => Answered(t)'
             /\ pc'[v] = "reportError" => Answered(t)' \/ faults' >= 1
             /\ pc'[v] = "ackDead" => Answered(t)' \/ faults' >= 2
  <2>1. CASE Stays(v)
    BY <1>1, <1>3, <2>1 DEF Stays, Outcomes
  <2>2. CASE pc'[v] \notin Late
    BY <2>2 DEF Late
  <2>3. CASE Answers(v)
    BY <1>3, <2>3 DEF Answers, Answered
  <2>4. CASE GivesUp(v)
    BY <1>1, <1>3, <2>4 DEF GivesUp, Outcomes
  <2>. QED BY <2>1, <2>2, <2>3, <2>4, LateMoves
<1>4. ASSUME NEW v \in Worker, pc'[v] \in Late
      PROVE  held'[v] \in Task
  <2>1. Types' /\ Hands'
    BY StepTypes, StepHands
  <2>. QED BY <1>4, <2>1, Locations DEF Late, Types, Hands
<1>. QED BY <1>2, <1>3, <1>4 DEF Outcomes, Late, Answered

Accounted == Types /\ Hands /\ Fresh /\ Outcomes

LEMMA InitAccounted == Init => Accounted
<1>. SUFFICES ASSUME Init PROVE Accounted
  OBVIOUS
<1>1. Hands
  BY DEF Init, Hands, Busy
<1>2. Fresh
  BY DEF Init, Fresh
<1>3. Outcomes
  BY DEF Init, Outcomes, Gone
<1>. QED BY <1>1, <1>2, <1>3, InitTypes DEF Accounted

(* An entry can leave the group with nothing recorded about it only at the *)
(* price of two raised calls: send_to_dlq and the error envelope of        *)
(* _handle_failure swallow theirs, and everything else acknowledges after  *)
(* it published.  It holds for any process ids, shared ones included.      *)
THEOREM LossIsPaidFor == Spec => []LossPaidFor
<1>1. Accounted /\ [Next]_vars => Accounted'
  BY StepTypes, StepHands, StepFresh, StepOutcomes DEF Accounted
<1>2. Accounted => LossPaidFor
  BY DEF Accounted, Outcomes, LossPaidFor, Settled, Gone
<1>. QED BY InitAccounted, <1>1, <1>2, PTL DEF Spec

-----------------------------------------------------------------------------
(* Process ids of one host differ.                                         *)
OwnNames == \A v, w \in Worker : Name[v] = Name[w] => v = w

(* Nobody else removes or takes over what is pending under a name, and     *)
(* what left the group stays out.                                          *)
Acking(v, t) == held[v] = t /\ pc[v] \in {"ack", "ackDead"}

LEMMA OwnerMoves ==
  ASSUME Types, Hands, Fresh, Owned, OwnNames, [Next]_vars, NEW t \in Task, t <= cursor
  PROVE  /\ owner[t] = NoOne => owner'[t] = NoOne
         /\ \A v \in Worker : owner[t] = Name[v] =>
              /\ owner'[t] \in {Name[v], NoOne}
              /\ owner'[t] = NoOne => Acking(v, t) /\ pc'[v] \in {"batch", "idle", "failed"}
<1>. cursor \in Nat /\ \A w \in Worker : Name[w] # NoOne
  BY DEF Types
<1>1. CASE Kept(t)
  BY <1>1 DEF Kept
<1>2. CASE Delivered(t)
  BY <1>2 DEF Delivered
<1>3. CASE Acked(t)
  <2>1. PICK w \in Worker : Acking(w, t) /\ pc'[w] \in {"batch", "idle", "failed"}
    BY <1>3 DEF Acked, Acking
  <2>2. owner[t] = Name[w]
    BY <2>1, Locations DEF Acking, Owned
  <2>3. owner'[t] = NoOne
    BY <1>3 DEF Acked
  <2>. QED BY <2>1, <2>2, <2>3 DEF OwnNames
<1>. QED BY <1>1, <1>2, <1>3, StreamMoves

(* How what a worker has in hand changes.                                  *)
Rests(v) == pc'[v] = pc[v] /\ held'[v] = held[v] /\ batch'[v] = batch[v]
Leaves(v) == pc'[v] \notin Busy /\ held'[v] = NoTask /\ batch'[v] \subseteq batch[v]
Reads(v) == pc'[v] \notin Busy /\ held'[v] = NoTask /\ \A t \in batch'[v] : owner'[t] = Name[v]
Takes(v) ==
  /\ UNCHANGED owner
  /\ pc'[v] = "run" /\ held'[v] \in batch[v] /\ batch'[v] \subseteq batch[v]
Proceeds(v) ==
  /\ pc[v] \in Busy /\ pc[v] # "ackDead" /\ held'[v] = held[v] /\ batch'[v] = batch[v]
  /\ pc'[v] \in Busy
  /\ pc[v] = "failed" => owner[held[v]] # NoOne
  /\ pc[v] = "ack" => pc'[v] = "failed"
Handling(v) == Rests(v) \/ Leaves(v) \/ Reads(v) \/ Takes(v) \/ Proceeds(v)

(* _get_delivery_count finds nothing pending and counts one delivery, so a *)
(* torn XACK is never followed by a dead letter.                           *)
LEMMA GoneCountsOne ==
  ASSUME NEW t, NEW call, owner[t] = NoOne
  PROVE  ~ShouldDeadLetter(ObservedCount(t, call))
BY DEF ShouldDeadLetter, ObservedCount

LEMMA HandMoves ==
  ASSUME Types, Hands, Fresh, [Next]_vars
  PROVE  \A v \in Worker : Handling(v)
<1>. LocalOK /\ StreamOK
  BY TypeParts
<1>. USE DEF Handling
<1>1. CASE UNCHANGED <<pc, held, batch>>
  BY <1>1 DEF Rests
<1>2. ASSUME NEW w \in Worker, Others(w), Handling(w)
      PROVE  \A v \in Worker : Handling(v)
  BY <1>2 DEF Others, Rests
<1>3. ASSUME NEW w \in Worker, NEW l, Abandon(w, l), l \in {"idle", "down"}
      PROVE  Others(w) /\ Handling(w)
  BY <1>3, AbandonEffect, Locations DEF Leaves
<1>4. ASSUME NEW w \in Worker, NEW l, GoOn(w, l), l \in {"idle", "history", "batch"}
      PROVE  Others(w) /\ Handling(w)
  <2>1. Moved(w, l, NoTask, batch[w]) /\ l \notin Busy
    BY <1>4, GoOnMoved, Locations
  <2>. QED BY <2>1, MovedEffect DEF Leaves
<1>5. ASSUME NEW w \in Worker, NEW l \in Busy, GoOn(w, l),
             pc[w] \in Busy, pc[w] # "ackDead",
             pc[w] = "failed" => owner[held[w]] # NoOne, pc[w] = "ack" => l = "failed"
      PROVE  Others(w) /\ Handling(w)
  <2>1. Moved(w, l, held[w], batch[w])
    BY <1>5, GoOnMoved
  <2>. QED BY <1>5, <2>1, MovedEffect DEF Proceeds
<1>6. ASSUME NEW w \in Worker, NEW T, NEW call, Deliver(w, T, call), T \subseteq Task,
             held[w] = NoTask
      PROVE  Others(w) /\ Handling(w)
  <2>1. Moved(w, IF call = "ok" THEN "batch" ELSE "idle", held[w], IF call = "ok" THEN T ELSE {})
    BY <1>6, DeliverMoved
  <2>2. Others(w) /\ held'[w] = NoTask /\ batch'[w] = (IF call = "ok" THEN T ELSE {})
        /\ pc'[w] = (IF call = "ok" THEN "batch" ELSE "idle")
    BY <1>6, <2>1, MovedEffect
  <2>3. pc'[w] \notin Busy
    BY <2>2, Locations
  <2>4. \A t \in batch'[w] : owner'[t] = Name[w]
    BY <1>6, <2>2, DeliverEffect DEF Applied
  <2>. QED BY <2>2, <2>3, <2>4 DEF Reads
<1>7. ASSUME NEW w \in Worker, ReadNew(w)
      PROVE  Others(w) /\ Handling(w)
  <2>1. held[w] = NoTask
    BY <1>7, HeldEntry, Locations DEF ReadNew
  <2>2. CASE Moved(w, "history", NoTask, batch[w])
    BY <2>2, MovedEffect, Locations DEF Leaves
  <2>3. ASSUME NEW call \in Call, NEW m \in (cursor + 1) .. tail,
               Deliver(w, (cursor + 1) .. m, call)
        PROVE  Others(w) /\ Handling(w)
    <3>1. (cursor + 1) .. m \subseteq Task
      BY DEF StreamOK
    <3>. QED BY <1>6, <2>1, <2>3, <3>1
  <2>. QED BY <1>7, <2>2, <2>3, ReadNewMoves
<1>8. ASSUME NEW w \in Worker, ReadHistory(w)
      PROVE  Others(w) /\ Handling(w)
  <2>1. held[w] = NoTask
    BY <1>8, HeldEntry, Locations DEF ReadHistory
  <2>2. FirstBatch(Backlog(w)) \subseteq Task
    BY FirstBatchSubset DEF Backlog
  <2>. QED BY <1>4, <1>6, <1>8, <2>1, <2>2 DEF ReadHistory
<1>9. ASSUME NEW w \in Worker, TakeNext(w)
      PROVE  Others(w) /\ Handling(w)
  <2>1. ASSUME NEW t \in FirstEntry(batch[w]),
               pc' = [pc EXCEPT ![w] = "run"], held' = [held EXCEPT ![w] = t],
               batch' = [batch EXCEPT ![w] = @ \ {t}]
        PROVE  Others(w) /\ Handling(w)
    <3>1. Moved(w, "run", t, batch[w] \ {t}) /\ t \in batch[w]
      BY <2>1 DEF Moved, LocalOK, FirstEntry
    <3>2. UNCHANGED owner
      BY <1>9 DEF TakeNext, stream
    <3>. QED BY <3>1, <3>2, MovedEffect DEF Takes
  <2>. QED BY <1>3, <1>4, <1>9, <2>1 DEF TakeNext
<1>10. ASSUME NEW w \in Worker, LeaveLoop(w) \/ AckDead(w) \/ Crash(w) \/ Restart(w)
       PROVE  Others(w) /\ Handling(w)
  BY <1>3, <1>4, <1>10 DEF LeaveLoop, AckDead, Crash, Restart
<1>11. ASSUME NEW w \in Worker, Execute(w) \/ Publish(w) \/ DeadLetter(w) \/ ReportError(w)
       PROVE  Others(w) /\ Handling(w)
  <2>1. pc[w] \in Busy \ {"ackDead", "failed", "ack"}
    BY <1>11, Locations DEF Execute, Publish, DeadLetter, ReportError
  <2>2. Abandon(w, "idle") \/ \E l \in Busy : GoOn(w, l)
    BY <1>11, Locations DEF Execute, Publish, DeadLetter, ReportError
  <2>. QED BY <1>3, <1>5, <2>1, <2>2
<1>12. ASSUME NEW w \in Worker, Ack(w)
       PROVE  Others(w) /\ Handling(w)
  <2>1. pc[w] = "ack" /\ (GoOn(w, "batch") \/ GoOn(w, "failed"))
    BY <1>12 DEF Ack
  <2>. QED BY <1>4, <1>5, <2>1, Locations
<1>13. ASSUME NEW w \in Worker, HandleFailure(w)
       PROVE  Others(w) /\ Handling(w)
  <2>1. pc[w] = "failed"
    BY <1>13 DEF HandleFailure
  <2>2. Abandon(w, "idle") \/ (GoOn(w, "deadLetter") /\ owner[held[w]] # NoOne)
    BY <1>13, GoneCountsOne DEF HandleFailure
  <2>. QED BY <1>3, <1>5, <2>1, <2>2, Locations
<1>14. ASSUME Submit \/ UNCHANGED vars \/ \E w \in Worker : Signal(w)
       PROVE  UNCHANGED <<pc, held, batch>>
  BY <1>14 DEF Submit, vars, Signal
<1>. QED
  BY <1>1, <1>2, <1>7, <1>8, <1>9, <1>10, <1>11, <1>12, <1>13, <1>14 DEF Next, Step

LEMMA StepMine ==
  ASSUME Types, Hands, Fresh, Mine, [Next]_vars
  PROVE  Mine'
<1>. cursor \in Nat /\ \A w \in Worker : Name[w] # NoOne
  BY DEF Types
<1>1. ASSUME NEW v \in Worker, NEW t \in InHand(v)
      PROVE  owner'[t] \in {Name[v], NoOne}
  <2>1. t \in Task /\ t <= cursor /\ owner[t] \in {Name[v], NoOne}
    BY DEF InHand, Types, Hands, Mine
  <2>2. Kept(t) \/ Delivered(t) \/ Acked(t)
    BY <2>1, StreamMoves
  <2>. QED BY <2>1, <2>2 DEF Kept, Delivered, Acked
<1>2. ASSUME NEW v \in Worker, NEW t \in InHand(v)'
      PROVE  owner'[t] \in {Name[v], NoOne}
  <2>1. t \in InHand(v) \/ owner'[t] = Name[v]
    BY HandMoves DEF Handling, Rests, Leaves, Reads, Takes, Proceeds, InHand
  <2>. QED BY <1>1, <2>1
<1>. QED BY <1>2 DEF Mine

(* Every variable keeps its type; a read never moves the cursor past the   *)
(* stream's tail, and what a worker has in hand is nobody else's           *)
(* (InboundConsumer.run and process_message), shared process ids included. *)
THEOREM TypeCorrect == Spec => []TypeOK
<1>. DEFINE Own == Types /\ Hands /\ Fresh /\ Mine
<1>1. Init => Own
  <2>1. Init => Mine
    BY DEF Init, Mine, InHand
  <2>. QED BY <2>1, InitAccounted DEF Accounted
<1>2. Own /\ [Next]_vars => Own'
  BY StepTypes, StepHands, StepFresh, StepMine
<1>3. Own => TypeOK
  <2>1. ASSUME Own, NEW w \in Worker, NEW t \in InHand(w)
        PROVE  t <= cursor
    BY <2>1 DEF InHand, Hands
  <2>. QED BY <2>1 DEF TypeOK, Types, Hands, Mine
<1>. QED BY <1>1, <1>2, <1>3, PTL DEF Spec

LEMMA StepOwned ==
  ASSUME Types, Hands, Fresh, Owned, OwnNames, [Next]_vars
  PROVE  Owned'
<1>. cursor \in Nat
  BY DEF Types
<1>1. ASSUME NEW v \in Worker, NEW t \in batch[v]
      PROVE  owner'[t] = Name[v]
  <2>1. t \in Task /\ t <= cursor /\ owner[t] = Name[v] /\ held[v] # t
    BY DEF Types, Hands, Owned
  <2>. QED BY <2>1, OwnerMoves DEF Acking
<1>2. ASSUME NEW v \in Worker, NEW t \in batch'[v]
      PROVE  owner'[t] = Name[v]
  BY <1>1, HandMoves DEF Handling, Rests, Leaves, Reads, Takes, Proceeds
<1>3. ASSUME NEW v \in Worker, NEW t \in Task, held'[v] = t, pc'[v] \in Busy
      PROVE  owner'[t] = Name[v] \/ (pc'[v] = "failed" /\ owner'[t] = NoOne)
  <2>1. CASE Rests(v)
    <3>1. held[v] = t /\ pc[v] \in Busy /\ t <= cursor /\ pc'[v] = pc[v]
      BY <1>3, <2>1 DEF Rests, Hands
    <3>2. owner[t] = Name[v] \/ (pc[v] = "failed" /\ owner[t] = NoOne)
      BY <3>1 DEF Owned
    <3>. QED BY <3>1, <3>2, OwnerMoves DEF Acking
  <2>2. CASE Takes(v)
    BY <1>1, <1>3, <2>2 DEF Takes
  <2>3. CASE Proceeds(v)
    <3>1. held[v] = t /\ pc[v] \in Busy /\ t <= cursor
      BY <1>3, <2>3 DEF Proceeds, Hands
    <3>2. owner[t] = Name[v]
      BY <2>3, <3>1 DEF Owned, Proceeds
    <3>. QED BY <2>3, <3>1, <3>2, OwnerMoves DEF Acking, Proceeds
  <2>. QED BY <1>3, <2>1, <2>2, <2>3, HandMoves DEF Handling, Leaves, Reads
<1>4. ASSUME NEW v \in Worker, pc'[v] \in Busy
      PROVE  held'[v] \in Task
  <2>1. Types' /\ Hands'
    BY StepTypes, StepHands
  <2>. QED BY <1>4, <2>1 DEF Types, Hands
<1>. QED BY <1>2, <1>3, <1>4 DEF Owned

-----------------------------------------------------------------------------
(* What a step publishes, for the entry that a worker has in hand.         *)
Posting(w, k) ==
  /\ held[w] \in Task /\ held'[w] = held[w] /\ pc[w] \in Busy \ {"failed", "ack", "ackDead"}
  /\ \A u \in Task, j \in Kind :
       published'[u][j] = IF u = held[w] /\ j = k THEN published[u][j] + 1 ELSE published[u][j]
  /\ \/ k = "result" /\ pc[w] = "publish" /\ (pc'[w] = "ack" \/ Incidents' = Incidents + 1)
     \/ k = "dead" /\ pc[w] = "deadLetter" /\ pc'[w] = "reportError"
     \/ k = "error" /\ pc[w] = "reportError" /\ pc'[w] = "ackDead"
Silent == \A u \in Task, j \in Kind : published'[u][j] = published[u][j]

LEMMA PostMoves ==
  ASSUME Types, Hands, [Next]_vars
  PROVE  Silent \/ \E w \in Worker, k \in Kind : Posting(w, k)
<1>. BudgetOK /\ PostsOK /\ faults \in Nat /\ crashes \in Nat
  BY TypeParts DEF Types
<1>1. CASE UNCHANGED published
  BY <1>1 DEF Silent
<1>2. ASSUME NEW w \in Worker, Publish(w) \/ DeadLetter(w) \/ ReportError(w)
      PROVE  Silent \/ \E k \in Kind : Posting(w, k)
  <2>1. PICK call \in Call, k \in Kind :
          /\ Charge(call) /\ Post(held[w], k, call)
          /\ \/ k = "result" /\ pc[w] = "publish" /\ GoOn(w, IF call = "ok" THEN "ack" ELSE "failed")
             \/ k = "dead" /\ pc[w] = "deadLetter" /\ GoOn(w, "reportError")
             \/ k = "error" /\ pc[w] = "reportError" /\ GoOn(w, "ackDead")
    <3>1. CASE Publish(w)
      BY <3>1 DEF Publish, Kind
    <3>2. CASE DeadLetter(w) \/ ReportError(w)
      BY <3>2 DEF DeadLetter, ReportError, Kind
    <3>. QED BY <1>2, <3>1, <3>2
  <2>2. held[w] \in Task /\ pc[w] \in Busy \ {"failed", "ack", "ackDead"}
    BY <2>1, HeldEntry, Locations
  <2>3. CASE ~Applied(call)
    BY <2>1, <2>2, <2>3, PostEffect DEF Silent
  <2>4. CASE Applied(call)
    <3>1. held'[w] = held[w]
      BY <2>1, GoOnEffect, Locations
    <3>2. \A u \in Task, j \in Kind :
            published'[u][j] = IF u = held[w] /\ j = k THEN published[u][j] + 1 ELSE published[u][j]
      BY <2>1, <2>2, <2>4, PostEffect
    <3>3. UNCHANGED crashes
      BY <1>2 DEF Publish, DeadLetter, ReportError, budget
    <3>4. call # "ok" => Incidents' = Incidents + 1
      BY <2>1, <3>3, ChargeEffect DEF Incidents
    <3>5. \/ k = "result" /\ pc[w] = "publish" /\ (pc'[w] = "ack" \/ Incidents' = Incidents + 1)
          \/ k = "dead" /\ pc[w] = "deadLetter" /\ pc'[w] = "reportError"
          \/ k = "error" /\ pc[w] = "reportError" /\ pc'[w] = "ackDead"
      BY <2>1, <3>4, GoOnEffect, Locations
    <3>. QED BY <2>2, <3>1, <3>2, <3>5 DEF Posting
  <2>. QED BY <2>3, <2>4
<1>3. ASSUME NEW w \in Worker,
             \/ LeaveLoop(w) \/ ReadNew(w) \/ ReadHistory(w) \/ TakeNext(w) \/ Execute(w) \/ Ack(w)
             \/ HandleFailure(w) \/ AckDead(w) \/ Signal(w) \/ Crash(w) \/ Restart(w)
      PROVE  UNCHANGED published
  BY <1>3 DEF LeaveLoop, ReadNew, ReadHistory, TakeNext, Execute, Ack, HandleFailure, AckDead,
              Signal, Crash, Restart
<1>4. ASSUME Submit \/ UNCHANGED vars
      PROVE  UNCHANGED published
  BY <1>4 DEF Submit, vars
<1>. QED BY <1>1, <1>2, <1>3, <1>4 DEF Next, Step

(* A worker that is past an answer and leaves its entry either removed it  *)
(* or was disturbed.                                                       *)
Passing == {"ack", "reportError", "ackDead"}
Advances(v) ==
  \/ pc'[v] = pc[v] /\ held'[v] = held[v]
  \/ pc[v] = "reportError" /\ pc'[v] = "ackDead" /\ held'[v] = held[v]
  \/ Incidents' > Incidents
  \/ pc[v] \in {"ack", "ackDead"} /\ owner'[held[v]] = NoOne

LEMMA PassMoves ==
  ASSUME Types, Hands, Fresh, [Next]_vars
  PROVE  /\ Incidents <= Incidents'
         /\ \A v \in Worker : pc[v] \in Passing => Advances(v)
<1>. faults \in Nat /\ crashes \in Nat /\ StreamOK /\ LocalOK /\ BudgetOK
  BY TypeParts DEF Types
<1>. faults \in Nat /\ faults' \in Nat /\ crashes' \in Nat
  BY StepTypes DEF Types
<1>1. crashes <= crashes'
  <2>1. ASSUME NEW w \in Worker, Crash(w)
        PROVE  crashes <= crashes'
    BY <2>1 DEF Crash
  <2>2. ASSUME NEW w \in Worker, Step(w) \/ Signal(w) \/ Restart(w)
        PROVE  UNCHANGED crashes
    BY <2>2 DEF Step, LeaveLoop, ReadNew, ReadHistory, TakeNext, Execute, Publish, Ack, HandleFailure,
                DeadLetter, ReportError, AckDead, Signal, Restart, budget
  <2>3. CASE Submit \/ UNCHANGED vars
    BY <2>3 DEF Submit, vars, budget
  <2>. QED BY <2>1, <2>2, <2>3 DEF Next
<1>2. Incidents <= Incidents'
  <2>1. faults <= faults'
    BY EvidenceGrows
  <2>2. \A i, j, m, n \in Nat : i <= j /\ m <= n => i + m <= j + n
    OBVIOUS
  <2>. QED BY <1>1, <2>1, <2>2 DEF Incidents
<1>3. ASSUME NEW w \in Worker, Others(w), pc[w] \in Passing => Advances(w)
      PROVE  \A v \in Worker : pc[v] \in Passing => Advances(v)
  BY <1>3 DEF Others, Advances
<1>4. ASSUME NEW w \in Worker, Crash(w)
      PROVE  \A v \in Worker : pc[v] \in Passing => Advances(v)
  BY <1>4 DEF Crash, Incidents, Advances
<1>5. ASSUME NEW w \in Worker, Ack(w) \/ AckDead(w)
      PROVE  Others(w) /\ Advances(w)
  <2>1. PICK call \in Call : Charge(call) /\ Remove(held[w], call)
    BY <1>5 DEF Ack, AckDead
  <2>2. pc[w] \in {"ack", "ackDead"} /\ UNCHANGED crashes
    BY <1>5 DEF Ack, AckDead, budget
  <2>3. Others(w)
    BY <1>5, GoOnEffect, AbandonEffect, Locations DEF Ack, AckDead
  <2>4. held[w] \in Task
    BY <2>2, HeldEntry, Locations
  <2>5. CASE Applied(call)
    BY <2>1, <2>2, <2>3, <2>4, <2>5, RemoveEffect DEF Advances
  <2>6. CASE ~Applied(call)
    <3>1. faults' = faults + 1
      BY <2>1, <2>6, ChargeEffect DEF Applied
    <3>. QED BY <2>2, <2>3, <3>1 DEF Advances, Incidents
  <2>. QED BY <2>5, <2>6
<1>6. ASSUME NEW w \in Worker, ReportError(w)
      PROVE  Others(w) /\ Advances(w)
  BY <1>6, GoOnEffect, Locations DEF ReportError, Advances
<1>7. ASSUME NEW w \in Worker, Publish(w) \/ DeadLetter(w) \/ HandleFailure(w) \/ Execute(w) \/ Restart(w)
      PROVE  Others(w) /\ pc[w] \notin Passing
  <2>1. Abandon(w, "idle") \/ \E l \in Location : GoOn(w, l)
    BY <1>7, Locations DEF Publish, DeadLetter, HandleFailure, Execute, Restart
  <2>2. pc[w] \notin Passing
    BY <1>7 DEF Publish, DeadLetter, HandleFailure, Execute, Restart, Passing
  <2>. QED BY <2>1, <2>2, GoOnEffect, AbandonEffect
<1>8. ASSUME NEW w \in Worker, ReadNew(w) \/ ReadHistory(w)
      PROVE  Others(w) /\ pc[w] \notin Passing
  <2>1. \/ \E T, call : Deliver(w, T, call)
        \/ \E l \in {"history", "idle"} : GoOn(w, l) \/ Moved(w, l, NoTask, batch[w])
    BY <1>8, ReadNewMoves DEF ReadHistory
  <2>2. pc[w] \notin Passing
    BY <1>8 DEF ReadNew, ReadHistory, Passing
  <2>. QED BY <2>1, <2>2, DeliverMoved, GoOnMoved, MovedEffect
<1>9. ASSUME NEW w \in Worker, TakeNext(w) \/ LeaveLoop(w)
      PROVE  Others(w) /\ pc[w] \notin Passing
  <2>1. Others(w)
    BY <1>9, AbandonEffect, GoOnEffect, Locations DEF TakeNext, LeaveLoop, LocalOK, Others
  <2>. QED BY <1>9, <2>1 DEF TakeNext, LeaveLoop, Passing
<1>10. ASSUME Submit \/ UNCHANGED vars \/ \E w \in Worker : Signal(w)
       PROVE  \A v \in Worker : Advances(v)
  BY <1>10 DEF Submit, vars, Signal, Advances
<1>11. \A v \in Worker : pc[v] \in Passing => Advances(v)
  BY <1>3, <1>4, <1>5, <1>6, <1>7, <1>8, <1>9, <1>10 DEF Next, Step
<1>. QED BY <1>2, <1>11

(* An entry stays done with unless something went wrong.                   *)
LEMMA DoneStays ==
  ASSUME Types, Hands, Fresh, Owned, OwnNames, [Next]_vars, NEW t \in Task,
         NEW after \in {{"ack", "ackDead"}, {"reportError", "ackDead"}}, Done(t, after)
  PROVE  Done(t, after)' \/ Incidents' > Incidents
<1>. cursor \in Nat /\ cursor' \in Nat
  BY StepTypes DEF Types
<1>1. CASE Gone(t)
  BY <1>1, OwnerMoves, StreamMoves DEF Gone, Done
<1>2. ASSUME NEW v \in Worker, held[v] = t, pc[v] \in after
      PROVE  Done(t, after)' \/ Incidents' > Incidents
  <2>1. pc[v] \in Passing /\ t <= cursor
    BY <1>2 DEF Passing, Hands
  <2>2. Advances(v)
    BY <2>1, PassMoves
  <2>3. CASE owner'[t] = NoOne
    BY <2>1, <2>3, StreamMoves DEF Gone, Done
  <2>4. CASE held'[v] = t /\ pc'[v] \in after
    BY <2>4 DEF Done
  <2>. QED BY <1>2, <2>2, <2>3, <2>4 DEF Advances
<1>. QED BY <1>1, <1>2 DEF Done

(* While a worker answers an entry, nobody has answered it yet.            *)
LEMMA PosterFirst ==
  ASSUME Types, Hands, Owned, OwnNames, NEW w \in Worker,
         pc[w] \in Busy \ {"failed", "ack", "ackDead"},
         NEW after \in {{"ack", "ackDead"}, {"reportError", "ackDead"}}, pc[w] \notin after
  PROVE  Open(held[w], after) = 1
<1>1. owner[held[w]] = Name[w] /\ Name[w] # NoOne
  BY DEF Owned
<1>2. ASSUME NEW v \in Worker, held[v] = held[w], pc[v] \in after
      PROVE  FALSE
  <2>1. owner[held[v]] = Name[v]
    BY <1>2, Locations DEF Owned
  <2>. QED BY <1>1, <1>2, <2>1 DEF OwnNames
<1>. QED BY <1>1, <1>2 DEF Open, Done, Gone

LEMMA StepReplyLedger ==
  ASSUME Types, Hands, Fresh, Owned, OwnNames, ReplyLedger, [Next]_vars
  PROVE  ReplyLedger'
<1>. DEFINE after == {"ack", "ackDead"}
<1>. Incidents \in Nat /\ Incidents' \in Nat
  <2>1. Types'
    BY StepTypes
  <2>2. faults \in Nat /\ crashes \in Nat /\ faults' \in Nat /\ crashes' \in Nat
    BY <2>1 DEF Types
  <2>3. \A i, j \in Nat : i + j \in Nat
    OBVIOUS
  <2>. QED BY <2>2, <2>3 DEF Incidents
<1>. SUFFICES ASSUME NEW t \in Task
              PROVE  Replies(t)' + Open(t, after)' <= 1 + Incidents'
  BY DEF ReplyLedger
<1>1. /\ Incidents <= Incidents'
      /\ Replies(t) + Open(t, after) <= 1 + Incidents
      /\ published[t]["result"] \in Nat /\ published[t]["error"] \in Nat
      /\ "result" \in Kind /\ "error" \in Kind
  <2>1. Incidents <= Incidents'
    BY PassMoves
  <2>. QED BY <2>1 DEF ReplyLedger, Types, Kind
<1>2. /\ Open(t, after) \in {0, 1} /\ Open(t, after)' \in {0, 1}
      /\ Open(t, after)' <= Open(t, after) \/ Incidents' > Incidents
  <2>1. Open(t, after) = 0 => Done(t, after)
    BY DEF Open
  <2>2. Done(t, after)' => Open(t, after)' = 0
    BY DEF Open
  <2>3. Open(t, after) \in {0, 1} /\ Open(t, after)' \in {0, 1}
    BY DEF Open
  <2>. QED BY <2>1, <2>2, <2>3, DoneStays
<1>. HIDE DEF after
<1>3. CASE Replies(t)' = Replies(t)
  BY <1>1, <1>2, <1>3 DEF Replies
<1>4. ASSUME NEW w \in Worker, NEW k \in {"result", "error"}, Posting(w, k), held[w] = t
      PROVE  Replies(t)' + Open(t, after)' <= 1 + Incidents'
  <2>1. Replies(t)' = Replies(t) + 1
    BY <1>1, <1>4 DEF Posting, Replies
  <2>2. Open(t, after) = 1
    BY <1>4, PosterFirst DEF Posting, after
  <2>3. Open(t, after)' = 0 \/ Incidents' = Incidents + 1
    BY <1>4 DEF Posting, after, Open, Done
  <2>. QED BY <1>1, <1>2, <2>1, <2>2, <2>3 DEF Replies
<1>5. ASSUME NEW w \in Worker, NEW k \in Kind, Posting(w, k), k = "dead" \/ held[w] # t
      PROVE  Replies(t)' = Replies(t)
  BY <1>1, <1>5 DEF Posting, Replies
<1>6. CASE Silent
  BY <1>1, <1>3, <1>6 DEF Silent, Replies
<1>. QED BY <1>3, <1>4, <1>5, <1>6, PostMoves DEF Kind

LEMMA StepDeadLedger ==
  ASSUME Types, Hands, Fresh, Owned, OwnNames, DeadLedger, [Next]_vars
  PROVE  DeadLedger'
<1>. DEFINE after == {"reportError", "ackDead"}
<1>. Incidents \in Nat /\ Incidents' \in Nat
  <2>1. Types'
    BY StepTypes
  <2>2. faults \in Nat /\ crashes \in Nat /\ faults' \in Nat /\ crashes' \in Nat
    BY <2>1 DEF Types
  <2>3. \A i, j \in Nat : i + j \in Nat
    OBVIOUS
  <2>. QED BY <2>2, <2>3 DEF Incidents
<1>. SUFFICES ASSUME NEW t \in Task
              PROVE  published'[t]["dead"] + Open(t, after)' <= 1 + Incidents'
  BY DEF DeadLedger
<1>1. /\ Incidents <= Incidents'
      /\ published[t]["dead"] + Open(t, after) <= 1 + Incidents
      /\ published[t]["dead"] \in Nat /\ "dead" \in Kind
  <2>1. Incidents <= Incidents'
    BY PassMoves
  <2>. QED BY <2>1 DEF DeadLedger, Types, Kind
<1>2. /\ Open(t, after) \in {0, 1} /\ Open(t, after)' \in {0, 1}
      /\ Open(t, after)' <= Open(t, after) \/ Incidents' > Incidents
  <2>1. Open(t, after) = 0 => Done(t, after)
    BY DEF Open
  <2>2. Done(t, after)' => Open(t, after)' = 0
    BY DEF Open
  <2>3. Open(t, after) \in {0, 1} /\ Open(t, after)' \in {0, 1}
    BY DEF Open
  <2>. QED BY <2>1, <2>2, <2>3, DoneStays
<1>. HIDE DEF after
<1>3. CASE published'[t]["dead"] = published[t]["dead"]
  BY <1>1, <1>2, <1>3
<1>4. ASSUME NEW w \in Worker, Posting(w, "dead"), held[w] = t
      PROVE  published'[t]["dead"] + Open(t, after)' <= 1 + Incidents'
  <2>1. published'[t]["dead"] = published[t]["dead"] + 1
    BY <1>1, <1>4 DEF Posting
  <2>2. Open(t, after) = 1
    BY <1>4, PosterFirst DEF Posting, after
  <2>3. Open(t, after)' = 0
    BY <1>4 DEF Posting, after, Open, Done
  <2>. QED BY <1>1, <1>2, <2>1, <2>2, <2>3
<1>5. ASSUME NEW w \in Worker, NEW k \in Kind, Posting(w, k), k # "dead" \/ held[w] # t
      PROVE  published'[t]["dead"] = published[t]["dead"]
  BY <1>1, <1>5 DEF Posting
<1>6. CASE Silent
  BY <1>1, <1>3, <1>6 DEF Silent
<1>. QED BY <1>3, <1>4, <1>5, <1>6, PostMoves

Ledgers == Types /\ Hands /\ Fresh /\ Owned /\ ReplyLedger /\ DeadLedger

LEMMA InitLedgers == Init => Ledgers
<1>. SUFFICES ASSUME Init PROVE Ledgers
  OBVIOUS
<1>1. Types /\ Hands /\ Fresh
  BY InitAccounted DEF Accounted
<1>2. Owned
  BY DEF Init, Owned, Busy
<1>3. \A t, after : Open(t, after) \in {0, 1}
  BY DEF Open
<1>4. \A t \in Task, k \in Kind : published[t][k] = 0
  BY DEF Init
<1>5. Incidents = 0 /\ "result" \in Kind /\ "error" \in Kind /\ "dead" \in Kind
  BY DEF Init, Incidents, Kind
<1>6. ReplyLedger
  BY <1>3, <1>4, <1>5 DEF ReplyLedger, Replies
<1>7. DeadLedger
  BY <1>3, <1>4, <1>5 DEF DeadLedger
<1>. QED BY <1>1, <1>2, <1>6, <1>7 DEF Ledgers

(* Where process ids differ, each reply and each dead letter after the     *)
(* first costs a raised call or a crash; SIGTERM is free (process_message, *)
(* _handle_failure).  With a shared id two processes would re-read one     *)
(* another's backlog and both answer it.                                   *)
THEOREM DuplicatesArePaidFor ==
  ASSUME OwnNames
  PROVE  Spec => []DuplicatesPaidFor
<1>1. Ledgers /\ [Next]_vars => Ledgers'
  BY OwnNames, StepTypes, StepHands, StepFresh, StepOwned, StepReplyLedger, StepDeadLedger
     DEF Ledgers
<1>2. Ledgers => DuplicatesPaidFor
  <2>. SUFFICES ASSUME Ledgers, NEW t \in Task
                PROVE  Replies(t) <= 1 + Incidents /\ published[t]["dead"] <= 1 + Incidents
    BY DEF DuplicatesPaidFor
  <2>1. /\ published[t]["dead"] \in Nat /\ Replies(t) \in Nat /\ Incidents \in Nat
    BY DEF Ledgers, Types, Replies, Incidents, Kind
  <2>2. \A after : Open(t, after) \in {0, 1}
    BY DEF Open
  <2>. QED BY <2>1, <2>2 DEF Ledgers, ReplyLedger, DeadLedger
<1>. QED BY InitLedgers, <1>1, <1>2, PTL DEF Spec
=============================================================================
