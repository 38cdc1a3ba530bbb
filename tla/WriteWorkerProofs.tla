--------------------------- MODULE WriteWorkerProofs ---------------------------
(***************************************************************************)
(* What the write worker guarantees, for any number of workers and entries *)
(* and any trouble.                                                        *)
(*                                                                         *)
(* The idempotency key is a token: an entry without one has a turn left,   *)
(* and SET NX turns it into a worker that may write (Writing) and answer   *)
(* (Owing).  A raised call or an expired key adds a turn, nothing else     *)
(* does (Ledger).  A worker that has begun an entry answers it, or dies of *)
(* trouble that was spent (Begun).                                         *)
(***************************************************************************)
EXTENDS WriteWorker, FiniteSetTheorems, TLAPS

Renewals == spent["fault"] + spent["expiry"]
Unlocked(t) == IF t \in keys THEN 0 ELSE 1

(* The workers that may still write entry t, and those that may answer it. *)
Writing(t) == {w \in Worker : pc[w] = "write" /\ held[w] = t}
Owing(t) == {w \in Worker : pc[w] \in {"write", "publish", "report"} /\ held[w] = t}

WriteLedger == \A t \in Task : written[t] + Cardinality(Writing(t)) + Unlocked(t) <= 1 + Renewals
ReplyLedger == \A t \in Task : Replies(t) + Cardinality(Owing(t)) + Unlocked(t) <= 1 + Renewals

(* Without a renewal whoever works on an entry has its key.                *)
Keyed ==
  Renewals = 0 =>
    \A w \in Worker : pc[w] \in Working => held[w] \in keys

(* Some worker began entry t and answered it, still works on it, or died.  *)
Begun(t) ==
  \/ Answered(t)
  \/ spent["fault"] + spent["crash"] + spent["stop"] > 0
  \/ \E w \in Worker : pc[w] \in Working /\ held[w] = t
Beginnings ==
  /\ \A t \in keys \cup acked : Begun(t)
  /\ \A w \in Worker : pc[w] = "skip" => Begun(held[w])

(* What a worker acknowledges after it worked on it.                       *)
Excused(t) == Answered(t) \/ (t \in LastTry /\ DlqEnabled /\ spent["fault"] > 0)
Excuses ==
  /\ \A w \in Worker : pc[w] = "ack" => Excused(held[w])
  /\ \A t \in acked : Excused(t) \/ spent["rewind"] > 0

(* As long as nobody sets the group back, an entry is delivered once.      *)
Once ==
  spent["rewind"] = 0 =>
    /\ \A t \in keys : t <= cursor
    /\ \A w \in Worker : held[w] <= cursor /\ pc[w] # "skip"
    /\ \A w \in Worker : pc[w] \in {"taken", "lock"} => held[w] \notin keys
    /\ \A v, w \in Worker : held[v] = held[w] /\ held[v] # NoTask => v = w

Told == \A w \in Worker : waiting[w] \/ stopping[w] => spent["stop"] > 0

USE WriteWorkerAssumption DEF Task, NoTask, Trouble

-----------------------------------------------------------------------------
LEMMA SpendGrows ==
  ASSUME TypeOK, NEW trouble \in Trouble, Spend(trouble)
  PROVE  /\ spent' \in Allowed /\ spent' \in [Trouble -> Nat]
         /\ spent'[trouble] = spent[trouble] + 1
         /\ \A k \in Trouble : k # trouble => spent'[k] = spent[k]
<1>1. spent \in [Trouble -> Nat] /\ spent' \in [Trouble -> Nat] /\ spent' \in Allowed
  BY DEF TypeOK, Spend
<1>. QED BY <1>1 DEF Spend

(* What a call may cost.                                                   *)
LEMMA ChargeGrows ==
  ASSUME TypeOK, NEW call \in Call, Charge(call)
  PROVE  /\ spent' \in Allowed /\ spent' \in [Trouble -> Nat]
         /\ call = "ok" => spent' = spent
         /\ call # "ok" => spent'["fault"] = spent["fault"] + 1
         /\ \A k \in Trouble : k # "fault" => spent'[k] = spent[k]
<1>1. CASE call = "ok"
  BY <1>1 DEF Charge, TypeOK
<1>2. CASE call # "ok"
  BY <1>2, SpendGrows DEF Charge
<1>. QED BY <1>1, <1>2

(* The types of what is local to the workers, and of the rest.             *)
LocalOK ==
  /\ pc \in [Worker -> Location]
  /\ held \in [Worker -> Task \cup {NoTask}]
  /\ \A w \in Worker : pc[w] \in Busy <=> held[w] # NoTask
  /\ tries \in [Worker -> 0 .. MaxRetries]
  /\ processing \in [Worker -> BOOLEAN]
StreamOK ==
  /\ tail \in 0 .. NumTasks /\ cursor \in 0 .. tail /\ grouped \in BOOLEAN
  /\ pending \subseteq Task /\ acked \subseteq Task /\ keys \subseteq Task
PostsOK == written \in [Task -> Nat] /\ published \in [Task -> [Kind -> Nat]]
ControlOK == waiting \in [Worker -> BOOLEAN] /\ stopping \in [Worker -> BOOLEAN]

LEMMA TypeParts == TypeOK <=> LocalOK /\ StreamOK /\ PostsOK /\ ControlOK /\ spent \in Allowed
BY DEF TypeOK, LocalOK, StreamOK, PostsOK, ControlOK

LEMMA InitTypes == Init => TypeOK
<1>. SUFFICES ASSUME Init PROVE TypeOK
  OBVIOUS
<1>1. LocalOK
  BY DEF Init, LocalOK, Location, Busy, Working
<1>2. PostsOK
  BY DEF Init, PostsOK
<1>3. StreamOK
  <2>1. tail = 0 /\ cursor = 0 /\ grouped \in BOOLEAN /\ pending = {} /\ acked = {} /\ keys = {}
    BY DEF Init
  <2>2. tail \in 0 .. NumTasks /\ cursor \in 0 .. tail
    BY <2>1
  <2>. QED BY <2>1, <2>2 DEF StreamOK
<1>4. ControlOK
  BY DEF Init, ControlOK
<1>5. spent \in Allowed
  BY DEF Init
<1>. QED BY <1>1, <1>2, <1>3, <1>4, <1>5, TypeParts

LEMMA PostType ==
  ASSUME PostsOK, NEW t \in Task, NEW k \in Kind, NEW call, Post(t, k, call)
  PROVE  published' \in [Task -> [Kind -> Nat]]
<1>1. published[t][k] + 1 \in Nat
  BY DEF PostsOK
<1>2. [published[t] EXCEPT ![k] = @ + 1] \in [Kind -> Nat]
  BY <1>1 DEF PostsOK
<1>. QED BY <1>2 DEF PostsOK, Post

LEMMA GotoType ==
  ASSUME LocalOK, NEW w \in Worker, NEW location \in Location, Goto(w, location),
         location \in Busy <=> pc[w] \in Busy
  PROVE  LocalOK'
BY DEF LocalOK, Goto

LEMMA LetGoType ==
  ASSUME LocalOK, NEW w \in Worker, NEW location \in {"down", "head"}, NEW busy \in BOOLEAN,
         LetGo(w, location, busy)
  PROVE  LocalOK'
<1>1. processing' \in [Worker -> BOOLEAN]
  BY DEF LocalOK, LetGo
<1>2. pc' \in [Worker -> Location] /\ held' \in [Worker -> Task \cup {NoTask}]
  BY DEF LocalOK, LetGo, Location
<1>3. tries' \in [Worker -> 0 .. MaxRetries]
  BY DEF LocalOK, LetGo
<1>4. \A v \in Worker : pc'[v] \in Busy <=> held'[v] # NoTask
  BY DEF LocalOK, LetGo, Busy, Working
<1>. QED BY <1>1, <1>2, <1>3, <1>4 DEF LocalOK

LEMMA RetryType ==
  ASSUME LocalOK, NEW w \in Worker, pc[w] \in Working, Retry(w)
  PROVE  LocalOK'
<1>1. CASE tries[w] < MaxRetries
  BY <1>1 DEF LocalOK, Retry, Location, Busy, Working
<1>2. CASE ~(tries[w] < MaxRetries)
  BY <1>2, GotoType DEF Retry, Location, Busy, Working
<1>. QED BY <1>1, <1>2

LEMMA StepLocal ==
  ASSUME TypeOK, [Next]_vars
  PROVE  LocalOK'
<1>. USE TypeParts DEF Finish, Exit
<1>1. ASSUME UNCHANGED local
      PROVE  LocalOK'
  BY <1>1 DEF LocalOK, local
<1>2. ASSUME NEW w \in Worker, Start(w) \/ LoopHead(w)
      PROVE  LocalOK'
  <2>1. pc[w] \in {"down", "head"} /\ (Goto(w, "head") \/ Goto(w, "read") \/ Exit(w))
    BY <1>2 DEF Start, LoopHead
  <2>. QED BY <2>1, GotoType, LetGoType DEF Location, Busy, Working
<1>3. ASSUME NEW w \in Worker, ReadNew(w)
      PROVE  LocalOK'
  <2>1. CASE Goto(w, "head") \/ Exit(w)
    BY <1>3, <2>1, GotoType, LetGoType DEF ReadNew, Location, Busy, Working
  <2>2. CASE /\ cursor < tail /\ pc' = [pc EXCEPT ![w] = "taken"]
             /\ held' = [held EXCEPT ![w] = cursor + 1]
             /\ UNCHANGED <<tries, processing>>
    <3>1. cursor + 1 \in Task /\ cursor + 1 # NoTask
      BY <2>2 DEF StreamOK
    <3>. QED BY <2>2, <3>1 DEF LocalOK, Location, Busy, Working
  <2>. QED BY <1>3, <2>1, <2>2 DEF ReadNew
<1>4. ASSUME NEW w \in Worker, Admit(w)
      PROVE  LocalOK'
  <2>1. processing[w] \in BOOLEAN
    BY DEF LocalOK
  <2>2. CASE Exit(w) \/ LetGo(w, "head", processing[w]) \/ LetGo(w, "head", TRUE)
    BY <2>1, <2>2, LetGoType
  <2>3. CASE /\ pc' = [pc EXCEPT ![w] = "lock"]
             /\ processing' = [processing EXCEPT ![w] = TRUE]
             /\ UNCHANGED <<held, tries>>
    BY <1>4, <2>3 DEF Admit, LocalOK, Location, Busy, Working
  <2>. QED BY <1>4, <2>2, <2>3 DEF Admit
<1>5. ASSUME NEW w \in Worker, Lock(w)
      PROVE  LocalOK'
  <2>1. pc[w] = "lock" /\ (Goto(w, "skip") \/ Goto(w, "write"))
    BY <1>5 DEF Lock
  <2>. QED BY <2>1, GotoType DEF Location, Busy, Working
<1>6. ASSUME NEW w \in Worker, Skip(w) \/ Ack(w) \/ Kill(w)
      PROVE  LocalOK'
  BY <1>6, LetGoType DEF Skip, Ack, Kill
<1>7. ASSUME NEW w \in Worker, Write(w) \/ Publish(w)
      PROVE  LocalOK'
  <2>1. pc[w] \in Working /\ (Retry(w) \/ Goto(w, "publish") \/ Goto(w, "ack"))
    BY <1>7 DEF Write, Publish, Working
  <2>. QED BY <2>1, RetryType, GotoType DEF Location, Busy, Working
<1>8. ASSUME NEW w \in Worker, Report(w)
      PROVE  LocalOK'
  <2>1. pc[w] = "report" /\ (Exit(w) \/ Goto(w, "ack"))
    BY <1>8 DEF Report
  <2>. QED BY <2>1, LetGoType, GotoType DEF Location, Busy, Working
<1>9. ASSUME \/ \E w \in Worker : Signal(w) \/ Resume(w)
             \/ \E t \in Task : Expire(t)
             \/ Submit \/ GroupReset \/ UNCHANGED vars
      PROVE  UNCHANGED local
  BY <1>9 DEF Signal, Resume, Expire, Submit, GroupReset, vars, local
<1>. QED
  BY <1>1, <1>2, <1>3, <1>4, <1>5, <1>6, <1>7, <1>8, <1>9 DEF Next, Step

LEMMA StepSpent ==
  ASSUME TypeOK, [Next]_vars
  PROVE  /\ spent' \in Allowed
         /\ \A k \in Trouble : spent[k] \in Nat /\ spent'[k] \in Nat /\ spent[k] <= spent'[k]
<1>. DEFINE Grown == /\ spent' \in Allowed
                     /\ \A k \in Trouble : spent[k] \in Nat /\ spent'[k] \in Nat /\ spent[k] <= spent'[k]
<1>1. spent \in Allowed /\ spent \in [Trouble -> Nat]
  BY DEF TypeOK
<1>2. ASSUME NEW trouble \in Trouble, Spend(trouble)
      PROVE  Grown
  <2>1. \A k \in Trouble : spent[k] \in Nat /\ spent'[k] \in {spent[k], spent[k] + 1}
    BY <1>1, <1>2, SpendGrows
  <2>. QED BY <1>2, <2>1, SpendGrows
<1>3. ASSUME UNCHANGED spent
      PROVE  Grown
  BY <1>1, <1>3
<1>4. ASSUME NEW call \in Call, Charge(call)
      PROVE  Grown
  BY <1>2, <1>3, <1>4 DEF Charge
<1>5. ASSUME NEW w \in Worker,
             Start(w) \/ Lock(w) \/ Skip(w) \/ Publish(w) \/ Report(w) \/ Ack(w)
      PROVE  \E call \in Call : Charge(call)
  BY <1>5 DEF Start, Lock, Skip, Publish, Report, Ack
<1>6. ASSUME NEW w \in Worker, ReadNew(w) \/ Write(w) \/ LoopHead(w) \/ Resume(w)
      PROVE  UNCHANGED spent \/ \E call \in Call : Charge(call)
  BY <1>6 DEF ReadNew, Write, LoopHead, Resume
<1>7. ASSUME NEW w \in Worker, Admit(w) \/ Signal(w) \/ Kill(w)
      PROVE  UNCHANGED spent \/ Spend("throttle") \/ Spend("stop") \/ Spend("crash")
  BY <1>7 DEF Admit, Signal, Kill
<1>8. ASSUME \/ \E t \in Task : Expire(t)
             \/ Submit \/ GroupReset \/ UNCHANGED vars
      PROVE  UNCHANGED spent \/ Spend("expiry") \/ Spend("rewind")
  BY <1>8 DEF Expire, Submit, GroupReset, vars
<1>. QED
  <2>1. \/ UNCHANGED spent \/ \E call \in Call : Charge(call)
        \/ \E trouble \in Trouble : Spend(trouble)
    BY <1>5, <1>6, <1>7, <1>8 DEF Next, Step
  <2>2. Grown
    BY <1>2, <1>3, <1>4, <2>1
  <2>. QED BY <2>2

LEMMA StepTypes ==
  ASSUME TypeOK, [Next]_vars
  PROVE  TypeOK'
<1>. USE TypeParts
<1>1. StreamOK'
  <2>. USE DEF StreamOK, LocalOK
  <2>1. CASE UNCHANGED <<stream, keys>>
    BY <2>1 DEF stream
  <2>2. CASE Submit \/ GroupReset
    BY <2>2 DEF Submit, GroupReset
  <2>3. ASSUME NEW w \in Worker, Start(w)
        PROVE  StreamOK'
    BY <2>3 DEF Start
  <2>4. ASSUME NEW w \in Worker, ReadNew(w)
        PROVE  StreamOK'
    <3>1. UNCHANGED <<tail, grouped, acked, keys>>
      BY <2>4 DEF ReadNew
    <3>2. cursor' \in 0 .. tail /\ pending' \subseteq Task
      BY <2>4 DEF ReadNew
    <3>. QED BY <3>1, <3>2
  <2>5. ASSUME NEW w \in Worker, Lock(w)
        PROVE  StreamOK'
    <3>1. held[w] \in Task /\ UNCHANGED stream
      BY <2>5 DEF Lock, stream, Busy
    <3>2. keys' \subseteq Task
      BY <2>5, <3>1 DEF Lock
    <3>. QED BY <3>1, <3>2 DEF stream
  <2>6. ASSUME NEW w \in Worker, Skip(w) \/ Ack(w)
        PROVE  StreamOK'
    <3>1. held[w] \in Task /\ UNCHANGED <<tail, grouped, cursor, keys>>
      BY <2>6 DEF Skip, Ack, Busy, Working
    <3>2. PICK call \in Call : Remove(held[w], call)
      BY <2>6 DEF Skip, Ack
    <3>3. pending' \subseteq Task /\ acked' \subseteq Task
      BY <3>1, <3>2 DEF Remove
    <3>. QED BY <3>1, <3>3
  <2>7. ASSUME NEW t \in Task, Expire(t)
        PROVE  StreamOK'
    BY <2>7 DEF Expire, stream
  <2>8. ASSUME NEW w \in Worker,
               \/ LoopHead(w) \/ Admit(w) \/ Write(w) \/ Publish(w) \/ Report(w)
               \/ Signal(w) \/ Resume(w) \/ Kill(w)
        PROVE  UNCHANGED <<stream, keys>>
    BY <2>8 DEF LoopHead, Admit, Write, Publish, Report, Signal, Resume, Kill
  <2>. QED BY <2>1, <2>2, <2>3, <2>4, <2>5, <2>6, <2>7, <2>8 DEF Next, Step, vars
<1>2. PostsOK'
  <2>. USE DEF LocalOK
  <2>1. CASE UNCHANGED work
    BY <2>1 DEF work, PostsOK
  <2>2. ASSUME NEW w \in Worker, Write(w)
        PROVE  PostsOK'
    <3>1. held[w] \in Task /\ UNCHANGED published
      BY <2>2 DEF Write, Busy, Working
    <3>2. written' \in {written, [written EXCEPT ![held[w]] = @ + 1]}
      BY <2>2 DEF Write
    <3>3. written[held[w]] + 1 \in Nat /\ written \in [Task -> Nat]
      BY <3>1 DEF PostsOK
    <3>4. written' \in [Task -> Nat]
      BY <3>1, <3>2, <3>3
    <3>. QED BY <3>1, <3>4 DEF PostsOK
  <2>3. ASSUME NEW w \in Worker, Publish(w) \/ Report(w)
        PROVE  PostsOK'
    <3>1. held[w] \in Task /\ UNCHANGED written
      BY <2>3 DEF Publish, Report, Busy, Working
    <3>2. \E k \in Kind, call \in Call : Post(held[w], k, call)
      BY <2>3 DEF Publish, Report, Kind
    <3>. QED BY <3>1, <3>2, PostType DEF PostsOK
  <2>4. ASSUME NEW w \in Worker,
               \/ Start(w) \/ LoopHead(w) \/ ReadNew(w) \/ Admit(w) \/ Lock(w) \/ Skip(w) \/ Ack(w)
               \/ Signal(w) \/ Resume(w) \/ Kill(w)
        PROVE  UNCHANGED work
    BY <2>4 DEF Start, LoopHead, ReadNew, Admit, Lock, Skip, Ack, Signal, Resume, Kill
  <2>5. ASSUME Submit \/ GroupReset \/ (\E t \in Task : Expire(t)) \/ UNCHANGED vars
        PROVE  UNCHANGED work
    BY <2>5 DEF Submit, GroupReset, Expire, vars
  <2>. QED BY <2>1, <2>2, <2>3, <2>4, <2>5 DEF Next, Step
<1>3. ControlOK'
  <2>. USE DEF ControlOK
  <2>1. CASE UNCHANGED control
    BY <2>1 DEF control
  <2>2. ASSUME NEW w \in Worker, Start(w) \/ Signal(w) \/ Resume(w) \/ Kill(w)
        PROVE  ControlOK'
    BY <2>2 DEF Start, Signal, Resume, Kill
  <2>3. ASSUME NEW w \in Worker,
               \/ LoopHead(w) \/ ReadNew(w) \/ Admit(w) \/ Lock(w) \/ Skip(w) \/ Write(w) \/ Publish(w)
               \/ Report(w) \/ Ack(w)
        PROVE  UNCHANGED control
    BY <2>3 DEF LoopHead, ReadNew, Admit, Lock, Skip, Write, Publish, Report, Ack
  <2>4. ASSUME Submit \/ GroupReset \/ (\E t \in Task : Expire(t)) \/ UNCHANGED vars
        PROVE  UNCHANGED control
    BY <2>4 DEF Submit, GroupReset, Expire, vars
  <2>. QED BY <2>1, <2>2, <2>3, <2>4 DEF Next, Step
<1>4. LocalOK' /\ (spent \in Allowed)'
  BY StepLocal, StepSpent
<1>. QED BY <1>1, <1>2, <1>3, <1>4 DEF TypeOK, LocalOK, StreamOK, PostsOK, ControlOK

(* Every variable has its type, and a worker holds an entry exactly while  *)
(* it is busy with one (write_worker.py, start and process).               *)
THEOREM TypeCorrect == Spec => []TypeOK
<1>1. TypeOK /\ [Next]_vars => TypeOK'
  BY StepTypes
<1>. QED BY InitTypes, <1>1, PTL DEF Spec

-----------------------------------------------------------------------------
(* What one step does, flattened: the worker that moves, what it posted,   *)
(* and what that cost.                                                     *)
Others(w) == \A v \in Worker : v # w => pc'[v] = pc[v] /\ held'[v] = held[v]
Spent(trouble) ==
  /\ spent'[trouble] = spent[trouble] + 1
  /\ \A k \in Trouble : k # trouble => spent'[k] = spent[k]
Posted(t, k) == published' = [published EXCEPT ![t][k] = @ + 1]
Keeps(w, locations) == pc'[w] \in locations /\ held'[w] = held[w]
Drops(w, location) == pc'[w] = location /\ held'[w] = NoTask

LEMMA SpendSpent ==
  ASSUME TypeOK, NEW trouble \in Trouble, Spend(trouble)
  PROVE  Spent(trouble)
BY SpendGrows DEF Spent

LEMMA ChargeSpent ==
  ASSUME TypeOK, NEW call \in Call, Charge(call)
  PROVE  /\ call = "ok" => Applied(call) /\ spent' = spent
         /\ call # "ok" => Spent("fault")
BY ChargeGrows DEF Spent, Applied

LEMMA LetGoMove ==
  ASSUME TypeOK, NEW w \in Worker, NEW location, NEW busy, LetGo(w, location, busy)
  PROVE  Drops(w, location) /\ Others(w)
BY DEF TypeOK, LetGo, Drops, Others

LEMMA GotoMove ==
  ASSUME TypeOK, NEW w \in Worker, NEW location, Goto(w, location)
  PROVE  pc'[w] = location /\ held' = held /\ Others(w)
BY DEF TypeOK, Goto, Others

LEMMA RetryMove ==
  ASSUME TypeOK, NEW w \in Worker, Retry(w)
  PROVE  pc'[w] \in {"write", "report"} /\ held' = held /\ Others(w)
BY GotoMove DEF TypeOK, Retry, Others

LEMMA ReadMove ==
  ASSUME TypeOK, NEW w \in Worker, ReadNew(w)
  PROVE  /\ pc[w] = "read" /\ Others(w) /\ UNCHANGED <<tail, acked, keys, work, control>>
         /\ \/ /\ Drops(w, "head") \/ Drops(w, "down")
               /\ UNCHANGED <<cursor, pending, spent>>
            \/ /\ pc'[w] = "taken" /\ held'[w] = cursor + 1 /\ cursor < tail
               /\ cursor' = cursor + 1 /\ pending' = pending \cup {cursor + 1} /\ spent' = spent
            \/ /\ Drops(w, "down") /\ Spent("fault")
               /\ cursor' \in {cursor, cursor + 1}
<1>1. pc[w] = "read" /\ UNCHANGED <<tail, acked, keys, work, control>>
  BY DEF ReadNew
<1>2. held[w] = NoTask
  BY <1>1 DEF TypeOK, Busy, Working
<1>3. CASE UNCHANGED <<cursor, pending, spent>> /\ (Exit(w) \/ Goto(w, "head"))
  BY <1>1, <1>2, <1>3, LetGoMove, GotoMove DEF Exit, Drops
<1>4. ASSUME NEW call \in Call, cursor < tail, Charge(call),
             cursor' = IF Applied(call) THEN cursor + 1 ELSE cursor,
             pending' = IF Applied(call) THEN pending \cup {cursor + 1} ELSE pending,
             call = "ok" => pc' = [pc EXCEPT ![w] = "taken"] /\ held' = [held EXCEPT ![w] = cursor + 1],
             call # "ok" => Exit(w)
      PROVE  /\ Others(w)
             /\ \/ /\ pc'[w] = "taken" /\ held'[w] = cursor + 1 /\ cursor < tail
                   /\ cursor' = cursor + 1 /\ pending' = pending \cup {cursor + 1} /\ spent' = spent
                \/ /\ Drops(w, "down") /\ Spent("fault")
                   /\ cursor' \in {cursor, cursor + 1}
  <2>1. CASE call = "ok"
    BY <1>4, <2>1, ChargeSpent DEF TypeOK, Others
  <2>2. CASE call # "ok"
    BY <1>4, <2>2, ChargeSpent, LetGoMove DEF Exit
  <2>. QED BY <2>1, <2>2
<1>. QED BY <1>1, <1>3, <1>4 DEF ReadNew

LEMMA AdmitMove ==
  ASSUME TypeOK, NEW w \in Worker, Admit(w)
  PROVE  /\ pc[w] = "taken" /\ Others(w) /\ UNCHANGED <<stream, keys, work, control>>
         /\ \/ Drops(w, "head") /\ stopping[w] /\ spent' = spent
            \/ Drops(w, "head") /\ Spent("throttle")
            \/ Drops(w, "down") /\ held[w] \in Malformed /\ spent' = spent
            \/ Keeps(w, {"lock"}) /\ spent' = spent
<1>1. pc[w] = "taken" /\ UNCHANGED <<stream, keys, work, control>>
  BY DEF Admit
<1>2. CASE stopping[w] /\ LetGo(w, "head", processing[w]) /\ UNCHANGED spent
  BY <1>1, <1>2, LetGoMove
<1>3. CASE Spend("throttle") /\ LetGo(w, "head", TRUE)
  BY <1>1, <1>3, LetGoMove, SpendSpent
<1>4. CASE held[w] \in Malformed /\ Exit(w) /\ UNCHANGED spent
  BY <1>1, <1>4, LetGoMove DEF Exit
<1>5. CASE pc' = [pc EXCEPT ![w] = "lock"] /\ UNCHANGED <<held, spent>>
  BY <1>1, <1>5 DEF TypeOK, Others, Keeps
<1>. QED BY <1>2, <1>3, <1>4, <1>5 DEF Admit

LEMMA LockMove ==
  ASSUME TypeOK, NEW w \in Worker, Lock(w)
  PROVE  /\ pc[w] = "lock" /\ Others(w) /\ UNCHANGED <<stream, work, control>>
         /\ \/ Keeps(w, {"skip"}) /\ held[w] \in keys /\ keys' = keys /\ spent' = spent
            \/ Keeps(w, {"write"}) /\ held[w] \notin keys /\ keys' = keys \cup {held[w]} /\ spent' = spent
            \/ Keeps(w, {"write"}) /\ keys' \in {keys, keys \cup {held[w]}} /\ Spent("fault")
<1>1. PICK call \in Call :
        /\ Charge(call)
        /\ keys' = IF Applied(call) THEN keys \cup {held[w]} ELSE keys
        /\ Goto(w, IF call = "ok" /\ held[w] \in keys THEN "skip" ELSE "write")
  BY DEF Lock
<1>2. pc[w] = "lock" /\ UNCHANGED <<stream, work, control>>
  BY DEF Lock
<1>3. /\ pc'[w] = IF call = "ok" /\ held[w] \in keys THEN "skip" ELSE "write"
      /\ held'[w] = held[w] /\ Others(w)
  BY <1>1, GotoMove
<1>. QED BY <1>1, <1>2, <1>3, ChargeSpent DEF Keeps

(* The end of an entry, after the work or without it.                      *)
LEMMA AckMove ==
  ASSUME TypeOK, NEW w \in Worker, Ack(w) \/ Skip(w)
  PROVE  /\ pc[w] \in {"ack", "skip"}
         /\ Drops(w, "head") /\ Others(w) /\ UNCHANGED <<tail, cursor, keys, work, control>>
         /\ \/ pending' = pending \ {held[w]} /\ acked' = acked \cup {held[w]} /\ spent' = spent
            \/ acked' \in {acked, acked \cup {held[w]}} /\ Spent("fault")
<1>1. PICK call \in Call : Charge(call) /\ Remove(held[w], call)
  BY DEF Ack, Skip
<1>2. /\ pc[w] \in {"ack", "skip"}
      /\ LetGo(w, "head", FALSE) /\ UNCHANGED <<tail, cursor, keys, work, control>>
  BY DEF Ack, Skip, Finish
<1>. QED BY <1>1, <1>2, ChargeSpent, LetGoMove DEF Remove

LEMMA WriteMove ==
  ASSUME TypeOK, NEW w \in Worker, Write(w)
  PROVE  /\ pc[w] = "write" /\ Others(w) /\ UNCHANGED <<stream, keys, published, control>>
         /\ \/ Keeps(w, {"write", "report"}) /\ written' = written /\ (spent' = spent \/ Spent("fault"))
            \/ /\ Keeps(w, {"publish"}) /\ spent' = spent
               /\ written' = [written EXCEPT ![held[w]] = @ + 1]
            \/ /\ Keeps(w, {"write", "report"}) /\ Spent("fault")
               /\ written' = [written EXCEPT ![held[w]] = @ + 1]
<1>1. pc[w] = "write" /\ UNCHANGED <<stream, keys, published, control>>
  BY DEF Write
<1>2. CASE Retry(w) /\ UNCHANGED <<written, spent>>
  BY <1>1, <1>2, RetryMove DEF Keeps
<1>3. ASSUME NEW call \in Call, Charge(call),
             written' = IF Applied(call) THEN [written EXCEPT ![held[w]] = @ + 1] ELSE written,
             IF call = "ok" THEN Goto(w, "publish") ELSE Retry(w)
      PROVE  /\ Others(w)
             /\ \/ Keeps(w, {"write", "report"}) /\ written' = written /\ Spent("fault")
                \/ /\ Keeps(w, {"publish"}) /\ spent' = spent
                   /\ written' = [written EXCEPT ![held[w]] = @ + 1]
                \/ /\ Keeps(w, {"write", "report"}) /\ Spent("fault")
                   /\ written' = [written EXCEPT ![held[w]] = @ + 1]
  <2>1. CASE call = "ok"
    BY <1>3, <2>1, ChargeSpent, GotoMove DEF Keeps
  <2>2. CASE call # "ok"
    BY <1>3, <2>2, ChargeSpent, RetryMove DEF Keeps
  <2>. QED BY <2>1, <2>2
<1>. QED BY <1>1, <1>2, <1>3 DEF Write

LEMMA PublishMove ==
  ASSUME TypeOK, NEW w \in Worker, Publish(w)
  PROVE  /\ pc[w] = "publish" /\ Others(w) /\ UNCHANGED <<stream, keys, written, control>>
         /\ \/ Keeps(w, {"ack"}) /\ Posted(held[w], "result") /\ spent' = spent
            \/ /\ Keeps(w, {"write", "report"}) /\ Spent("fault")
               /\ published' = published \/ Posted(held[w], "result")
<1>1. PICK call \in Call : /\ Charge(call)
                           /\ Post(held[w], "result", call)
                           /\ IF call = "ok" THEN Goto(w, "ack") ELSE Retry(w)
  BY DEF Publish
<1>2. pc[w] = "publish" /\ UNCHANGED <<stream, keys, written, control>>
  BY DEF Publish
<1>3. CASE call = "ok"
  BY <1>1, <1>2, <1>3, ChargeSpent, GotoMove DEF Keeps, Post, Posted
<1>4. CASE call # "ok"
  BY <1>1, <1>2, <1>4, ChargeSpent, RetryMove DEF Keeps, Post, Posted
<1>. QED BY <1>3, <1>4

LEMMA ReportMove ==
  ASSUME TypeOK, NEW w \in Worker, Report(w)
  PROVE  /\ pc[w] = "report" /\ Others(w) /\ UNCHANGED <<stream, keys, written, control>>
         /\ \/ /\ Keeps(w, {"ack"}) /\ spent' = spent
               /\ Posted(held[w], "dead") \/ Posted(held[w], "error")
            \/ /\ Keeps(w, {"ack"}) /\ Spent("fault") /\ held[w] \in LastTry /\ DlqEnabled
               /\ published' = published \/ Posted(held[w], "dead")
            \/ /\ Drops(w, "down") /\ Spent("fault")
               /\ published' = published \/ Posted(held[w], "error")
<1>1. PICK call \in Call :
        /\ Charge(call)
        /\ \/ /\ held[w] \in LastTry /\ DlqEnabled
              /\ Post(held[w], "dead", call)
              /\ Goto(w, "ack")
           \/ /\ Post(held[w], "error", call)
              /\ IF call = "ok" THEN Goto(w, "ack") ELSE Exit(w)
  BY DEF Report
<1>2. pc[w] = "report" /\ UNCHANGED <<stream, keys, written, control>>
  BY DEF Report
<1>3. CASE call = "ok"
  BY <1>1, <1>2, <1>3, ChargeSpent, GotoMove DEF Keeps, Post, Posted
<1>4. CASE call # "ok" /\ Goto(w, "ack") /\ held[w] \in LastTry /\ DlqEnabled /\ Post(held[w], "dead", call)
  BY <1>1, <1>2, <1>4, ChargeSpent, GotoMove DEF Keeps, Post, Posted
<1>5. CASE call # "ok" /\ Exit(w) /\ Post(held[w], "error", call)
  BY <1>1, <1>2, <1>5, ChargeSpent, LetGoMove DEF Exit, Post, Posted
<1>. QED BY <1>1, <1>3, <1>4, <1>5

LEMMA KillMove ==
  ASSUME TypeOK, NEW w \in Worker, Kill(w)
  PROVE  /\ Drops(w, "down") /\ Others(w) /\ UNCHANGED <<stream, keys, work>>
         /\ (waiting[w] /\ spent' = spent) \/ Spent("crash")
BY LetGoMove, SpendSpent DEF Kill, Exit

(* A worker starts, or begins another turn of its loop, with empty hands.  *)
LEMMA LoopMove ==
  ASSUME TypeOK, NEW w \in Worker, Start(w) \/ LoopHead(w)
  PROVE  /\ pc'[w] \in {"head", "read", "down"} /\ held[w] = NoTask /\ held'[w] = NoTask
         /\ Others(w) /\ UNCHANGED <<tail, pending, acked, keys, work, waiting>>
         /\ cursor' \in {cursor, tail} /\ (spent' = spent \/ Spent("fault"))
<1>1. /\ pc[w] \in {"down", "head"} /\ UNCHANGED <<tail, pending, acked, keys, work, waiting>>
      /\ Goto(w, "head") \/ Goto(w, "read") \/ Exit(w)
  BY DEF Start, LoopHead, stream, control
<1>2. held[w] = NoTask
  BY <1>1 DEF TypeOK, Busy, Working
<1>3. pc'[w] \in {"head", "read", "down"} /\ held'[w] = NoTask /\ Others(w)
  BY <1>1, <1>2, GotoMove, LetGoMove DEF Exit, Drops
<1>4. cursor' \in {cursor, tail} /\ (spent' = spent \/ Spent("fault"))
  BY ChargeSpent DEF Start, LoopHead, stream
<1>. QED BY <1>1, <1>2, <1>3, <1>4

(* Everybody else: producers, signals, keys that expire, operators.        *)
LEMMA OutsideMove ==
  ASSUME TypeOK,
         \/ \E w \in Worker : Signal(w) \/ Resume(w)
         \/ \E t \in Task : Expire(t)
         \/ Submit \/ GroupReset \/ UNCHANGED vars
  PROVE  /\ UNCHANGED <<pc, held, work, pending, acked>>
         /\ \/ keys' = keys /\ cursor' = cursor /\ (spent' = spent \/ Spent("stop"))
            \/ \E t \in keys : keys' = keys \ {t} /\ cursor' = cursor /\ Spent("expiry")
            \/ keys' = keys /\ Spent("rewind")
<1>1. CASE \E w \in Worker : Signal(w) \/ Resume(w)
  BY <1>1, SpendSpent DEF Signal, Resume, stream, local
<1>2. CASE \E t \in Task : Expire(t)
  BY <1>2, SpendSpent DEF Expire, stream, local
<1>3. CASE Submit \/ GroupReset \/ UNCHANGED vars
  BY <1>3, SpendSpent DEF Submit, GroupReset, vars, stream, local
<1>. QED BY <1>1, <1>2, <1>3

-----------------------------------------------------------------------------
(* Adding or taking away one element.                                      *)
LEMMA OneMore ==
  ASSUME NEW A, NEW B, IsFiniteSet(A), NEW w, A \ {w} = B \ {w}
  PROVE  /\ IsFiniteSet(B) /\ Cardinality(A) \in Nat /\ Cardinality(B) \in Nat
         /\ (w \in A <=> w \in B) => Cardinality(B) = Cardinality(A)
         /\ w \notin A /\ w \in B => Cardinality(B) = Cardinality(A) + 1
         /\ w \in A /\ w \notin B => Cardinality(B) + 1 = Cardinality(A)
<1>1. CASE w \in A <=> w \in B
  <2>1. A = B
    BY <1>1
  <2>. QED BY <2>1, <1>1, FS_CardinalityType
<1>2. CASE w \notin A /\ w \in B
  <2>1. B = A \cup {w}
    BY <1>2
  <2>2. IsFiniteSet(B) /\ Cardinality(B) = Cardinality(A) + 1
    BY <1>2, <2>1, FS_AddElement
  <2>. QED BY <1>2, <2>2, FS_CardinalityType
<1>3. CASE w \in A /\ w \notin B
  <2>1. B = A \ {w}
    BY <1>3
  <2>2. IsFiniteSet(B) /\ Cardinality(B) = Cardinality(A) - 1 /\ Cardinality(A) \in Nat
    BY <1>3, <2>1, FS_RemoveElement, FS_CardinalityType
  <2>. QED BY <1>3, <2>2, FS_CardinalityType
<1>. QED BY <1>1, <1>2, <1>3

LEMMA Crews ==
  \A t \in Task : /\ IsFiniteSet(Writing(t)) /\ Cardinality(Writing(t)) \in Nat
                  /\ IsFiniteSet(Owing(t)) /\ Cardinality(Owing(t)) \in Nat
BY FS_Subset, FS_CardinalityType DEF Writing, Owing

(* The crews of an entry change by the worker that moves.                  *)
LEMMA CrewsMove ==
  ASSUME TypeOK, NEW w \in Worker, Others(w), NEW t \in Task
  PROVE  /\ Writing(t)' \ {w} = Writing(t) \ {w}
         /\ Owing(t)' \ {w} = Owing(t) \ {w}
         /\ w \in Writing(t)' <=> pc'[w] = "write" /\ held'[w] = t
         /\ w \in Owing(t)' <=> pc'[w] \in {"write", "publish", "report"} /\ held'[w] = t
         /\ w \in Writing(t) <=> pc[w] = "write" /\ held[w] = t
         /\ w \in Owing(t) <=> pc[w] \in {"write", "publish", "report"} /\ held[w] = t
BY DEF Others, Writing, Owing

LEMMA Renewed ==
  ASSUME TypeOK, TypeOK'
  PROVE  /\ Renewals \in Nat /\ Renewals' \in Nat
         /\ spent' = spent => Renewals' = Renewals
         /\ Spent("fault") \/ Spent("expiry") => Renewals' = Renewals + 1
         /\ \A k \in Trouble \ {"fault", "expiry"} : Spent(k) => Renewals' = Renewals
<1>1. spent \in [Trouble -> Nat] /\ spent' \in [Trouble -> Nat]
  BY DEF TypeOK
<1>. QED BY <1>1 DEF Renewals, Spent

(* A write uses up a turn that a key or a renewal gave.                    *)
LEMMA StepWriteLedger ==
  ASSUME TypeOK, TypeOK', WriteLedger, [Next]_vars, NEW t \in Task
  PROVE  written'[t] + Cardinality(Writing(t)') + Unlocked(t)' <= 1 + Renewals'
<1>. DEFINE n == Cardinality(Writing(t))
            n1 == Cardinality(Writing(t)')
            u == Unlocked(t)
            u1 == Unlocked(t)'
<1>1. /\ written[t] \in Nat /\ written'[t] \in Nat /\ n \in Nat /\ u \in 0 .. 1 /\ u1 \in 0 .. 1
      /\ written[t] + n + u <= 1 + Renewals
      /\ Renewals \in Nat /\ Renewals' \in Nat
  <2>1. written[t] + n + u <= 1 + Renewals
    BY DEF WriteLedger
  <2>2. written[t] \in Nat /\ written'[t] \in Nat
    BY DEF TypeOK
  <2>3. n \in Nat /\ Renewals \in Nat /\ Renewals' \in Nat
    BY Crews, Renewed
  <2>4. u \in 0 .. 1 /\ u1 \in 0 .. 1
    BY DEF Unlocked
  <2>. QED BY <2>1, <2>2, <2>3, <2>4
<1>2. ASSUME NEW w \in Worker, Others(w)
      PROVE  /\ n1 \in Nat
             /\ (w \in Writing(t) <=> w \in Writing(t)') => n1 = n
             /\ w \notin Writing(t) /\ w \in Writing(t)' => n1 = n + 1
             /\ w \in Writing(t) /\ w \notin Writing(t)' => n1 + 1 = n
  <2>1. IsFiniteSet(Writing(t)) /\ Writing(t) \ {w} = Writing(t)' \ {w}
    BY <1>2, Crews, CrewsMove
  <2>. QED BY <2>1, OneMore
<1>. HIDE DEF n, n1
<1>3. ASSUME NEW w \in Worker, Lock(w)
      PROVE  written'[t] + n1 + u1 <= 1 + Renewals'
  <2>1. written'[t] = written[t] /\ w \notin Writing(t)
    BY <1>3, LockMove DEF work, Writing
  <2>2. CASE held[w] = t
    BY <1>1, <1>2, <1>3, <2>1, <2>2, LockMove, CrewsMove, Renewed DEF Keeps, Unlocked
  <2>3. CASE held[w] # t
    <3>1. u1 = u
      BY <1>3, <2>3, LockMove DEF Unlocked
    <3>. QED BY <1>1, <1>2, <1>3, <2>1, <2>3, <3>1, LockMove, CrewsMove, Renewed DEF Keeps
  <2>. QED BY <2>2, <2>3
<1>4. ASSUME NEW w \in Worker, Write(w)
      PROVE  written'[t] + n1 + u1 <= 1 + Renewals'
  <2>1. u1 = u /\ pc[w] = "write" /\ Others(w) /\ held'[w] = held[w]
    BY <1>4, WriteMove DEF Unlocked, Keeps
  <2>2. CASE held[w] = t
    <3>1. w \in Writing(t) /\ (w \in Writing(t)' <=> pc'[w] = "write")
      BY <2>1, <2>2, CrewsMove
    <3>2. written' = [written EXCEPT ![held[w]] = @ + 1] => written'[t] = written[t] + 1
      BY <2>2 DEF TypeOK
    <3>. QED BY <1>1, <1>2, <1>4, <2>1, <2>2, <3>1, <3>2, WriteMove, Renewed DEF Keeps
  <2>3. CASE held[w] # t
    <3>1. w \notin Writing(t) /\ w \notin Writing(t)'
      BY <2>1, <2>3, CrewsMove
    <3>2. written'[t] = written[t]
      <4>1. written' = written \/ written' = [written EXCEPT ![held[w]] = @ + 1]
        BY <1>4, WriteMove
      <4>. QED BY <2>3, <4>1 DEF TypeOK
    <3>3. n1 = n
      BY <1>2, <2>1, <3>1
    <3>. QED BY <1>1, <1>4, <2>1, <3>2, <3>3, WriteMove, Renewed
  <2>. QED BY <2>2, <2>3
<1>5. ASSUME NEW w \in Worker, Publish(w)
      PROVE  written'[t] + n1 + u1 <= 1 + Renewals'
  <2>1. /\ u1 = u /\ written'[t] = written[t] /\ w \notin Writing(t)
        /\ Others(w) /\ ((w \notin Writing(t)' /\ spent' = spent) \/ Spent("fault"))
    BY <1>5, PublishMove DEF Unlocked, Writing, Keeps
  <2>. QED BY <1>1, <1>2, <2>1, Renewed
<1>6. ASSUME written' = written, u1 = u, n1 \in Nat, n1 <= n, Renewals <= Renewals'
      PROVE  written'[t] + n1 + u1 <= 1 + Renewals'
  BY <1>1, <1>6
<1>7. ASSUME NEW w \in Worker,
             Start(w) \/ LoopHead(w) \/ ReadNew(w) \/ Admit(w) \/ Skip(w) \/ Report(w) \/ Ack(w) \/ Kill(w)
      PROVE  written'[t] + n1 + u1 <= 1 + Renewals'
  <2>1. /\ UNCHANGED <<written, keys>> /\ Others(w) /\ pc'[w] # "write"
    BY <1>7, LoopMove, ReadMove, AdmitMove, AckMove, ReportMove, KillMove DEF Keeps, Drops, work
  <2>2. n1 \in Nat /\ n1 <= n
    BY <1>1, <1>2, <2>1, CrewsMove
  <2>3. Renewals <= Renewals' /\ u1 = u
    BY <2>1, StepSpent DEF Unlocked, Renewals
  <2>. QED BY <1>6, <2>1, <2>2, <2>3
<1>8. ASSUME \/ \E w \in Worker : Signal(w) \/ Resume(w)
             \/ \E k \in Task : Expire(k)
             \/ Submit \/ GroupReset \/ UNCHANGED vars
      PROVE  written'[t] + n1 + u1 <= 1 + Renewals'
  <2>1. written' = written /\ n1 = n
    BY <1>8, OutsideMove DEF work, n, n1, Writing
  <2>2. u1 <= u \/ (u1 <= u + 1 /\ Spent("expiry"))
    BY <1>8, OutsideMove DEF Unlocked
  <2>3. Renewals <= Renewals'
    BY StepSpent DEF Renewals
  <2>. QED BY <1>1, <2>1, <2>2, <2>3, Renewed
<1>. QED BY <1>3, <1>4, <1>5, <1>7, <1>8 DEF Next, Step, n1

(* Posting adds one to one count.                                          *)
LEMMA PostedReplies ==
  ASSUME TypeOK, TypeOK', NEW t \in Task, NEW h \in Task
  PROVE  /\ Replies(t) \in Nat /\ Replies(t)' \in Nat
         /\ published' = published => Replies(t)' = Replies(t)
         /\ \A k \in Kind : h # t /\ Posted(h, k) => Replies(t)' = Replies(t)
         /\ \A k \in {"result", "error"} : h = t /\ Posted(h, k) => Replies(t)' = Replies(t) + 1
         /\ h = t /\ Posted(h, "dead") => Replies(t)' = Replies(t)
<1>1. /\ published \in [Task -> [Kind -> Nat]] /\ published' \in [Task -> [Kind -> Nat]]
      /\ published[t] \in [Kind -> Nat] /\ published'[t] \in [Kind -> Nat]
  BY DEF TypeOK
<1>2. /\ published[t]["result"] \in Nat /\ published[t]["error"] \in Nat
      /\ published'[t]["result"] \in Nat /\ published'[t]["error"] \in Nat
  BY <1>1 DEF Kind
<1>3. ASSUME NEW k \in Kind, Posted(h, k)
      PROVE  published'[t] = IF h = t THEN [published[t] EXCEPT ![k] = @ + 1] ELSE published[t]
  BY <1>1, <1>3 DEF Posted
<1>4. \A k \in Kind : h # t /\ Posted(h, k) => Replies(t)' = Replies(t)
  BY <1>3 DEF Replies
<1>5. ASSUME h = t, Posted(h, "result")
      PROVE  published'[t]["result"] = published[t]["result"] + 1 /\ published'[t]["error"] = published[t]["error"]
  BY <1>1, <1>3, <1>5 DEF Kind
<1>6. ASSUME h = t, Posted(h, "error")
      PROVE  published'[t]["error"] = published[t]["error"] + 1 /\ published'[t]["result"] = published[t]["result"]
  BY <1>1, <1>3, <1>6 DEF Kind
<1>7. ASSUME h = t, Posted(h, "dead")
      PROVE  published'[t]["error"] = published[t]["error"] /\ published'[t]["result"] = published[t]["result"]
  BY <1>1, <1>3, <1>7 DEF Kind
<1>. QED BY <1>2, <1>4, <1>5, <1>6, <1>7 DEF Replies

(* An answer uses up a turn, too.                                          *)
LEMMA StepReplyLedger ==
  ASSUME TypeOK, TypeOK', ReplyLedger, [Next]_vars, NEW t \in Task
  PROVE  Replies(t)' + Cardinality(Owing(t)') + Unlocked(t)' <= 1 + Renewals'
<1>. DEFINE n == Cardinality(Owing(t))
            n1 == Cardinality(Owing(t)')
            u == Unlocked(t)
            u1 == Unlocked(t)'
            k0 == Replies(t)
            k1 == Replies(t)'
<1>1. /\ k0 \in Nat /\ k1 \in Nat /\ n \in Nat /\ u \in 0 .. 1 /\ u1 \in 0 .. 1
      /\ k0 + n + u <= 1 + Renewals
      /\ Renewals \in Nat /\ Renewals' \in Nat
  <2>1. k0 + n + u <= 1 + Renewals
    BY DEF ReplyLedger
  <2>2. k0 \in Nat /\ k1 \in Nat
    BY PostedReplies
  <2>3. n \in Nat /\ Renewals \in Nat /\ Renewals' \in Nat
    BY Crews, Renewed
  <2>4. u \in 0 .. 1 /\ u1 \in 0 .. 1
    BY DEF Unlocked
  <2>. QED BY <2>1, <2>2, <2>3, <2>4
<1>2. ASSUME NEW w \in Worker, Others(w)
      PROVE  /\ n1 \in Nat
             /\ (w \in Owing(t) <=> w \in Owing(t)') => n1 = n
             /\ w \notin Owing(t) /\ w \in Owing(t)' => n1 = n + 1
             /\ w \in Owing(t) /\ w \notin Owing(t)' => n1 + 1 = n
  <2>1. IsFiniteSet(Owing(t)) /\ Owing(t) \ {w} = Owing(t)' \ {w}
    BY <1>2, Crews, CrewsMove
  <2>. QED BY <2>1, OneMore
<1>. HIDE DEF n, n1, k0, k1
<1>3. ASSUME NEW w \in Worker, Lock(w)
      PROVE  k1 + n1 + u1 <= 1 + Renewals'
  <2>1. k1 = k0 /\ w \notin Owing(t)
    BY <1>3, LockMove DEF work, Owing, k0, k1, Replies
  <2>2. CASE held[w] = t
    BY <1>1, <1>2, <1>3, <2>1, <2>2, LockMove, CrewsMove, Renewed DEF Keeps, Unlocked
  <2>3. CASE held[w] # t
    <3>1. u1 = u
      BY <1>3, <2>3, LockMove DEF Unlocked
    <3>. QED BY <1>1, <1>2, <1>3, <2>1, <2>3, <3>1, LockMove, CrewsMove, Renewed DEF Keeps
  <2>. QED BY <2>2, <2>3
<1>4. ASSUME NEW w \in Worker, Publish(w) \/ Report(w)
      PROVE  k1 + n1 + u1 <= 1 + Renewals'
  <2>1. /\ u1 = u /\ pc[w] \in {"publish", "report"} /\ held[w] \in Task /\ Others(w)
        /\ held'[w] = held[w] \/ Drops(w, "down")
    BY <1>4, PublishMove, ReportMove DEF Unlocked, Keeps, TypeOK, Busy, Working
  <2>2. CASE held[w] = t
    <3>1. w \in Owing(t)
      BY <2>1, <2>2, CrewsMove
    <3>2. k1 <= k0 + 1
      BY <1>1, <1>4, <2>1, <2>2, PublishMove, ReportMove, PostedReplies DEF k0, k1
    <3>3. \/ w \notin Owing(t)' /\ (spent' = spent \/ Spent("fault"))
          \/ Spent("fault")
      BY <1>4, <2>1, PublishMove, ReportMove, CrewsMove DEF Keeps
    <3>. QED BY <1>1, <1>2, <2>1, <3>1, <3>2, <3>3, Renewed
  <2>3. CASE held[w] # t
    <3>1. w \notin Owing(t) /\ w \notin Owing(t)'
      BY <2>1, <2>3, CrewsMove DEF Drops
    <3>2. k1 = k0
      BY <1>4, <2>1, <2>3, PublishMove, ReportMove, PostedReplies DEF k0, k1, Kind
    <3>3. Renewals <= Renewals'
      BY StepSpent DEF Renewals
    <3>. QED BY <1>1, <1>2, <2>1, <3>1, <3>2, <3>3
  <2>. QED BY <2>2, <2>3
<1>5. ASSUME NEW w \in Worker, Write(w)
      PROVE  k1 + n1 + u1 <= 1 + Renewals'
  <2>1. /\ k1 = k0 /\ u1 = u /\ Others(w) /\ pc[w] = "write" /\ held'[w] = held[w]
        /\ pc'[w] \in {"write", "publish", "report"}
    BY <1>5, WriteMove DEF Unlocked, Keeps, k0, k1, Replies
  <2>2. n1 = n
    BY <1>2, <2>1, CrewsMove
  <2>3. Renewals <= Renewals'
    BY StepSpent DEF Renewals
  <2>. QED BY <1>1, <2>1, <2>2, <2>3
<1>6. ASSUME NEW w \in Worker,
             Start(w) \/ LoopHead(w) \/ ReadNew(w) \/ Admit(w) \/ Skip(w) \/ Ack(w) \/ Kill(w)
      PROVE  k1 + n1 + u1 <= 1 + Renewals'
  <2>1. /\ UNCHANGED <<work, keys>> /\ Others(w) /\ pc'[w] \notin {"write", "publish", "report"}
    BY <1>6, LoopMove, ReadMove, AdmitMove, AckMove, KillMove DEF Keeps, Drops
  <2>2. n1 \in Nat /\ n1 <= n
    BY <1>1, <1>2, <2>1, CrewsMove
  <2>3. Renewals <= Renewals' /\ u1 = u /\ k1 = k0
    BY <2>1, StepSpent DEF Unlocked, Renewals, k0, k1, Replies, work
  <2>. QED BY <1>1, <2>2, <2>3
<1>7. ASSUME \/ \E w \in Worker : Signal(w) \/ Resume(w)
             \/ \E k \in Task : Expire(k)
             \/ Submit \/ GroupReset \/ UNCHANGED vars
      PROVE  k1 + n1 + u1 <= 1 + Renewals'
  <2>1. k1 = k0 /\ n1 = n
    BY <1>7, OutsideMove DEF work, n, n1, Owing, k0, k1, Replies
  <2>2. u1 <= u \/ (u1 <= u + 1 /\ Spent("expiry"))
    BY <1>7, OutsideMove DEF Unlocked
  <2>3. Renewals <= Renewals'
    BY StepSpent DEF Renewals
  <2>. QED BY <1>1, <2>1, <2>2, <2>3, Renewed
<1>. QED BY <1>3, <1>4, <1>5, <1>6, <1>7 DEF Next, Step, n1, k1

LEMMA InitLedgers == Init => WriteLedger /\ ReplyLedger
<1>. SUFFICES ASSUME Init, NEW t \in Task
              PROVE  /\ written[t] + Cardinality(Writing(t)) + Unlocked(t) <= 1 + Renewals
                     /\ Replies(t) + Cardinality(Owing(t)) + Unlocked(t) <= 1 + Renewals
  BY DEF WriteLedger, ReplyLedger
<1>1. Writing(t) = {} /\ Owing(t) = {}
  BY DEF Init, Writing, Owing
<1>2. written[t] = 0 /\ Replies(t) = 0 /\ Unlocked(t) = 1 /\ Renewals = 0
  BY DEF Init, Replies, Unlocked, Renewals, Kind
<1>. QED BY <1>1, <1>2, FS_EmptySet

(* However often the group is set back and whoever dies, an entry is       *)
(* written once and answered once, and once more for each raised call and  *)
(* each expired key (write_worker.py, process).                            *)
THEOREM RepetitionIsPaidFor == Spec => []RepetitionPaidFor
<1>1. TypeOK /\ TypeOK' /\ WriteLedger /\ ReplyLedger /\ [Next]_vars => WriteLedger' /\ ReplyLedger'
  <2>. SUFFICES ASSUME TypeOK, TypeOK', WriteLedger, ReplyLedger, [Next]_vars
                PROVE  WriteLedger' /\ ReplyLedger'
    OBVIOUS
  <2>1. WriteLedger'
    BY StepWriteLedger DEF WriteLedger
  <2>2. ReplyLedger'
    BY StepReplyLedger DEF ReplyLedger
  <2>. QED BY <2>1, <2>2
<1>2. TypeOK /\ WriteLedger /\ ReplyLedger => RepetitionPaidFor
  <2>. SUFFICES ASSUME TypeOK, WriteLedger, ReplyLedger, NEW t \in Task
                PROVE  /\ written[t] <= 1 + spent["fault"] + spent["expiry"]
                       /\ Replies(t) <= 1 + spent["fault"] + spent["expiry"]
    BY DEF RepetitionPaidFor
  <2>1. /\ written[t] \in Nat /\ Replies(t) \in Nat /\ Unlocked(t) \in 0 .. 1
        /\ spent["fault"] \in Nat /\ spent["expiry"] \in Nat
    <3>1. published[t] \in [Kind -> Nat] /\ written[t] \in Nat
      BY DEF TypeOK
    <3>2. spent \in [Trouble -> Nat]
      BY DEF TypeOK
    <3>. QED BY <3>1, <3>2 DEF Replies, Kind, Unlocked
  <2>2. Cardinality(Writing(t)) \in Nat /\ Cardinality(Owing(t)) \in Nat
    BY Crews
  <2>3. /\ written[t] + Cardinality(Writing(t)) + Unlocked(t) <= 1 + Renewals
        /\ Replies(t) + Cardinality(Owing(t)) + Unlocked(t) <= 1 + Renewals
    BY DEF WriteLedger, ReplyLedger
  <2>. QED BY <2>1, <2>2, <2>3 DEF Renewals
<1>. QED BY TypeCorrect, InitLedgers, <1>1, <1>2, PTL DEF Spec

-----------------------------------------------------------------------------
(* Without a renewal a key is only ever set by the worker that goes on to  *)
(* work, and never unset.                                                  *)
LEMMA StepKeyed ==
  ASSUME TypeOK, TypeOK', Keyed, WorkIsExclusive, [Next]_vars, Renewals' = 0
  PROVE  /\ \A w \in Worker : pc'[w] \in Working => held'[w] \in keys'
         /\ \A v, w \in Worker :
              {pc'[v], pc'[w]} \subseteq Working /\ held'[v] = held'[w] => v = w
<1>. DEFINE Safe == /\ \A w \in Worker : pc'[w] \in Working => held'[w] \in keys'
                    /\ \A v, w \in Worker :
                         {pc'[v], pc'[w]} \subseteq Working /\ held'[v] = held'[w] => v = w
<1>1. Renewals = 0
  <2>1. spent["fault"] \in Nat /\ spent["expiry"] \in Nat /\ Renewals <= Renewals'
    BY StepSpent DEF Renewals
  <2>. QED BY <2>1 DEF Renewals
<1>2. ~Spent("fault") /\ ~Spent("expiry")
  BY <1>1, Renewed
<1>3. /\ \A w \in Worker : pc[w] \in Working => held[w] \in keys
      /\ \A v, w \in Worker : {pc[v], pc[w]} \subseteq Working /\ held[v] = held[w] => v = w
  BY <1>1 DEF Keyed, WorkIsExclusive, Renewals
<1>4. ASSUME NEW w \in Worker, Others(w), keys' = keys,
             pc'[w] \in Working => pc[w] \in Working /\ held'[w] = held[w]
      PROVE  Safe
  BY <1>3, <1>4 DEF Others
<1>5. ASSUME NEW w \in Worker, Lock(w)
      PROVE  Safe
  <2>1. CASE Keeps(w, {"skip"}) /\ keys' = keys
    BY <1>4, <1>5, <2>1, LockMove DEF Keeps, Working
  <2>2. CASE Keeps(w, {"write"}) /\ held[w] \notin keys /\ keys' = keys \cup {held[w]}
    BY <1>3, <1>5, <2>2, LockMove DEF Keeps, Others
  <2>. QED BY <1>2, <1>5, <2>1, <2>2, LockMove
<1>6. ASSUME NEW w \in Worker, Write(w) \/ Publish(w) \/ Report(w)
      PROVE  Safe
  <2>1. /\ pc[w] \in Working /\ Others(w) /\ keys' = keys
        /\ held'[w] = held[w] \/ Drops(w, "down")
    BY <1>6, WriteMove, PublishMove, ReportMove DEF Keeps, Working
  <2>. QED BY <1>4, <2>1 DEF Drops, Working
<1>7. ASSUME NEW w \in Worker,
             Start(w) \/ LoopHead(w) \/ ReadNew(w) \/ Admit(w) \/ Skip(w) \/ Ack(w) \/ Kill(w)
      PROVE  Safe
  <2>1. Others(w) /\ keys' = keys /\ pc'[w] \notin Working
    BY <1>7, LoopMove, ReadMove, AdmitMove, AckMove, KillMove DEF Keeps, Drops, Working
  <2>. QED BY <1>4, <2>1
<1>8. ASSUME \/ \E w \in Worker : Signal(w) \/ Resume(w)
             \/ \E k \in Task : Expire(k)
             \/ Submit \/ GroupReset \/ UNCHANGED vars
      PROVE  Safe
  BY <1>2, <1>3, <1>8, OutsideMove
<1>. QED BY <1>5, <1>6, <1>7, <1>8 DEF Next, Step

(* However often the group is set back, two workers never work on one      *)
(* entry at once, as long as no key expired and no call raised             *)
(* (write_worker.py, process: SET NX before the work).                     *)
THEOREM WorkersExclude == Spec => []WorkIsExclusive
<1>1. Init => Keyed /\ WorkIsExclusive
  BY DEF Init, Keyed, WorkIsExclusive, Working
<1>2. TypeOK /\ TypeOK' /\ Keyed /\ WorkIsExclusive /\ [Next]_vars => Keyed' /\ WorkIsExclusive'
  BY StepKeyed DEF Keyed, WorkIsExclusive, Renewals
<1>. QED BY TypeCorrect, <1>1, <1>2, PTL DEF Spec

-----------------------------------------------------------------------------
(* What was published stays so.                                            *)
LEMMA AnsweredStays ==
  ASSUME TypeOK, [Next]_vars, NEW t \in Task, Answered(t)
  PROVE  Answered(t)'
<1>1. published \in [Task -> [Kind -> Nat]] /\ published[t] \in [Kind -> Nat]
  BY DEF TypeOK
<1>2. PICK k \in Kind : published[t][k] > 0
  BY DEF Answered
<1>3. ASSUME NEW h, NEW j, Posted(h, j)
      PROVE  published'[t][k] > 0
  BY <1>1, <1>2, <1>3 DEF Posted
<1>4. ASSUME NEW w \in Worker, Step(w) \/ Start(w) \/ Kill(w)
      PROVE  published' = published \/ \E j \in Kind : Posted(held[w], j)
  BY <1>4, LoopMove, ReadMove, AdmitMove, LockMove, AckMove, WriteMove, PublishMove, ReportMove, KillMove
     DEF Step, work, Kind
<1>5. ASSUME \/ \E w \in Worker : Signal(w) \/ Resume(w)
             \/ \E h \in Task : Expire(h)
             \/ Submit \/ GroupReset \/ UNCHANGED vars
      PROVE  published' = published
  BY <1>5, OutsideMove DEF work
<1>6. published'[t][k] > 0
  BY <1>2, <1>3, <1>4, <1>5 DEF Next
<1>. QED BY <1>6 DEF Answered

LEMMA PostedAnswers ==
  ASSUME TypeOK, NEW t \in Task, NEW k \in Kind, Posted(t, k)
  PROVE  Answered(t)'
<1>1. published[t] \in [Kind -> Nat] /\ published[t][k] \in Nat
  BY DEF TypeOK
<1>2. published'[t][k] = published[t][k] + 1
  BY <1>1 DEF Posted, TypeOK
<1>. QED BY <1>1, <1>2 DEF Answered

LEMMA ExcusedStays ==
  ASSUME TypeOK, [Next]_vars, NEW t \in Task, Excused(t)
  PROVE  Excused(t)'
BY AnsweredStays, StepSpent DEF Excused

LEMMA StepExcuses ==
  ASSUME TypeOK, TypeOK', Excuses, [Next]_vars
  PROVE  \A v \in Worker : \A t \in Task : pc'[v] = "ack" /\ held'[v] = t => Excused(t)'
<1>. SUFFICES ASSUME NEW v \in Worker, NEW t \in Task, pc'[v] = "ack", held'[v] = t
              PROVE  Excused(t)'
  OBVIOUS
<1>1. ASSUME pc[v] = "ack", held[v] = t
      PROVE  Excused(t)'
  BY <1>1, ExcusedStays DEF Excuses
<1>2. ASSUME NEW w \in Worker, Others(w), w # v
      PROVE  Excused(t)'
  BY <1>1, <1>2 DEF Others
<1>3. CASE Publish(v)
  BY <1>3, PublishMove, PostedAnswers DEF Keeps, Excused, Kind
<1>4. CASE Report(v)
  <2>1. held[v] = t
    BY <1>4, ReportMove DEF Keeps, Drops
  <2>2. CASE Posted(t, "dead") \/ Posted(t, "error")
    BY <2>2, PostedAnswers DEF Excused, Kind
  <2>3. CASE Spent("fault") /\ t \in LastTry /\ DlqEnabled
    <3>1. spent["fault"] \in Nat
      BY StepSpent
    <3>. QED BY <2>3, <3>1 DEF Spent, Excused
  <2>. QED BY <1>4, <2>1, <2>2, <2>3, ReportMove DEF Drops
<1>5. ASSUME NEW w \in Worker, Step(w) \/ Start(w) \/ Kill(w)
      PROVE  /\ Others(w)
             /\ pc'[w] # "ack" \/ Publish(w) \/ Report(w)
  BY <1>5, LoopMove, ReadMove, AdmitMove, LockMove, AckMove, WriteMove, PublishMove, ReportMove, KillMove
     DEF Step, Keeps, Drops
<1>6. ASSUME \/ \E w \in Worker : Signal(w) \/ Resume(w)
             \/ \E h \in Task : Expire(h)
             \/ Submit \/ GroupReset \/ UNCHANGED vars
      PROVE  pc' = pc /\ held' = held
  BY <1>6, OutsideMove
<1>. QED BY <1>1, <1>2, <1>3, <1>4, <1>5, <1>6 DEF Next

(* What a worker has begun it answers, or it dies of trouble.              *)
LEMMA BegunStays ==
  ASSUME TypeOK, TypeOK', Told, Excuses, [Next]_vars, NEW t \in Task, Begun(t)
  PROVE  Begun(t)'
<1>. DEFINE Hurt == spent["fault"] + spent["crash"] + spent["stop"] > 0
<1>1. ASSUME Hurt \/ Spent("fault") \/ Spent("crash") \/ Spent("stop")
      PROVE  Begun(t)'
  <2>1. \A k \in Trouble : spent[k] \in Nat /\ spent'[k] \in Nat /\ spent[k] <= spent'[k]
    BY StepSpent
  <2>2. spent'["fault"] + spent'["crash"] + spent'["stop"] > 0
    BY <1>1, <2>1 DEF Spent
  <2>. QED BY <2>2 DEF Begun
<1>2. CASE Answered(t)
  BY <1>2, AnsweredStays DEF Begun
<1>3. ASSUME NEW v \in Worker, pc[v] \in Working, held[v] = t
      PROVE  Begun(t)'
  <2>1. ASSUME pc'[v] \in Working, held'[v] = held[v]
        PROVE  Begun(t)'
    BY <1>3, <2>1 DEF Begun
  <2>2. CASE Write(v) \/ Publish(v)
    BY <2>1, <2>2, WriteMove, PublishMove DEF Keeps, Working
  <2>3. CASE Report(v)
    BY <1>1, <2>1, <2>3, ReportMove DEF Keeps, Working
  <2>4. CASE Ack(v) \/ Skip(v)
    <3>1. pc[v] = "ack"
      BY <1>3, <2>4, AckMove DEF Working
    <3>2. Answered(t) \/ Hurt
      <4>1. Excused(t) /\ \A k \in Trouble : spent[k] \in Nat
        BY <1>3, <3>1, StepSpent DEF Excuses
      <4>. QED BY <4>1 DEF Excused
    <3>. QED BY <1>1, <1>2, <3>2
  <2>5. CASE Kill(v)
    <3>1. Spent("crash") \/ spent["stop"] > 0
      BY <2>5, KillMove DEF Told
    <3>2. Spent("crash") \/ Hurt
      <4>1. \A k \in Trouble : spent[k] \in Nat
        BY StepSpent
      <4>. QED BY <3>1, <4>1
    <3>. QED BY <1>1, <3>2
  <2>6. CASE Start(v) \/ LoopHead(v) \/ ReadNew(v) \/ Admit(v) \/ Lock(v)
    BY <1>3, <2>6 DEF Start, LoopHead, ReadNew, Admit, Lock, Working
  <2>7. ASSUME NEW w \in Worker, Step(w) \/ Start(w) \/ Kill(w), w # v
        PROVE  Begun(t)'
    <3>1. Others(w)
      BY <2>7, LoopMove, ReadMove, AdmitMove, LockMove, AckMove, WriteMove, PublishMove, ReportMove, KillMove
         DEF Step
    <3>. QED BY <1>3, <2>1, <2>7, <3>1 DEF Others
  <2>8. ASSUME \/ \E w \in Worker : Signal(w) \/ Resume(w)
               \/ \E h \in Task : Expire(h)
               \/ Submit \/ GroupReset \/ UNCHANGED vars
        PROVE  Begun(t)'
    BY <1>3, <2>1, <2>8, OutsideMove
  <2>. QED BY <2>2, <2>3, <2>4, <2>5, <2>6, <2>7, <2>8 DEF Next, Step
<1>. QED BY <1>1, <1>2, <1>3 DEF Begun

LEMMA StepTold ==
  ASSUME TypeOK, TypeOK', Told, [Next]_vars
  PROVE  Told'
<1>. SUFFICES ASSUME NEW v \in Worker, waiting'[v] \/ stopping'[v]
              PROVE  spent'["stop"] > 0
  BY DEF Told
<1>1. /\ spent["stop"] \in Nat /\ spent'["stop"] \in Nat /\ spent["stop"] <= spent'["stop"]
      /\ Spent("stop") => spent'["stop"] > 0
  BY StepSpent DEF Spent
<1>2. CASE waiting[v] \/ stopping[v]
  BY <1>1, <1>2 DEF Told
<1>3. ASSUME NEW w \in Worker, Signal(w)
      PROVE  spent'["stop"] > 0
  BY <1>1, <1>3, SpendSpent DEF Signal
<1>4. ASSUME NEW w \in Worker, Step(w)
      PROVE  UNCHANGED control
  BY <1>4 DEF Step, LoopHead, ReadNew, Admit, Lock, Skip, Write, Publish, Report, Ack
<1>5. ASSUME NEW w \in Worker, Start(w) \/ Resume(w) \/ Kill(w)
      PROVE  waiting[v] \/ stopping[v]
  BY <1>5 DEF Start, Resume, Kill, TypeOK
<1>6. ASSUME \/ \E h \in Task : Expire(h)
             \/ Submit \/ GroupReset \/ UNCHANGED vars
      PROVE  UNCHANGED control
  BY <1>6 DEF Expire, Submit, GroupReset, vars
<1>. QED BY <1>2, <1>3, <1>4, <1>5, <1>6 DEF Next, control

(* A worker that was refused because of the key, an acknowledged entry and *)
(* a key all mean that somebody began.                                     *)
LEMMA StepBeginnings ==
  ASSUME TypeOK, TypeOK', Told, Excuses, Beginnings, [Next]_vars
  PROVE  Beginnings'
<1>1. \A t \in keys \cup acked : Begun(t)'
  BY BegunStays DEF Beginnings, TypeOK
<1>2. ASSUME NEW t \in keys' \cup acked'
      PROVE  Begun(t)'
  <2>1. ASSUME NEW w \in Worker, Lock(w), held[w] = t
        PROVE  Begun(t)'
    <3>1. CASE pc'[w] = "write"
      BY <2>1, <3>1, LockMove DEF Keeps, Begun, Working
    <3>2. CASE pc'[w] # "write"
      BY <1>1, <2>1, <3>2, LockMove DEF Keeps
    <3>. QED BY <3>1, <3>2
  <2>2. ASSUME NEW w \in Worker, Ack(w) \/ Skip(w), held[w] = t
        PROVE  Begun(t)'
    <3>1. t \in Task /\ pc[w] \in {"ack", "skip"}
      BY <2>2, AckMove DEF TypeOK, Busy, Working
    <3>2. Begun(t)
      BY <2>2, <3>1 DEF Beginnings, Begun, Working
    <3>. QED BY <3>1, <3>2, BegunStays
  <2>3. ASSUME NEW w \in Worker, Step(w) \/ Start(w) \/ Kill(w)
        PROVE  \/ t \in keys \cup acked
               \/ held[w] = t /\ (Lock(w) \/ Ack(w) \/ Skip(w))
    BY <2>3, LoopMove, ReadMove, AdmitMove, LockMove, AckMove, WriteMove, PublishMove, ReportMove, KillMove
       DEF Step, stream
  <2>4. ASSUME \/ \E w \in Worker : Signal(w) \/ Resume(w)
               \/ \E h \in Task : Expire(h)
               \/ Submit \/ GroupReset \/ UNCHANGED vars
        PROVE  t \in keys \cup acked
    BY <2>4, OutsideMove
  <2>. QED BY <1>1, <2>1, <2>2, <2>3, <2>4 DEF Next
<1>3. ASSUME NEW v \in Worker, NEW t \in Task, pc'[v] = "skip", held'[v] = t
      PROVE  Begun(t)'
  <2>1. CASE pc[v] = "skip" /\ held[v] = t
    BY <2>1, BegunStays DEF Beginnings
  <2>2. ASSUME NEW w \in Worker, Step(w) \/ Start(w) \/ Kill(w)
        PROVE  \/ pc[v] = "skip" /\ held[v] = t
               \/ t \in keys
    BY <1>3, <2>2, LoopMove, ReadMove, AdmitMove, LockMove, AckMove, WriteMove, PublishMove, ReportMove, KillMove
       DEF Step, Others, Keeps, Drops
  <2>3. ASSUME \/ \E w \in Worker : Signal(w) \/ Resume(w)
               \/ \E h \in Task : Expire(h)
               \/ Submit \/ GroupReset \/ UNCHANGED vars
        PROVE  pc[v] = "skip" /\ held[v] = t
    BY <1>3, <2>3, OutsideMove
  <2>. QED BY <1>1, <2>1, <2>2, <2>3 DEF Next
<1>4. \A w \in Worker : pc'[w] = "skip" => held'[w] \in Task
  BY DEF TypeOK, Busy
<1>. QED BY <1>2, <1>3, <1>4 DEF Beginnings, Begun, Answered

LEMMA StepOnce ==
  ASSUME TypeOK, TypeOK', Once, [Next]_vars
  PROVE  Once'
<1>. SUFFICES ASSUME spent'["rewind"] = 0
              PROVE  /\ \A t \in keys' : t <= cursor'
                     /\ \A w \in Worker : held'[w] <= cursor' /\ pc'[w] # "skip"
                     /\ \A w \in Worker : pc'[w] \in {"taken", "lock"} => held'[w] \notin keys'
                     /\ \A v, w \in Worker : held'[v] = held'[w] /\ held'[v] # NoTask => v = w
  BY DEF Once
<1>. DEFINE Goal == /\ \A t \in keys' : t <= cursor'
                    /\ \A w \in Worker : held'[w] <= cursor' /\ pc'[w] # "skip"
                    /\ \A w \in Worker : pc'[w] \in {"taken", "lock"} => held'[w] \notin keys'
                    /\ \A v, w \in Worker : held'[v] = held'[w] /\ held'[v] # NoTask => v = w
<1>1. spent["rewind"] = 0 /\ ~Spent("rewind")
  <2>1. spent["rewind"] \in Nat /\ spent["rewind"] <= spent'["rewind"]
    BY StepSpent
  <2>. QED BY <2>1 DEF Spent
<1>2. /\ \A t \in keys : t <= cursor
      /\ \A w \in Worker : held[w] <= cursor /\ pc[w] # "skip"
      /\ \A w \in Worker : pc[w] \in {"taken", "lock"} => held[w] \notin keys
      /\ \A v, w \in Worker : held[v] = held[w] /\ held[v] # NoTask => v = w
  BY <1>1 DEF Once
<1>3. /\ tail \in Nat /\ cursor \in 0 .. tail /\ cursor' \in Nat
      /\ keys \subseteq Task /\ keys' \subseteq Task
      /\ \A w \in Worker : held[w] \in Nat /\ held'[w] \in Nat
  <2>1. tail \in 0 .. NumTasks /\ cursor \in 0 .. tail /\ tail' \in 0 .. NumTasks /\ cursor' \in 0 .. tail'
    BY DEF TypeOK
  <2>2. held \in [Worker -> Task \cup {NoTask}] /\ held' \in [Worker -> Task \cup {NoTask}]
    BY DEF TypeOK
  <2>3. keys \subseteq Task /\ keys' \subseteq Task
    BY DEF TypeOK
  <2>. QED BY <2>1, <2>2, <2>3
<1>4. ASSUME NEW w \in Worker, Others(w), keys' = keys, cursor <= cursor',
             \/ held'[w] = NoTask /\ pc'[w] \in {"down", "head", "read"}
             \/ held'[w] = held[w] /\ pc'[w] \in Working
             \/ held'[w] = held[w] /\ pc[w] = "taken" /\ pc'[w] = "lock"
      PROVE  Goal
  <2>1. \A v \in Worker : held'[v] <= cursor' /\ pc'[v] # "skip"
    BY <1>2, <1>3, <1>4 DEF Others, Working
  <2>2. \A v \in Worker : pc'[v] \in {"taken", "lock"} => held'[v] \notin keys'
    BY <1>2, <1>4 DEF Others, Working
  <2>3. \A t \in keys' : t <= cursor'
    BY <1>2, <1>3, <1>4
  <2>4. \A u, v \in Worker : held'[u] = held'[v] /\ held'[u] # NoTask => u = v
    BY <1>2, <1>4 DEF Others
  <2>. QED BY <2>1, <2>2, <2>3, <2>4
<1>5. ASSUME NEW w \in Worker, ReadNew(w)
      PROVE  Goal
  <2>1. CASE Drops(w, "head") \/ Drops(w, "down")
    BY <1>3, <1>4, <1>5, <2>1, ReadMove DEF Drops
  <2>2. CASE pc'[w] = "taken" /\ held'[w] = cursor + 1 /\ cursor' = cursor + 1
    <3>1. Others(w) /\ keys' = keys
      BY <1>5, ReadMove
    <3>2. \A t \in keys' : t <= cursor' /\ t # cursor + 1
      BY <1>2, <1>3, <2>2, <3>1
    <3>3. \A v \in Worker : /\ held'[v] <= cursor' /\ pc'[v] # "skip"
                            /\ v # w => held'[v] # cursor + 1
      BY <1>2, <1>3, <2>2, <3>1 DEF Others
    <3>4. \A v \in Worker : pc'[v] \in {"taken", "lock"} => held'[v] \notin keys'
      BY <1>2, <2>2, <3>1, <3>2 DEF Others
    <3>5. \A u, v \in Worker : held'[u] = held'[v] /\ held'[u] # NoTask => u = v
      BY <1>2, <2>2, <3>1, <3>3 DEF Others
    <3>. QED BY <3>2, <3>3, <3>4, <3>5
  <2>. QED BY <1>5, <2>1, <2>2, ReadMove
<1>6. ASSUME NEW w \in Worker, Lock(w)
      PROVE  Goal
  <2>1. /\ pc[w] = "lock" /\ held[w] \notin keys /\ held[w] # NoTask
        /\ Others(w) /\ cursor' = cursor /\ held'[w] = held[w]
    BY <1>2, <1>6, LockMove DEF stream, Keeps, TypeOK, Busy
  <2>2. pc'[w] = "write" /\ keys' \subseteq keys \cup {held[w]}
    BY <1>6, <2>1, LockMove DEF Keeps
  <2>3. \A v \in Worker : held'[v] = held[v] /\ (v # w => pc'[v] = pc[v] /\ held[v] # held[w])
    BY <1>2, <2>1 DEF Others
  <2>. QED BY <1>2, <2>1, <2>2, <2>3
<1>7. ASSUME NEW w \in Worker, Write(w) \/ Publish(w) \/ Report(w) \/ Admit(w)
      PROVE  Goal
  <2>1. Others(w) /\ keys' = keys /\ cursor' = cursor
    BY <1>7, WriteMove, PublishMove, ReportMove, AdmitMove DEF stream
  <2>2. \/ held'[w] = NoTask /\ pc'[w] \in {"down", "head", "read"}
        \/ held'[w] = held[w] /\ pc'[w] \in Working
        \/ held'[w] = held[w] /\ pc[w] = "taken" /\ pc'[w] = "lock"
    BY <1>7, WriteMove, PublishMove, ReportMove, AdmitMove DEF Keeps, Drops, Working
  <2>. QED BY <1>3, <1>4, <2>1, <2>2
<1>8. ASSUME NEW w \in Worker, Start(w) \/ LoopHead(w) \/ Ack(w) \/ Skip(w) \/ Kill(w)
      PROVE  Goal
  <2>1. Others(w) /\ keys' = keys /\ cursor' \in {cursor, tail}
    BY <1>8, LoopMove, AckMove, KillMove DEF stream
  <2>2. held'[w] = NoTask /\ pc'[w] \in {"down", "head", "read"}
    BY <1>8, LoopMove, AckMove, KillMove DEF Drops
  <2>. QED BY <1>3, <1>4, <2>1, <2>2
<1>9. ASSUME \/ \E w \in Worker : Signal(w) \/ Resume(w)
             \/ \E h \in Task : Expire(h)
             \/ Submit \/ GroupReset \/ UNCHANGED vars
      PROVE  Goal
  BY <1>1, <1>2, <1>9, OutsideMove
<1>. QED BY <1>5, <1>6, <1>7, <1>8, <1>9 DEF Next, Step

LEMMA StepAckedExcused ==
  ASSUME TypeOK, TypeOK', Once, Excuses, [Next]_vars, NEW t \in acked'
  PROVE  Excused(t)' \/ spent'["rewind"] > 0
<1>1. /\ spent["rewind"] \in Nat /\ spent'["rewind"] \in Nat
      /\ spent["rewind"] <= spent'["rewind"]
  BY StepSpent
<1>2. CASE t \in acked
  <2>1. t \in Task /\ (Excused(t) \/ spent["rewind"] > 0)
    BY <1>2 DEF Excuses, TypeOK
  <2>. QED BY <1>1, <2>1, ExcusedStays
<1>3. ASSUME NEW w \in Worker, Ack(w) \/ Skip(w), held[w] = t
      PROVE  Excused(t)' \/ spent'["rewind"] > 0
  <2>1. t \in Task /\ pc[w] \in {"ack", "skip"}
    BY <1>3, AckMove DEF TypeOK, Busy, Working
  <2>2. CASE pc[w] = "ack"
    BY <1>3, <2>1, <2>2, ExcusedStays DEF Excuses
  <2>3. CASE pc[w] = "skip"
    BY <1>1, <2>3 DEF Once
  <2>. QED BY <2>1, <2>2, <2>3
<1>4. ASSUME NEW w \in Worker, Step(w) \/ Start(w) \/ Kill(w)
      PROVE  t \in acked \/ (held[w] = t /\ (Ack(w) \/ Skip(w)))
  <2>1. CASE Ack(w) \/ Skip(w)
    BY <2>1, AckMove
  <2>2. CASE Start(w) \/ LoopHead(w) \/ ReadNew(w)
    BY <2>2, LoopMove, ReadMove
  <2>3. CASE Admit(w) \/ Lock(w) \/ Write(w) \/ Publish(w) \/ Report(w) \/ Kill(w)
    BY <2>3, AdmitMove, LockMove, WriteMove, PublishMove, ReportMove, KillMove DEF stream
  <2>. QED BY <1>4, <2>1, <2>2, <2>3 DEF Step
<1>5. ASSUME \/ \E w \in Worker : Signal(w) \/ Resume(w)
             \/ \E h \in Task : Expire(h)
             \/ Submit \/ GroupReset \/ UNCHANGED vars
      PROVE  t \in acked
  BY <1>5, OutsideMove
<1>. QED BY <1>2, <1>3, <1>4, <1>5 DEF Next

Kept == Told /\ Once /\ Excuses /\ Beginnings

LEMMA StepKept ==
  ASSUME TypeOK, TypeOK', Kept, [Next]_vars
  PROVE  Kept'
<1>. USE DEF Kept
<1>1. Told' /\ Once' /\ Beginnings'
  BY StepTold, StepOnce, StepBeginnings
<1>2. \A w \in Worker : pc'[w] = "ack" => held'[w] \in Task
  BY DEF TypeOK, Busy, Working
<1>3. Excuses'
  BY <1>2, StepExcuses, StepAckedExcused DEF Excuses, Excused, Answered
<1>. QED BY <1>1, <1>3

LEMMA KeptHolds == Spec => []Kept
<1>1. Init => Kept
  BY DEF Init, Kept, Told, Once, Excuses, Beginnings
<1>2. TypeOK /\ TypeOK' /\ Kept /\ [Next]_vars => Kept'
  BY StepKept
<1>. QED BY TypeCorrect, <1>1, <1>2, PTL DEF Spec

(* No entry is acknowledged without an answer, except where a raised call  *)
(* swallowed its dead letter, or after a replay that met the key of a      *)
(* worker that is still at it or died (write_worker.py, process).          *)
THEOREM AnsweredWhenAcked == Spec => []AckedIsAnswered
<1>1. ASSUME TypeOK, Kept, NEW t \in acked
      PROVE  \/ Answered(t)
             \/ t \in LastTry /\ DlqEnabled /\ spent["fault"] > 0
             \/ /\ spent["rewind"] > 0
                /\ InHand(t) \/ spent["fault"] + spent["crash"] + spent["stop"] > 0
  <2>1. Begun(t) /\ (Excused(t) \/ spent["rewind"] > 0)
    BY <1>1 DEF Kept, Beginnings, Excuses
  <2>. QED BY <2>1 DEF Begun, Excused, InHand
<1>2. TypeOK /\ Kept => AckedIsAnswered
  BY <1>1 DEF AckedIsAnswered
<1>. QED BY TypeCorrect, KeptHolds, <1>2, PTL

-----------------------------------------------------------------------------
(* A worker lets go of a pending entry by acknowledging it, or over        *)
(* trouble, or because it does not parse.                                  *)
LEMMA StepStranded ==
  ASSUME TypeOK, TypeOK', Told, StrandedPaidFor, [Next]_vars, NEW t \in pending', t \notin Malformed
  PROVE  \/ \E v \in Worker : held'[v] = t
         \/ spent'["fault"] + spent'["crash"] + spent'["stop"] + spent'["throttle"] > 0
<1>. DEFINE Hurt == spent["fault"] + spent["crash"] + spent["stop"] + spent["throttle"] > 0
            Hurt1 == spent'["fault"] + spent'["crash"] + spent'["stop"] + spent'["throttle"] > 0
<1>1. \A k \in Trouble : spent[k] \in Nat /\ spent'[k] \in Nat /\ spent[k] <= spent'[k]
  BY StepSpent
<1>2. Hurt => Hurt1
  BY <1>1
<1>3. \A k \in {"fault", "crash", "stop", "throttle"} : Spent(k) => Hurt1
  BY <1>1 DEF Spent
<1>4. ASSUME NEW w \in Worker, waiting[w] \/ stopping[w]
      PROVE  Hurt1
  BY <1>1, <1>2, <1>4 DEF Told
<1>. HIDE DEF Hurt, Hurt1
<1>5. ASSUME t \in pending,
             \A v \in Worker : held[v] = t => held'[v] = t \/ Hurt1 \/ t \in Malformed
      PROVE  (\E v \in Worker : held'[v] = t) \/ Hurt1
  BY <1>2, <1>5 DEF StrandedPaidFor, InHand, Hurt
<1>6. ASSUME NEW w \in Worker, ReadNew(w)
      PROVE  (\E v \in Worker : held'[v] = t) \/ Hurt1
  <2>1. held[w] = NoTask /\ Others(w)
    BY <1>6, ReadMove DEF TypeOK, Busy, Working
  <2>2. CASE t \in pending /\ t # NoTask
    BY <1>5, <2>1, <2>2 DEF Others
  <2>3. t # NoTask
    BY DEF TypeOK
  <2>4. t \in pending \/ held'[w] = t \/ Spent("fault")
    BY <1>6, ReadMove
  <2>. QED BY <1>3, <2>2, <2>3, <2>4
<1>7. ASSUME NEW w \in Worker, Admit(w)
      PROVE  (\E v \in Worker : held'[v] = t) \/ Hurt1
  <2>1. t \in pending /\ Others(w)
    BY <1>7, AdmitMove DEF stream
  <2>2. held'[w] = held[w] \/ Hurt1 \/ held[w] \in Malformed
    BY <1>3, <1>4, <1>7, AdmitMove DEF Keeps
  <2>. QED BY <1>5, <2>1, <2>2 DEF Others
<1>8. ASSUME NEW w \in Worker, Ack(w) \/ Skip(w)
      PROVE  (\E v \in Worker : held'[v] = t) \/ Hurt1
  <2>1. Others(w) /\ (Hurt1 \/ t \in pending \ {held[w]})
    BY <1>3, <1>8, AckMove
  <2>. QED BY <1>5, <2>1 DEF Others
<1>9. ASSUME NEW w \in Worker,
             Start(w) \/ LoopHead(w) \/ Lock(w) \/ Write(w) \/ Publish(w) \/ Report(w) \/ Kill(w)
      PROVE  (\E v \in Worker : held'[v] = t) \/ Hurt1
  <2>1. t \in pending /\ Others(w)
    BY <1>9, LoopMove, LockMove, WriteMove, PublishMove, ReportMove, KillMove DEF stream
  <2>2. held'[w] = held[w] \/ Hurt1
    BY <1>3, <1>4, <1>9, LoopMove, LockMove, WriteMove, PublishMove, ReportMove, KillMove DEF Keeps, Drops
  <2>. QED BY <1>5, <2>1, <2>2 DEF Others
<1>10. ASSUME \/ \E w \in Worker : Signal(w) \/ Resume(w)
              \/ \E h \in Task : Expire(h)
              \/ Submit \/ GroupReset \/ UNCHANGED vars
       PROVE  (\E v \in Worker : held'[v] = t) \/ Hurt1
  BY <1>5, <1>10, OutsideMove
<1>. QED BY <1>6, <1>7, <1>8, <1>9, <1>10 DEF Next, Step, Hurt1

(* An entry stays pending without a worker only over trouble: the worker   *)
(* reads undelivered entries and nothing else (write_worker.py, start).    *)
THEOREM StrandingIsPaidFor == Spec => []StrandedPaidFor
<1>1. Init => StrandedPaidFor
  BY DEF Init, StrandedPaidFor
<1>2. TypeOK /\ TypeOK' /\ Kept /\ StrandedPaidFor /\ [Next]_vars => StrandedPaidFor'
  BY StepStranded DEF Kept, StrandedPaidFor, InHand
<1>. QED BY TypeCorrect, KeptHolds, <1>1, <1>2, PTL DEF Spec
=============================================================================
