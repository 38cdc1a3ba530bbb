------------------------- MODULE AgentConsumerProofs -------------------------
(***************************************************************************)
(* Theorems about AgentConsumer for any set of workers, any number of      *)
(* entries, any retry limit of at least two and any number of raised calls *)
(* and crashes.                                                            *)
(*                                                                         *)
(* The inductive invariants are layered.  Own = types, Ownership and       *)
(* ExclusiveHold ties what a worker holds to the pending entries list;     *)
(* Backed adds Evidence, what must already be published where process_task *)
(* and _handle_failure acknowledge; Patient adds Retried, which carries    *)
(* the delivery count to the dead letter; Settling adds Budget, the bound  *)
(* on duplicates, one lower for an entry that is still to be answered.     *)
(***************************************************************************)
EXTENDS AgentConsumer, TLAPS

(* What each variable may hold.                                            *)
Types ==
  /\ tail \in 0 .. NumTasks
  /\ cursor \in 0 .. tail
  /\ owner \in [Task -> (Worker \X Nat) \cup {NoOne}]
  /\ count \in [Task -> 0 .. MaxRetries]
  /\ published \in [Task -> [Kind -> Nat]]
  /\ pc \in [Worker -> Location]
  /\ held \in [Worker -> Task \cup {NoTask}]
  /\ life \in [Worker -> Nat]
  /\ faults \in 0 .. MaxFaults
  /\ crashes \in 0 .. MaxCrashes

(* A worker holds an entry exactly while it is in process_task, the entry  *)
(* was delivered, and it is pending under the worker's own name, except    *)
(* that a torn XACK may have removed it just before _handle_failure.       *)
Holding(w) ==
  /\ pc[w] \in Busy <=> held[w] # NoTask
  /\ held[w] # NoTask =>
       /\ held[w] <= cursor
       /\ owner[held[w]] = Name(w) \/ (owner[held[w]] = NoOne /\ pc[w] = "failed")

(* Nothing is pending or published of an entry that was never delivered.   *)
Undelivered(t) == t > cursor => owner[t] = NoOne /\ \A k \in Kind : published[t][k] = 0

Ownership ==
  /\ \A w \in Worker : Holding(w)
  /\ \A t \in Task : Undelivered(t)

(* An acknowledgement is only ever reached with something published.       *)
Evident(w) ==
  /\ pc[w] = "ack" => Replies(held[w]) > 0
  /\ pc[w] \in {"reportError", "ackDead"} => published[held[w]]["dead"] > 0

Evidence == \A w \in Worker : Evident(w)

(* The dead-letter step is only reached past the retry limit.              *)
Retried == \A w \in Worker : pc[w] = "deadLetter" => count[held[w]] >= MaxRetries

(* While t is pending and its worker is not past the reply (the dead       *)
(* letter), each reply (each dead letter) it has was paid for.             *)
At(t, locations) == \E w \in Worker : held[w] = t /\ pc[w] \in locations

Paid(t) ==
  /\ Replies(t) <= 1 + Incidents
  /\ published[t]["dead"] <= 1 + Incidents
  /\ owner[t] # NoOne /\ ~At(t, {"ack", "ackDead"}) => Replies(t) <= Incidents
  /\ owner[t] # NoOne /\ ~At(t, {"reportError", "ackDead"})
       => published[t]["dead"] <= Incidents

Budget == \A t \in Task : Paid(t)

-----------------------------------------------------------------------------
USE ConsumerAssumption DEF Task, NoTask

(* The names of the locations, as facts rather than as enumerated sets.    *)
LEMMA Locations ==
  /\ \A l \in Busy : l \in Location
  /\ {"down", "idle", "history"} \subseteq Location
  /\ {"down", "idle", "history"} \cap Busy = {}
  /\ {"run", "publishResult", "publishError", "ack", "failed",
      "deadLetter", "reportError", "ackDead"} \subseteq Busy
  BY DEF Location, Busy

(* What each helper of an action leaves well typed.                        *)
LEMMA GoToType ==
  ASSUME Types, NEW w \in Worker, NEW l \in Location, GoTo(w, l)
  PROVE  pc' \in [Worker -> Location] /\ held' \in [Worker -> Task \cup {NoTask}]
  BY DEF GoTo, Types

LEMMA ChargeType ==
  ASSUME Types, NEW call, Charge(call) PROVE faults' \in 0 .. MaxFaults
  BY DEF Charge, Types

LEMMA PostType ==
  ASSUME Types, NEW t, NEW kind, NEW call, Post(t, kind, call)
  PROVE  published' \in [Task -> [Kind -> Nat]]
<1>1. CASE t \in Task /\ kind \in Kind
  <2>1. published[t] \in [Kind -> Nat]
    BY <1>1 DEF Types
  <2>2. [published[t] EXCEPT ![kind] = @ + 1] \in [Kind -> Nat]
    BY <1>1, <2>1
  <2> QED
    BY <1>1, <2>2 DEF Post, Types
<1>2. CASE t \in Task /\ kind \notin Kind
  <2>1. published[t] \in [Kind -> Nat]
    BY <1>2 DEF Types
  <2>2. [published[t] EXCEPT ![kind] = @ + 1] \in [Kind -> Nat]
    BY <1>2, <2>1
  <2> QED
    BY <1>2, <2>2 DEF Post, Types
<1>3. CASE t \notin Task
  BY <1>3 DEF Post, Types
<1> QED
  BY <1>1, <1>2, <1>3

LEMMA RemoveType ==
  ASSUME Types, NEW t, NEW call, Remove(t, call)
  PROVE  owner' \in [Task -> (Worker \X Nat) \cup {NoOne}]
  BY DEF Remove, Types

LEMMA DeliverType ==
  ASSUME Types, NEW w \in Worker, NEW t, NEW call, Deliver(w, t, call), t \in Task
  PROVE  /\ owner' \in [Task -> (Worker \X Nat) \cup {NoOne}]
         /\ count' \in [Task -> 0 .. MaxRetries]
         /\ pc' \in [Worker -> Location]
         /\ held' \in [Worker -> Task \cup {NoTask}]
         /\ faults' \in 0 .. MaxFaults
<1>1. Name(w) \in Worker \X Nat
  BY DEF Name, Types
<1>2. CountUp(count[t]) \in 0 .. MaxRetries
  BY DEF CountUp, Types
<1> QED
  BY <1>1, <1>2, Locations, ChargeType DEF Deliver, Types

(* Every step keeps the types.                                             *)
LEMMA TypeStep == Types /\ [Next]_vars => Types'
<1> SUFFICES ASSUME Types, [Next]_vars PROVE Types'
  OBVIOUS
<1>1. CASE Submit
  BY <1>1 DEF Submit, Types
<1>2. ASSUME NEW w \in Worker, ReadNew(w) PROVE Types'
  <2>1. ASSUME cursor < tail, NEW call \in Call, Deliver(w, cursor + 1, call),
               cursor' = IF Applied(call) THEN cursor + 1 ELSE cursor
        PROVE  Types'
    <3>1. cursor + 1 \in Task /\ cursor' \in 0 .. tail
      BY <2>1 DEF Types
    <3> QED
      BY <1>2, <2>1, <3>1, DeliverType DEF ReadNew, Types
  <2>2. CASE GoTo(w, "history") /\ UNCHANGED <<cursor, owner, count, faults>>
    BY <1>2, <2>2, Locations, GoToType DEF ReadNew, Types
  <2> QED
    BY <1>2, <2>1, <2>2 DEF ReadNew
<1>3. ASSUME NEW w \in Worker, ReadHistory(w) PROVE Types'
  <2>1. ASSUME NEW t \in Task, NEW call \in Call, Deliver(w, t, call) PROVE Types'
    BY <1>3, <2>1, DeliverType DEF ReadHistory, Types
  <2>2. CASE GoTo(w, "idle") /\ UNCHANGED <<owner, count, faults>>
    BY <1>3, <2>2, Locations, GoToType DEF ReadHistory, Types
  <2> QED
    BY <1>3, <2>1, <2>2 DEF ReadHistory, Backlog
<1>4. ASSUME NEW w \in Worker, Execute(w) PROVE Types'
  BY <1>4, Locations, GoToType DEF Execute, stream, Types
<1>5. ASSUME NEW w \in Worker, Publish(w) PROVE Types'
  BY <1>5, Locations, GoToType, ChargeType, PostType DEF Publish, stream, Types
<1>6. ASSUME NEW w \in Worker, Ack(w) PROVE Types'
  BY <1>6, Locations, GoToType, ChargeType, RemoveType DEF Ack, Types
<1>7. ASSUME NEW w \in Worker, HandleFailure(w) PROVE Types'
  BY <1>7, Locations, GoToType, ChargeType DEF HandleFailure, stream, Types
<1>8. ASSUME NEW w \in Worker, DeadLetter(w) PROVE Types'
  BY <1>8, Locations, GoToType, ChargeType, PostType DEF DeadLetter, stream, Types
<1>9. ASSUME NEW w \in Worker, ReportError(w) PROVE Types'
  BY <1>9, Locations, GoToType, ChargeType, PostType DEF ReportError, stream, Types
<1>10. ASSUME NEW w \in Worker, AckDead(w) PROVE Types'
  BY <1>10, Locations, GoToType, ChargeType, RemoveType DEF AckDead, Types
<1>11. ASSUME NEW w \in Worker, Crash(w) PROVE Types'
  BY <1>11, Locations, GoToType DEF Crash, stream, Types
<1>12. ASSUME NEW w \in Worker, Restart(w) PROVE Types'
  <2>1. pc' \in [Worker -> Location] /\ held' \in [Worker -> Task \cup {NoTask}]
    BY <1>12, Locations, GoToType DEF Restart
  <2>2. life' \in [Worker -> Nat]
    BY <1>12 DEF Restart, Types
  <2>3. UNCHANGED <<tail, cursor, owner, count, published, faults, crashes>>
    BY <1>12 DEF Restart, stream
  <2> QED
    BY <2>1, <2>2, <2>3 DEF Types
<1>13. CASE UNCHANGED vars
  BY <1>13 DEF vars, Types
<1> QED
  BY <1>1, <1>2, <1>3, <1>4, <1>5, <1>6, <1>7, <1>8, <1>9, <1>10, <1>11, <1>12, <1>13
     DEF Next, Step

LEMMA TypeInit == Init => Types
  BY DEF Init, Types, Location

-----------------------------------------------------------------------------
(* Ownership and exclusive holding, which need each other: an entry that   *)
(* is acknowledged must not be held by anybody else.                       *)
Own == Types /\ Ownership /\ ExclusiveHold

(* What GoTo does to the worker and to the others.                         *)
LEMMA GoToEffect ==
  ASSUME Types, NEW w \in Worker, NEW l, GoTo(w, l)
  PROVE  /\ pc'[w] = l
         /\ held'[w] = IF l \in Busy THEN held[w] ELSE NoTask
         /\ \A v \in Worker : v # w => pc'[v] = pc[v] /\ held'[v] = held[v]
  BY DEF GoTo, Types

(* A worker in process_task holds an entry of the stream.                  *)
LEMMA HeldEntry ==
  ASSUME Types, Ownership, NEW w \in Worker, pc[w] \in Busy
  PROVE  held[w] \in Task /\ held[w] <= cursor
  BY DEF Types, Ownership, Holding

(* A name tells the worker.                                                *)
LEMMA Names == \A v, w \in Worker : Name(v) = Name(w) => v = w
  BY DEF Name

(* A move of w that keeps the stream and the entry it holds.               *)
LEMMA OwnMove ==
  ASSUME Own, NEW w \in Worker, NEW l \in Location, GoTo(w, l),
         l \in Busy => pc[w] \in Busy,
         (pc[w] = "failed" /\ l \in Busy) => owner[held[w]] # NoOne,
         UNCHANGED <<cursor, owner, life>>,
         \A t \in Task : t > cursor => published'[t] = published[t]
  PROVE  Ownership' /\ ExclusiveHold'
<1>0. /\ pc'[w] = l
      /\ held'[w] = IF l \in Busy THEN held[w] ELSE NoTask
      /\ \A v \in Worker : v # w => pc'[v] = pc[v] /\ held'[v] = held[v]
  BY GoToEffect DEF Own
<1>1. ASSUME NEW v \in Worker PROVE Holding(v)'
  <2>1. Holding(v)
    BY DEF Own, Ownership
  <2>2. CASE v = w
    BY <1>0, <2>1, <2>2 DEF Holding, Name
  <2>3. CASE v # w
    BY <1>0, <2>1, <2>3 DEF Holding, Name
  <2> QED
    BY <2>2, <2>3
<1>2. \A t \in Task : Undelivered(t)'
  BY DEF Own, Ownership, Undelivered
<1>3. ExclusiveHold'
  BY <1>0 DEF Own, ExclusiveHold
<1> QED
  BY <1>1, <1>2, <1>3 DEF Ownership

(* Acknowledging what w holds: nobody else holds it.                       *)
LEMMA OwnRemove ==
  ASSUME Own, NEW w \in Worker, pc[w] \in Busy, NEW call, Remove(held[w], call),
         NEW l, l \in {"idle", "failed"}, GoTo(w, l),
         UNCHANGED <<cursor, published, life>>
  PROVE  Ownership' /\ ExclusiveHold'
<1>0. /\ pc'[w] = l
      /\ held'[w] = IF l \in Busy THEN held[w] ELSE NoTask
      /\ \A v \in Worker : v # w => pc'[v] = pc[v] /\ held'[v] = held[v]
  BY GoToEffect DEF Own
<1>1. ASSUME NEW v \in Worker PROVE Holding(v)'
  <2>1. Holding(v) /\ Holding(w) /\ held[w] \in Task
    BY HeldEntry DEF Own, Ownership
  <2>2. CASE v = w
    BY <1>0, <2>1, <2>2, Locations DEF Holding, Name, Remove, Own, Types
  <2>3. CASE v # w
    <3>1. held[v] # held[w]
      BY <2>1, <2>3 DEF Own, ExclusiveHold
    <3> QED
      BY <1>0, <2>1, <2>3, <3>1 DEF Holding, Name, Remove, Own, Types
  <2> QED
    BY <2>2, <2>3
<1>2. \A t \in Task : Undelivered(t)'
  BY HeldEntry DEF Own, Ownership, Undelivered, Remove, Types
<1>3. ExclusiveHold'
  BY <1>0 DEF Own, ExclusiveHold
<1> QED
  BY <1>1, <1>2, <1>3 DEF Ownership

(* Delivering to w an entry nobody holds.                                  *)
LEMMA OwnDeliver ==
  ASSUME Own, NEW w \in Worker, NEW t \in Task, NEW call, Deliver(w, t, call),
         pc[w] \in {"idle", "history"},
         \A v \in Worker : held[v] # t,
         cursor' \in Nat, cursor' >= cursor,
         Applied(call) => t <= cursor',
         UNCHANGED <<published, life>>
  PROVE  Ownership' /\ ExclusiveHold'
<1>1. \A v \in Worker : Holding(v)'
  BY Locations DEF Own, Ownership, Holding, Deliver, Applied, Name, Types
<1>2. \A u \in Task : Undelivered(u)'
  BY DEF Own, Ownership, Undelivered, Deliver, Applied, Types
<1>3. ExclusiveHold'
  BY DEF Own, ExclusiveHold, Deliver, Types
<1> QED
  BY <1>1, <1>2, <1>3 DEF Ownership

(* Below the retry limit a torn XACK cannot lead to a dead letter: XPENDING *)
(* finds nothing and counts one delivery.                                  *)
LEMMA GoneEntryCountsOne ==
  ASSUME NEW t, NEW call, owner[t] = NoOne
  PROVE  ~ShouldDeadLetter(ObservedCount(t, call))
  BY DEF ShouldDeadLetter, ObservedCount

LEMMA OwnStep == Own /\ [Next]_vars => Ownership' /\ ExclusiveHold'
<1> SUFFICES ASSUME Own, [Next]_vars PROVE Ownership' /\ ExclusiveHold'
  OBVIOUS
<1> Types /\ Ownership /\ ExclusiveHold
  BY DEF Own
<1> USE DEF stream
<1>1. CASE Submit
  BY <1>1 DEF Submit, Ownership, Holding, Undelivered, ExclusiveHold, Name
<1>2. ASSUME NEW w \in Worker, ReadNew(w) PROVE Ownership' /\ ExclusiveHold'
  <2>1. ASSUME cursor < tail, NEW call \in Call, Deliver(w, cursor + 1, call),
               cursor' = IF Applied(call) THEN cursor + 1 ELSE cursor
        PROVE  Ownership' /\ ExclusiveHold'
    <3>1. /\ cursor + 1 \in Task /\ cursor' \in Nat /\ cursor' >= cursor
          /\ Applied(call) => cursor + 1 <= cursor'
          /\ \A v \in Worker : held[v] # cursor + 1
      BY <2>1 DEF Types, Ownership, Holding
    <3> QED
      BY <1>2, <2>1, <3>1, OwnDeliver DEF ReadNew
  <2>2. CASE GoTo(w, "history") /\ UNCHANGED <<cursor, owner, count, faults>>
    BY <1>2, <2>2, Locations, OwnMove DEF ReadNew
  <2> QED
    BY <1>2, <2>1, <2>2 DEF ReadNew
<1>3. ASSUME NEW w \in Worker, ReadHistory(w) PROVE Ownership' /\ ExclusiveHold'
  <2>1. ASSUME NEW t \in Backlog(w), NEW call \in Call, Deliver(w, t, call)
        PROVE  Ownership' /\ ExclusiveHold'
    <3>1. t \in Task /\ owner[t] = Name(w) /\ owner[t] # NoOne
      <4>1. Name(w) \in Worker \X Nat
        BY DEF Name, Types
      <4> QED
        BY <4>1 DEF Backlog
    <3>2. t <= cursor /\ cursor \in Nat
      BY <3>1 DEF Ownership, Undelivered, Types
    <3>3. \A v \in Worker : held[v] # t
      BY <1>3, <3>1, Names, Locations DEF ReadHistory, Ownership, Holding
    <3> QED
      BY <1>3, <2>1, <3>1, <3>2, <3>3, OwnDeliver DEF ReadHistory
  <2>2. CASE GoTo(w, "idle") /\ UNCHANGED <<owner, count, faults>>
    BY <1>3, <2>2, Locations, OwnMove DEF ReadHistory
  <2> QED
    BY <1>3, <2>1, <2>2 DEF ReadHistory
<1>4. ASSUME NEW w \in Worker, Execute(w) PROVE Ownership' /\ ExclusiveHold'
  BY <1>4, Locations, OwnMove DEF Execute
<1>5. ASSUME NEW w \in Worker, NEW kind \in Kind, NEW call, NEW l \in Location,
             pc[w] \in Busy, pc[w] # "failed", Post(held[w], kind, call), GoTo(w, l),
             UNCHANGED <<stream, life>>
      PROVE  Ownership' /\ ExclusiveHold'
  BY <1>5, HeldEntry, OwnMove DEF Post, Types
<1>6. ASSUME NEW w \in Worker, Publish(w) PROVE Ownership' /\ ExclusiveHold'
  BY <1>5, <1>6, Locations DEF Publish, Kind
<1>7. ASSUME NEW w \in Worker, Ack(w) PROVE Ownership' /\ ExclusiveHold'
  BY <1>7, Locations, OwnRemove DEF Ack
<1>8. ASSUME NEW w \in Worker, HandleFailure(w) PROVE Ownership' /\ ExclusiveHold'
  <2>1. PICK call \in {"ok", "lost"} :
          GoTo(w, IF ShouldDeadLetter(ObservedCount(held[w], call)) /\ w \in Decoder
                  THEN "deadLetter" ELSE "idle")
    BY <1>8 DEF HandleFailure
  <2> QED
    BY <1>8, <2>1, Locations, GoneEntryCountsOne, OwnMove DEF HandleFailure
<1>9. ASSUME NEW w \in Worker, DeadLetter(w) PROVE Ownership' /\ ExclusiveHold'
  BY <1>5, <1>9, Locations DEF DeadLetter, Kind
<1>10. ASSUME NEW w \in Worker, ReportError(w) PROVE Ownership' /\ ExclusiveHold'
  BY <1>5, <1>10, Locations DEF ReportError, Kind
<1>11. ASSUME NEW w \in Worker, AckDead(w) PROVE Ownership' /\ ExclusiveHold'
  BY <1>11, Locations, OwnRemove DEF AckDead
<1>12. ASSUME NEW w \in Worker, Crash(w) PROVE Ownership' /\ ExclusiveHold'
  BY <1>12, Locations, OwnMove DEF Crash
<1>13. ASSUME NEW w \in Worker, Restart(w) PROVE Ownership' /\ ExclusiveHold'
  <2>1. held[w] = NoTask /\ held'[w] = NoTask /\ pc'[w] = "idle"
    BY <1>13, GoToEffect, Locations DEF Restart, Ownership, Holding
  <2>2. \A v \in Worker : v # w => /\ pc'[v] = pc[v] /\ held'[v] = held[v]
                                   /\ Name(v)' = Name(v)
    BY <1>13, GoToEffect DEF Restart, Name, Types
  <2>3. \A v \in Worker : Holding(v)'
    BY <1>13, <2>1, <2>2, Locations DEF Restart, Ownership, Holding
  <2> QED
    BY <1>13, <2>1, <2>2, <2>3 DEF Restart, Ownership, Undelivered, ExclusiveHold
<1>14. CASE UNCHANGED vars
  BY <1>14 DEF vars, Ownership, Holding, Undelivered, ExclusiveHold, Name
<1> QED
  BY <1>1, <1>2, <1>3, <1>4, <1>6, <1>7, <1>8, <1>9, <1>10, <1>11, <1>12, <1>13, <1>14
     DEF Next, Step

LEMMA OwnInit == Init => Own
  BY TypeInit DEF Init, Own, Ownership, Holding, Undelivered, ExclusiveHold, Busy

(* The consumer never leaves its types: in particular the cursor never     *)
(* passes the stream's tail, and a worker holds only what was delivered to *)
(* it and nobody else has taken over since (run, process_task).            *)
THEOREM TypeCorrect == Spec => []TypeOK
<1>1. Init => Own
  BY OwnInit
<1>2. Own /\ [Next]_vars => Own'
  BY OwnStep, TypeStep DEF Own
<1>3. Own => TypeOK
  BY DEF Own, Types, TypeOK, Ownership, Holding
<1>. QED
  BY <1>1, <1>2, <1>3, PTL DEF Spec, Safe

(* At no time do two workers work on the same entry.                       *)
THEOREM Exclusive == Spec => []ExclusiveHold
<1>1. Init => Own
  BY OwnInit
<1>2. Own /\ [Next]_vars => Own'
  BY OwnStep, TypeStep DEF Own
<1>3. Own => ExclusiveHold
  BY DEF Own
<1> QED
  BY <1>1, <1>2, <1>3, PTL DEF Spec, Safe

-----------------------------------------------------------------------------
(* What is published and counted only grows.                               *)

LEMMA PostEffect ==
  ASSUME Types, NEW t \in Task, NEW kind \in Kind, NEW call, Post(t, kind, call)
  PROVE  \A u \in Task, k \in Kind :
           published'[u][k] = IF Applied(call) /\ u = t /\ k = kind
                              THEN published[u][k] + 1 ELSE published[u][k]
<1> TAKE u \in Task, k \in Kind
<1>1. published[u] \in [Kind -> Nat] /\ published[t] \in [Kind -> Nat]
  BY DEF Types
<1>2. CASE u = t
  BY <1>1, <1>2 DEF Post, Types
<1>3. CASE u # t
  BY <1>1, <1>3 DEF Post, Types
<1> QED
  BY <1>2, <1>3

(* A step of w leaves the other workers where they are.                    *)
LEMMA OthersStay ==
  ASSUME Types, NEW w \in Worker, Step(w) \/ Crash(w) \/ Restart(w),
         NEW v \in Worker, v # w
  PROVE  pc'[v] = pc[v] /\ held'[v] = held[v]
<1>1. ASSUME NEW l, GoTo(w, l) PROVE pc'[v] = pc[v] /\ held'[v] = held[v]
  BY <1>1, GoToEffect
<1>2. ASSUME NEW t, NEW call, Deliver(w, t, call) PROVE pc'[v] = pc[v] /\ held'[v] = held[v]
  BY <1>2 DEF Deliver, Types
<1>3. CASE ReadNew(w) \/ ReadHistory(w)
  BY <1>1, <1>2, <1>3 DEF ReadNew, ReadHistory
<1>4. CASE Execute(w) \/ Publish(w) \/ Ack(w) \/ HandleFailure(w)
  BY <1>1, <1>4 DEF Execute, Publish, Ack, HandleFailure
<1>5. CASE DeadLetter(w) \/ ReportError(w) \/ AckDead(w) \/ Crash(w) \/ Restart(w)
  BY <1>1, <1>5 DEF DeadLetter, ReportError, AckDead, Crash, Restart
<1> QED
  BY <1>3, <1>4, <1>5 DEF Step

LEMMA CountersAreNat ==
  ASSUME Types, [Next]_vars, NEW t \in Task
  PROVE  /\ count[t] \in Nat /\ count'[t] \in Nat
         /\ \A k \in Kind : published[t][k] \in Nat /\ published'[t][k] \in Nat
<1>1. Types'
  BY TypeStep
<1>2. count[t] \in Nat /\ \A k \in Kind : published[t][k] \in Nat
  BY DEF Types
<1>3. count'[t] \in Nat /\ \A k \in Kind : published'[t][k] \in Nat
  BY <1>1 DEF Types
<1> QED
  BY <1>2, <1>3

Grown ==
  \A t \in Task : /\ count'[t] >= count[t]
                  /\ \A k \in Kind : published'[t][k] >= published[t][k]

LEMMA Growth ==
  ASSUME Own, [Next]_vars PROVE Grown
<1> Types /\ Ownership
  BY DEF Own
<1>0. \A t \in Task : count[t] \in Nat /\ \A k \in Kind : published[t][k] \in Nat
  BY DEF Types
<1>1. CASE UNCHANGED <<count, published>>
  BY <1>0, <1>1 DEF Grown
<1>2. ASSUME NEW w \in Worker, NEW t, NEW call, Deliver(w, t, call), UNCHANGED published
      PROVE  Grown
  BY <1>0, <1>2 DEF Grown, Deliver, CountUp, Types
<1>3. ASSUME NEW w \in Worker, pc[w] \in Busy, NEW kind \in Kind, NEW call,
             Post(held[w], kind, call), UNCHANGED count
      PROVE  Grown
  BY <1>0, <1>3, HeldEntry, PostEffect DEF Grown
<1>4. ASSUME NEW w \in Worker, ReadNew(w) \/ ReadHistory(w) PROVE Grown
  BY <1>1, <1>2, <1>4 DEF ReadNew, ReadHistory
<1>5. ASSUME NEW w \in Worker, Publish(w) \/ DeadLetter(w) \/ ReportError(w) PROVE Grown
  BY <1>3, <1>5, Locations DEF Publish, DeadLetter, ReportError, stream, Kind
<1>6. ASSUME NEW w \in Worker,
             Execute(w) \/ Ack(w) \/ HandleFailure(w) \/ AckDead(w) \/ Crash(w) \/ Restart(w)
      PROVE  Grown
  BY <1>1, <1>6 DEF Execute, Ack, HandleFailure, AckDead, Crash, Restart, stream
<1> QED
  BY <1>1, <1>4, <1>5, <1>6 DEF Next, Step, Submit, vars

-----------------------------------------------------------------------------
(* No task is dropped without an outcome.                                  *)

(* Only an acknowledgement takes an entry off the pending list, and it is  *)
(* reached with something published.                                       *)
Backed == Own /\ Evidence

LEMMA EvidenceStep == Backed /\ [Next]_vars => Evidence'
<1> SUFFICES ASSUME Backed, [Next]_vars PROVE Evidence'
  OBVIOUS
<1> Own /\ Evidence /\ Types /\ Ownership
  BY DEF Backed, Own
<1>1. Grown
  BY Growth
<1>2. \A t \in Task, k \in Kind : published[t][k] \in Nat /\ published'[t][k] \in Nat
  BY CountersAreNat
<1>3. ASSUME NEW v \in Worker, pc'[v] = pc[v], held'[v] = held[v] PROVE Evident(v)'
  <2>1. Evident(v) /\ (pc[v] \in Busy => held[v] \in Task)
    BY HeldEntry DEF Evidence
  <2> QED
    BY <1>1, <1>2, <1>3, <2>1, Locations DEF Evident, Grown, Replies, Kind
<1>4. ASSUME NEW w \in Worker, NEW l, GoTo(w, l), l \notin {"ack", "reportError", "ackDead"}
      PROVE  Evident(w)'
  BY <1>4, GoToEffect DEF Evident
<1>5. ASSUME NEW w \in Worker, NEW t, NEW call, Deliver(w, t, call) PROVE Evident(w)'
  BY <1>5 DEF Deliver, Evident, Types
<1>6. ASSUME NEW w \in Worker, Publish(w) PROVE Evident(w)'
  <2>1. PICK call \in Call :
          /\ Post(held[w], IF pc[w] = "publishResult" THEN "result" ELSE "error", call)
          /\ GoTo(w, IF call = "ok" THEN "ack" ELSE "failed")
    BY <1>6 DEF Publish
  <2>2. CASE call = "ok"
    <3>1. held[w] \in Task /\ held'[w] = held[w] /\ pc'[w] = "ack"
      BY <1>6, <2>1, <2>2, HeldEntry, GoToEffect, Locations DEF Publish
    <3>2. Replies(held[w])' > 0
      BY <1>2, <2>1, <2>2, <3>1, PostEffect DEF Applied, Replies, Kind
    <3> QED
      BY <3>1, <3>2 DEF Evident, Replies
  <2> QED
    BY <1>4, <2>1, <2>2
<1>7. ASSUME NEW w \in Worker, DeadLetter(w) PROVE Evident(w)'
  <2>1. PICK call \in Call :
          /\ Post(held[w], "dead", call)
          /\ GoTo(w, IF call # "ok" THEN "idle"
                     ELSE IF held[w] \in Malformed THEN "ackDead" ELSE "reportError")
    BY <1>7 DEF DeadLetter
  <2>2. CASE call = "ok"
    <3>1. held[w] \in Task /\ held'[w] = held[w] /\ pc'[w] \in {"ackDead", "reportError"}
      BY <1>7, <2>1, <2>2, HeldEntry, GoToEffect, Locations DEF DeadLetter
    <3>2. published'[held[w]]["dead"] > 0
      BY <1>2, <2>1, <2>2, <3>1, PostEffect DEF Applied, Kind
    <3> QED
      BY <3>1, <3>2 DEF Evident
  <2> QED
    BY <1>4, <2>1, <2>2
<1>8. ASSUME NEW w \in Worker, ReportError(w) PROVE Evident(w)'
  <2>1. held[w] \in Task /\ held'[w] = held[w] /\ pc'[w] = "ackDead"
    BY <1>8, HeldEntry, GoToEffect, Locations DEF ReportError
  <2>2. published[held[w]]["dead"] > 0
    BY <1>8 DEF ReportError, Evidence, Evident
  <2> QED
    BY <1>1, <1>2, <2>1, <2>2 DEF Evident, Grown, Kind
<1>9. ASSUME NEW w \in Worker, Step(w) \/ Crash(w) \/ Restart(w) PROVE Evident(w)'
  <2>1. CASE ReadNew(w) \/ ReadHistory(w)
    BY <1>4, <1>5, <2>1 DEF ReadNew, ReadHistory
  <2>2. CASE Execute(w) \/ Ack(w) \/ AckDead(w)
    BY <1>4, <2>2 DEF Execute, Ack, AckDead
  <2>3. CASE HandleFailure(w) \/ Crash(w) \/ Restart(w)
    BY <1>4, <2>3 DEF HandleFailure, Crash, Restart
  <2> QED
    BY <1>6, <1>7, <1>8, <1>9, <2>1, <2>2, <2>3 DEF Step
<1> QED
  BY <1>3, <1>9, OthersStay DEF Next, Submit, vars, Evidence

LEMMA SilentStep == Backed /\ NoSilentDrop /\ [Next]_vars => NoSilentDrop'
<1> SUFFICES ASSUME Backed, NoSilentDrop, [Next]_vars, NEW t \in Task, Settled(t)'
             PROVE  \E k \in Kind : published'[t][k] > 0
  BY DEF NoSilentDrop
<1> Own /\ Evidence /\ Types /\ Ownership
  BY DEF Backed, Own
<1>1. Grown
  BY Growth
<1>2. \A k \in Kind : published[t][k] \in Nat /\ published'[t][k] \in Nat
  BY CountersAreNat
<1>3. CASE Settled(t)
  BY <1>1, <1>2, <1>3 DEF NoSilentDrop, Grown
<1>4. ASSUME NEW w \in Worker, pc[w] \in {"ack", "ackDead"}, t = held[w]
      PROVE  \E k \in Kind : published'[t][k] > 0
  <2>1. \E k \in Kind : published[t][k] > 0
    BY <1>2, <1>4 DEF Evidence, Evident, Replies, Kind
  <2> QED
    BY <1>1, <1>2, <2>1 DEF Grown
<1>5. ASSUME NEW w \in Worker, NEW u \in Task, NEW call, Deliver(w, u, call),
             cursor' = cursor \/ (cursor' = cursor + 1 /\ u = cursor' /\ Applied(call))
      PROVE  Settled(t)
  <2>1. Name(w) # NoOne
    <3>1. Name(w) \in Worker \X Nat
      BY DEF Name, Types
    <3> QED
      BY <3>1
  <2> QED
    BY <1>5, <2>1 DEF Settled, Deliver, Types
<1>6. ASSUME NEW w \in Worker, ReadNew(w) PROVE Settled(t)
  <2>1. cursor < tail => cursor + 1 \in Task
    BY DEF Types
  <2> QED
    BY <1>5, <1>6, <2>1 DEF ReadNew, Settled
<1>7. ASSUME NEW w \in Worker, ReadHistory(w) PROVE Settled(t)
  BY <1>5, <1>7 DEF ReadHistory, Backlog, Settled
<1>8. ASSUME NEW w \in Worker, Ack(w) \/ AckDead(w)
      PROVE  Settled(t) \/ (pc[w] \in {"ack", "ackDead"} /\ t = held[w])
  <2>1. cursor' = cursor /\ pc[w] \in {"ack", "ackDead"} /\ held[w] \in Task
    BY <1>8, HeldEntry, Locations DEF Ack, AckDead
  <2>2. PICK call \in Call : Remove(held[w], call)
    BY <1>8 DEF Ack, AckDead
  <2> QED
    BY <2>1, <2>2 DEF Remove, Settled, Types
<1>9. CASE UNCHANGED <<cursor, owner>>
  BY <1>3, <1>9 DEF Settled
<1>10. ASSUME NEW w \in Worker,
              \/ Execute(w) \/ Publish(w) \/ HandleFailure(w) \/ DeadLetter(w)
              \/ ReportError(w) \/ Crash(w) \/ Restart(w)
       PROVE  UNCHANGED <<cursor, owner>>
  BY <1>10 DEF Execute, Publish, HandleFailure, DeadLetter, ReportError, Crash, Restart, stream
<1> QED
  BY <1>3, <1>4, <1>6, <1>7, <1>8, <1>9, <1>10 DEF Next, Step, Submit, vars

LEMMA BackedInit == Init => Backed /\ NoSilentDrop
  BY OwnInit DEF Init, Backed, Evidence, Evident, NoSilentDrop, Settled

(* No task leaves the consumer group without a result, an error envelope   *)
(* or a dead letter, however many calls raise and processes crash.         *)
THEOREM NothingDropped == Spec => []NoSilentDrop
<1>1. Init => Backed /\ NoSilentDrop
  BY BackedInit
<1>2. Backed /\ NoSilentDrop /\ [Next]_vars => (Backed /\ NoSilentDrop)'
  BY TypeStep, OwnStep, EvidenceStep, SilentStep DEF Backed, Own
<1> QED
  BY <1>1, <1>2, PTL DEF Spec, Safe

-----------------------------------------------------------------------------
(* Dead letters only after the retries.                                    *)
Patient == Own /\ Retried /\ DeadOnlyAfterRetries

LEMMA RetriedStep == Patient /\ [Next]_vars => Retried'
<1> SUFFICES ASSUME Patient, [Next]_vars, NEW w \in Worker, pc'[w] = "deadLetter"
             PROVE  count'[held'[w]] >= MaxRetries
  BY DEF Retried
<1> Own /\ Retried /\ Types /\ Ownership
  BY DEF Patient, Own
<1>1. Grown
  BY Growth
<1>2. \A t \in Task : count[t] \in Nat /\ count'[t] \in Nat
  BY CountersAreNat
<1>3. CASE pc'[w] = pc[w] /\ held'[w] = held[w]
  BY <1>1, <1>2, <1>3, HeldEntry, Locations DEF Retried, Grown
<1>4. CASE HandleFailure(w)
  <2>1. PICK call \in {"ok", "lost"} :
          GoTo(w, IF ShouldDeadLetter(ObservedCount(held[w], call)) /\ w \in Decoder
                  THEN "deadLetter" ELSE "idle")
    BY <1>4 DEF HandleFailure
  <2>2. ShouldDeadLetter(ObservedCount(held[w], call)) /\ held'[w] = held[w]
    BY <2>1, GoToEffect, Locations
  <2>3. count[held[w]] >= MaxRetries
    BY <2>2 DEF ShouldDeadLetter, ObservedCount
  <2> QED
    BY <1>4, <2>2, <2>3 DEF HandleFailure, stream
<1>5. ASSUME NEW l, GoTo(w, l), l # "deadLetter" PROVE FALSE
  BY <1>5, GoToEffect
<1>6. ASSUME NEW t, NEW call, Deliver(w, t, call) PROVE FALSE
  BY <1>6 DEF Deliver, Types
<1>7. ASSUME Step(w) \/ Crash(w) \/ Restart(w), ~HandleFailure(w) PROVE FALSE
  <2>1. ~ReadNew(w) /\ ~ReadHistory(w)
    BY <1>5, <1>6 DEF ReadNew, ReadHistory
  <2>2. ~Execute(w) /\ ~Publish(w) /\ ~Ack(w)
    BY <1>5 DEF Execute, Publish, Ack
  <2>3. ~DeadLetter(w) /\ ~ReportError(w) /\ ~AckDead(w) /\ ~Crash(w) /\ ~Restart(w)
    BY <1>5 DEF DeadLetter, ReportError, AckDead, Crash, Restart
  <2> QED
    BY <1>7, <2>1, <2>2, <2>3 DEF Step
<1> QED
  BY <1>3, <1>4, <1>7, OthersStay DEF Next, Submit, vars

LEMMA DeadStep == Patient /\ [Next]_vars => DeadOnlyAfterRetries'
<1> SUFFICES ASSUME Patient, [Next]_vars, NEW t \in Task, published'[t]["dead"] > 0
             PROVE  count'[t] >= MaxRetries
  BY DEF DeadOnlyAfterRetries
<1> Own /\ Retried /\ DeadOnlyAfterRetries /\ Types /\ Ownership
  BY DEF Patient, Own
<1>1. Grown
  BY Growth
<1>2. count[t] \in Nat /\ count'[t] \in Nat
  BY CountersAreNat
<1>3. CASE published'[t]["dead"] = published[t]["dead"]
  BY <1>1, <1>2, <1>3 DEF DeadOnlyAfterRetries, Grown
<1>4. ASSUME NEW w \in Worker, Publish(w) \/ ReportError(w)
      PROVE  published'[t]["dead"] = published[t]["dead"]
  <2>1. PICK kind \in {"result", "error"}, call \in Call : Post(held[w], kind, call)
    BY <1>4 DEF Publish, ReportError
  <2>2. held[w] \in Task
    BY <1>4, HeldEntry, Locations DEF Publish, ReportError
  <2> QED
    BY <2>1, <2>2, PostEffect DEF Kind
<1>5. ASSUME NEW w \in Worker, DeadLetter(w)
      PROVE  published'[t]["dead"] = published[t]["dead"] \/ (held[w] = t /\ pc[w] = "deadLetter")
  <2>1. PICK call \in Call : Post(held[w], "dead", call)
    BY <1>5 DEF DeadLetter
  <2>2. held[w] \in Task /\ pc[w] = "deadLetter"
    BY <1>5, HeldEntry, Locations DEF DeadLetter
  <2> QED
    BY <2>1, <2>2, PostEffect DEF Kind
<1>6. ASSUME NEW w \in Worker, held[w] = t, pc[w] = "deadLetter" PROVE count'[t] >= MaxRetries
  BY <1>1, <1>2, <1>6 DEF Retried, Grown
<1>7. ASSUME NEW w \in Worker,
             \/ ReadNew(w) \/ ReadHistory(w) \/ Execute(w) \/ Ack(w)
             \/ HandleFailure(w) \/ AckDead(w) \/ Crash(w) \/ Restart(w)
      PROVE  published' = published
  BY <1>7 DEF ReadNew, ReadHistory, Execute, Ack, HandleFailure, AckDead, Crash, Restart
<1> QED
  BY <1>3, <1>4, <1>5, <1>6, <1>7 DEF Next, Step, Submit, vars

(* A dead letter is only ever written for an entry that Redis delivered    *)
(* MaxRetries times.                                                       *)
THEOREM DeadAfterRetries == Spec => []DeadOnlyAfterRetries
<1>1. Init => Patient
  BY OwnInit DEF Init, Patient, Retried, DeadOnlyAfterRetries, Kind
<1>2. Patient /\ [Next]_vars => Patient'
  BY TypeStep, OwnStep, RetriedStep, DeadStep DEF Patient, Own
<1>3. Patient => DeadOnlyAfterRetries
  BY DEF Patient
<1> QED
  BY <1>1, <1>2, <1>3, PTL DEF Spec, Safe

-----------------------------------------------------------------------------
(* Duplicates are paid for.                                                *)

LEMMA IncidentsGrow ==
  ASSUME Types, [Next]_vars
  PROVE  Incidents \in Nat /\ Incidents' \in Nat /\ Incidents' >= Incidents
<1>1. /\ faults \in Nat /\ crashes \in Nat
  BY DEF Types
<1>2. ASSUME NEW call, Charge(call), UNCHANGED crashes
      PROVE  faults' \in Nat /\ faults' >= faults /\ crashes' = crashes
  BY <1>1, <1>2 DEF Charge
<1>3. ASSUME NEW w \in Worker, ReadNew(w) \/ ReadHistory(w)
      PROVE  faults' \in Nat /\ faults' >= faults /\ crashes' = crashes
  BY <1>1, <1>2, <1>3 DEF ReadNew, ReadHistory, Deliver
<1>4. ASSUME NEW w \in Worker, Publish(w) \/ Ack(w) \/ HandleFailure(w)
      PROVE  faults' \in Nat /\ faults' >= faults /\ crashes' = crashes
  BY <1>1, <1>2, <1>4 DEF Publish, Ack, HandleFailure
<1>5. ASSUME NEW w \in Worker, DeadLetter(w) \/ ReportError(w) \/ AckDead(w)
      PROVE  faults' \in Nat /\ faults' >= faults /\ crashes' = crashes
  BY <1>1, <1>2, <1>5 DEF DeadLetter, ReportError, AckDead
<1>6. ASSUME NEW w \in Worker, Execute(w) \/ Crash(w) \/ Restart(w)
      PROVE  faults' = faults /\ crashes' \in Nat /\ crashes' >= crashes
  BY <1>1, <1>6 DEF Execute, Crash, Restart
<1>7. faults' \in Nat /\ faults' >= faults /\ crashes' \in Nat /\ crashes' >= crashes
  BY <1>1, <1>3, <1>4, <1>5, <1>6 DEF Next, Step, Submit, vars
<1>8. \A a, b, c, e \in Nat : c >= a /\ e >= b => c + e >= a + b /\ a + b \in Nat /\ c + e \in Nat
  OBVIOUS
<1>9. faults' + crashes' >= faults + crashes
      /\ faults + crashes \in Nat /\ faults' + crashes' \in Nat
  BY <1>1, <1>7, <1>8
<1> QED
  BY <1>9 DEF Incidents

(* An entry whose publications and place nobody changes stays paid for.    *)
LEMMA PaidUntouched ==
  ASSUME Types, Types', [Next]_vars, NEW t \in Task, Paid(t),
         owner'[t] = owner[t], published'[t] = published[t],
         \A v \in Worker : held[v] = t \/ held'[v] = t
                             => held'[v] = held[v] /\ pc'[v] = pc[v]
  PROVE  Paid(t)'
<1>1. Replies(t) \in Nat /\ published[t]["dead"] \in Nat
  BY CountersAreNat DEF Replies, Kind
<1>2. Replies(t)' = Replies(t)
  BY DEF Replies
<1>3. At(t, {"ack", "ackDead"})' <=> At(t, {"ack", "ackDead"})
  BY DEF At
<1>4. At(t, {"reportError", "ackDead"})' <=> At(t, {"reportError", "ackDead"})
  BY DEF At
<1> QED
  BY <1>1, <1>2, <1>3, <1>4, IncidentsGrow DEF Paid

(* A step of the worker that holds t.                                      *)
LEMMA PaidHeld ==
  ASSUME Own, Own', [Next]_vars, NEW t \in Task, Paid(t), NEW w \in Worker, held[w] = t,
         Step(w) \/ Crash(w) \/ Restart(w)
  PROVE  Paid(t)'
<1> Types /\ Ownership /\ Types'
  BY DEF Own
<1> DEFINE d == published[t]["dead"]
<1>1. /\ Replies(t) \in Nat /\ d \in Nat /\ Replies(t)' \in Nat /\ d' \in Nat
      /\ Incidents \in Nat /\ Incidents' \in Nat /\ Incidents' >= Incidents
  BY CountersAreNat, IncidentsGrow DEF Replies, Kind
<1>2. /\ pc[w] \in Busy
      /\ owner[t] = NoOne => pc[w] = "failed"
  <2>1. Name(w) # NoOne
    <3>1. Name(w) \in Worker \X Nat
      BY DEF Name, Types
    <3> QED
      BY <3>1
  <2> QED
    BY <2>1 DEF Ownership, Holding
<1>3. \A v \in Worker : v # w => held[v] # t /\ held'[v] # t
  BY OthersStay DEF Own, ExclusiveHold
<1>4. /\ At(t, {"ack", "ackDead"}) <=> pc[w] \in {"ack", "ackDead"}
      /\ At(t, {"reportError", "ackDead"}) <=> pc[w] \in {"reportError", "ackDead"}
  BY <1>3 DEF At
<1>5. /\ Replies(t) <= 1 + Incidents /\ d <= 1 + Incidents
      /\ owner[t] # NoOne /\ pc[w] \notin {"ack", "ackDead"} => Replies(t) <= Incidents
      /\ owner[t] # NoOne /\ pc[w] \notin {"reportError", "ackDead"} => d <= Incidents
  BY <1>4 DEF Paid
<1>6. ASSUME /\ Replies(t)' <= 1 + Incidents' /\ d' <= 1 + Incidents'
             /\ owner'[t] # NoOne /\ ~(pc'[w] \in {"ack", "ackDead"})
                  => Replies(t)' <= Incidents'
             /\ owner'[t] # NoOne /\ ~(pc'[w] \in {"reportError", "ackDead"})
                  => d' <= Incidents',
             held'[w] = t
      PROVE  Paid(t)'
  <2>1. /\ At(t, {"ack", "ackDead"})' <=> pc'[w] \in {"ack", "ackDead"}
        /\ At(t, {"reportError", "ackDead"})' <=> pc'[w] \in {"reportError", "ackDead"}
    BY <1>3, <1>6 DEF At
  <2> QED
    BY <1>6, <2>1 DEF Paid
<1>7. ASSUME /\ Replies(t)' <= 1 + Incidents' /\ d' <= 1 + Incidents'
             /\ owner'[t] # NoOne => Replies(t)' <= Incidents' /\ d' <= Incidents'
      PROVE  Paid(t)'
  BY <1>1, <1>7 DEF Paid
<1>8. ASSUME NEW kind \in Kind, NEW call, Post(t, kind, call)
      PROVE  /\ call = "lost" => Replies(t)' = Replies(t) /\ d' = d
             /\ kind = "dead" => Replies(t)' = Replies(t) /\ d' <= d + 1
             /\ kind # "dead" => Replies(t)' <= Replies(t) + 1 /\ d' = d
  <2> DEFINE p(k) == IF call # "lost" /\ k = kind THEN published[t][k] + 1
                                                   ELSE published[t][k]
  <2>1. \A k \in Kind : published'[t][k] = p(k)
    BY <1>8, PostEffect DEF Applied
  <2>2. /\ published'[t]["result"] = p("result")
        /\ published'[t]["error"] = p("error")
        /\ published'[t]["dead"] = p("dead")
    BY <2>1 DEF Kind
  <2>3. /\ published[t]["result"] \in Nat /\ published[t]["error"] \in Nat
        /\ published[t]["dead"] \in Nat
    BY CountersAreNat DEF Kind
  <2>4. kind \in {"result", "error", "dead"}
    BY <1>8 DEF Kind
  <2> QED
    BY <2>2, <2>3, <2>4 DEF Replies
<1>9. ASSUME NEW call, Charge(call), UNCHANGED crashes
      PROVE  /\ call = "ok" => Incidents' = Incidents
             /\ call # "ok" => Incidents' = Incidents + 1
  <2>1. /\ faults \in Nat /\ crashes \in Nat
        /\ call = "ok" => faults' = faults
        /\ call # "ok" => faults' = faults + 1
    BY <1>9 DEF Charge, Types
  <2>2. \A a, b \in Nat : (a + 1) + b = (a + b) + 1
    OBVIOUS
  <2> QED
    BY <1>9, <2>1, <2>2 DEF Incidents
<1>10. CASE Execute(w)
  <2>1. owner[t] # NoOne /\ pc[w] \notin {"ack", "ackDead", "reportError"}
    BY <1>2, <1>10 DEF Execute
  <2> QED
    BY <1>1, <1>5, <1>7, <1>10, <2>1 DEF Execute, stream, Replies
<1>11. CASE Publish(w)
  <2>1. PICK call \in Call :
          /\ Charge(call)
          /\ Post(t, IF pc[w] = "publishResult" THEN "result" ELSE "error", call)
          /\ GoTo(w, IF call = "ok" THEN "ack" ELSE "failed")
    BY <1>11 DEF Publish
  <2>2. /\ owner[t] # NoOne /\ Replies(t) <= Incidents /\ d <= Incidents
        /\ UNCHANGED <<owner, crashes>>
        /\ Replies(t)' <= Replies(t) + 1 /\ d' = d
    BY <1>2, <1>5, <1>8, <1>11, <2>1 DEF Publish, stream, Kind
  <2>3. CASE call = "ok"
    <3>1. pc'[w] = "ack" /\ held'[w] = t
      BY <2>1, <2>3, GoToEffect, Locations
    <3> QED
      BY <1>1, <1>6, <1>9, <2>1, <2>2, <2>3, <3>1
  <2>4. CASE call # "ok"
    BY <1>1, <1>7, <1>9, <2>1, <2>2, <2>4
  <2> QED
    BY <2>3, <2>4
<1>12. CASE Ack(w)
  <2>1. PICK call \in Call : Charge(call) /\ Remove(t, call)
    BY <1>12 DEF Ack
  <2>2. d <= Incidents /\ UNCHANGED <<published, crashes>> /\ (call # "lost" => owner'[t] = NoOne)
    BY <1>2, <1>5, <1>12, <2>1 DEF Ack, Remove, Applied, Types
  <2> QED
    BY <1>1, <1>5, <1>7, <1>9, <2>1, <2>2 DEF Replies
<1>13. CASE HandleFailure(w)
  BY <1>1, <1>5, <1>7, <1>13 DEF HandleFailure, stream, Replies
<1>14. CASE DeadLetter(w)
  <2>1. PICK call \in Call :
          /\ Charge(call)
          /\ Post(t, "dead", call)
          /\ GoTo(w, IF call # "ok" THEN "idle"
                     ELSE IF t \in Malformed THEN "ackDead" ELSE "reportError")
    BY <1>14 DEF DeadLetter
  <2>2. /\ owner[t] # NoOne /\ Replies(t) <= Incidents /\ d <= Incidents
        /\ UNCHANGED <<owner, crashes>>
        /\ Replies(t)' = Replies(t) /\ d' <= d + 1
    BY <1>2, <1>5, <1>8, <1>14, <2>1 DEF DeadLetter, stream, Kind
  <2>3. CASE call = "ok"
    <3>1. pc'[w] \in {"ackDead", "reportError"} /\ held'[w] = t
      BY <2>1, <2>3, GoToEffect, Locations
    <3> QED
      BY <1>1, <1>6, <1>9, <2>1, <2>2, <2>3, <3>1
  <2>4. CASE call # "ok"
    BY <1>1, <1>7, <1>9, <2>1, <2>2, <2>4
  <2> QED
    BY <2>3, <2>4
<1>15. CASE ReportError(w)
  <2>1. PICK call \in Call :
          Charge(call) /\ Post(t, "error", call) /\ GoTo(w, "ackDead")
    BY <1>15 DEF ReportError
  <2>2. /\ owner[t] # NoOne /\ Replies(t) <= Incidents
        /\ UNCHANGED <<owner, crashes>>
        /\ Replies(t)' <= Replies(t) + 1 /\ d' = d
    BY <1>2, <1>5, <1>8, <1>15, <2>1 DEF ReportError, stream, Kind
  <2>3. pc'[w] = "ackDead" /\ held'[w] = t
    BY <2>1, GoToEffect, Locations
  <2> QED
    BY <1>1, <1>5, <1>6, <2>2, <2>3
<1>16. CASE AckDead(w)
  <2>1. PICK call \in Call : Charge(call) /\ Remove(t, call)
    BY <1>16 DEF AckDead
  <2>2. UNCHANGED <<published, crashes>> /\ (call # "lost" => owner'[t] = NoOne)
    BY <1>16, <2>1 DEF AckDead, Remove, Applied, Types
  <2> QED
    BY <1>1, <1>5, <1>7, <1>9, <2>1, <2>2 DEF Replies
<1>17. CASE Crash(w)
  <2>1. Incidents' = Incidents + 1
    BY <1>17 DEF Crash, Incidents, Types
  <2> QED
    BY <1>1, <1>5, <1>7, <1>17, <2>1 DEF Crash, stream, Replies
<1>18. ~ReadNew(w) /\ ~ReadHistory(w) /\ ~Restart(w)
  BY <1>2, Locations DEF ReadNew, ReadHistory, Restart
<1> QED
  BY <1>10, <1>11, <1>12, <1>13, <1>14, <1>15, <1>16, <1>17, <1>18 DEF Step

(* Delivering to w an entry u that nobody holds.                           *)
LEMMA PaidDelivered ==
  ASSUME Own, Own', [Next]_vars, NEW t \in Task, Paid(t),
         NEW w \in Worker, NEW u \in Task, NEW call,
         Deliver(w, u, call), Step(w), UNCHANGED published, held[w] # t,
         owner[u] # NoOne \/ (Undelivered(u) /\ u > cursor),
         \A v \in Worker : held[v] # u
  PROVE  Paid(t)'
<1> Types /\ Types'
  BY DEF Own
<1>1. CASE u # t
  <2>1. held'[w] # t /\ owner'[t] = owner[t]
    BY <1>1 DEF Deliver, Types
  <2> QED
    BY <2>1, OthersStay, PaidUntouched
<1>2. CASE u = t
  <2>1. /\ \A k \in Kind : published[t][k] \in Nat
        /\ Incidents \in Nat /\ Incidents' \in Nat /\ Incidents' >= Incidents
    BY CountersAreNat, IncidentsGrow
  <2>2. ~At(t, {"ack", "ackDead"}) /\ ~At(t, {"reportError", "ackDead"})
    BY <1>2 DEF At
  <2>3. Replies(t) <= Incidents /\ published[t]["dead"] <= Incidents
    <3>1. CASE owner[t] # NoOne
      BY <2>2, <3>1 DEF Paid
    <3>2. CASE Undelivered(t) /\ t > cursor
      BY <2>1, <3>2 DEF Undelivered, Replies, Kind
    <3> QED
      BY <1>2, <3>1, <3>2
  <2>4. Replies(t)' = Replies(t) /\ published'[t]["dead"] = published[t]["dead"]
    BY DEF Replies
  <2>5. Replies(t) \in Nat /\ published[t]["dead"] \in Nat
    BY <2>1 DEF Replies, Kind
  <2> QED
    BY <2>1, <2>3, <2>4, <2>5 DEF Paid
<1> QED
  BY <1>1, <1>2

Settling == Own /\ Budget

LEMMA BudgetStep == Settling /\ [Next]_vars => Budget'
<1> SUFFICES ASSUME Settling, [Next]_vars, NEW t \in Task PROVE Paid(t)'
  BY DEF Budget
<1> Own /\ Types /\ Ownership /\ Paid(t)
  BY DEF Settling, Own, Budget
<1> Types' /\ Own'
  BY TypeStep, OwnStep DEF Own
<1>1. ASSUME NEW w \in Worker, Step(w) \/ Crash(w) \/ Restart(w), held[w] = t
      PROVE  Paid(t)'
  BY <1>1, PaidHeld
<1>2. ASSUME NEW w \in Worker, Step(w) \/ Crash(w) \/ Restart(w), held[w] # t,
             held'[w] # t, owner'[t] = owner[t], published'[t] = published[t]
      PROVE  Paid(t)'
  BY <1>2, OthersStay, PaidUntouched
<1>3. ASSUME NEW w \in Worker, NEW l, GoTo(w, l), held[w] # t
      PROVE  held'[w] # t
  BY <1>3, GoToEffect
<1>4. ASSUME NEW w \in Worker, ReadNew(w), held[w] # t PROVE Paid(t)'
  <2>1. ASSUME cursor < tail, NEW call \in Call, Deliver(w, cursor + 1, call) PROVE Paid(t)'
    <3>1. /\ cursor + 1 \in Task /\ cursor + 1 > cursor /\ Undelivered(cursor + 1)
          /\ \A v \in Worker : held[v] # cursor + 1
      <4>1. cursor + 1 \in Task /\ cursor \in Nat
        BY <2>1 DEF Types
      <4>2. \A v \in Worker : held[v] # NoTask => held[v] <= cursor /\ held[v] \in Nat
        BY DEF Types, Ownership, Holding
      <4>3. \A v \in Worker : held[v] # cursor + 1
        BY <4>1, <4>2
      <4> QED
        BY <4>1, <4>3 DEF Ownership
    <3> QED
      BY PaidDelivered, <1>4, <2>1, <3>1 DEF ReadNew, Step
  <2>2. CASE GoTo(w, "history") /\ UNCHANGED <<cursor, owner, count, faults>>
    BY <1>2, <1>3, <1>4, <2>2 DEF ReadNew, Step
  <2> QED
    BY <1>4, <2>1, <2>2 DEF ReadNew
<1>5. ASSUME NEW w \in Worker, ReadHistory(w), held[w] # t PROVE Paid(t)'
  <2>1. ASSUME NEW u \in Task, u \in Backlog(w), NEW call \in Call, Deliver(w, u, call)
        PROVE  Paid(t)'
    <3>1. owner[u] = Name(w) /\ owner[u] # NoOne
      <4>1. Name(w) \in Worker \X Nat
        BY DEF Name, Types
      <4> QED
        BY <2>1, <4>1 DEF Backlog
    <3>2. \A v \in Worker : held[v] # u
      BY <1>5, <3>1, Names, Locations DEF ReadHistory, Ownership, Holding
    <3>3. published' = published /\ Step(w)
      BY <1>5 DEF ReadHistory, Step
    <3> QED
      BY <1>5, <2>1, <3>1, <3>2, <3>3, PaidDelivered
  <2>2. CASE GoTo(w, "idle") /\ UNCHANGED <<owner, count, faults>>
    BY <1>2, <1>3, <1>5, <2>2 DEF ReadHistory, Step
  <2> QED
    BY <1>5, <2>1, <2>2 DEF ReadHistory, Backlog
<1>6. ASSUME NEW w \in Worker, NEW kind \in Kind, NEW call, Post(held[w], kind, call), NEW l,
             GoTo(w, l), pc[w] \in Busy, held[w] # t, owner' = owner, Step(w)
      PROVE  Paid(t)'
  <2>1. held[w] \in Task
    BY <1>6, HeldEntry
  <2>2. published'[t] = published[t]
    BY <1>6, <2>1 DEF Post, Types
  <2> QED
    BY <1>2, <1>3, <1>6, <2>2
<1>7. ASSUME NEW w \in Worker, Publish(w) \/ DeadLetter(w) \/ ReportError(w), held[w] # t
      PROVE  Paid(t)'
  <2>1. CASE Publish(w)
    BY <1>6, <1>7, <2>1, Locations DEF Publish, Step, stream, Kind
  <2>2. CASE DeadLetter(w)
    BY <1>6, <1>7, <2>2, Locations DEF DeadLetter, Step, stream, Kind
  <2>3. CASE ReportError(w)
    BY <1>6, <1>7, <2>3, Locations DEF ReportError, Step, stream, Kind
  <2> QED
    BY <1>7, <2>1, <2>2, <2>3
<1>8. ASSUME NEW w \in Worker, Ack(w) \/ AckDead(w), held[w] # t PROVE Paid(t)'
  <2>1. PICK call \in Call : Remove(held[w], call)
    BY <1>8 DEF Ack, AckDead
  <2>2. owner'[t] = owner[t] /\ published' = published
    BY <1>8, <2>1 DEF Ack, AckDead, Remove, Types
  <2>3. held'[w] # t
    BY <1>3, <1>8 DEF Ack, AckDead
  <2> QED
    BY <1>2, <1>8, <2>2, <2>3 DEF Step
<1>9. ASSUME NEW w \in Worker, Execute(w) \/ HandleFailure(w) \/ Crash(w) \/ Restart(w),
              held[w] # t
       PROVE  Paid(t)'
  <2>1. owner' = owner /\ published' = published
    BY <1>9 DEF Execute, HandleFailure, Crash, Restart, stream
  <2>2. held'[w] # t
    BY <1>3, <1>9 DEF Execute, HandleFailure, Crash, Restart
  <2> QED
    BY <1>2, <1>9, <2>1, <2>2 DEF Step
<1>10. CASE Submit \/ UNCHANGED vars
  BY <1>10, PaidUntouched DEF Submit, vars
<1> QED
  BY <1>1, <1>4, <1>5, <1>7, <1>8, <1>9, <1>10 DEF Next, Step

(* However often calls raise and processes crash, each such incident costs *)
(* a task at most one further reply and one further dead letter.           *)
THEOREM DuplicatesBounded == Spec => []DuplicatesPaidFor
<1>1. Init => Settling
  BY OwnInit DEF Init, Settling, Budget, Paid, Replies, Incidents, Kind
<1>2. Settling /\ [Next]_vars => Settling'
  BY TypeStep, OwnStep, BudgetStep DEF Settling, Own
<1>3. Settling => DuplicatesPaidFor
  BY DEF Settling, Budget, Paid, DuplicatesPaidFor
<1> QED
  BY <1>1, <1>2, <1>3, PTL DEF Spec, Safe

-----------------------------------------------------------------------------
(* The consumer implements TaskDelivery.                                   *)
phase == [t \in Task |-> PhaseOf(t)]
recorded == [t \in Task |-> {k \in Kind : published[t][k] > 0}]

(* Phases that stay, and phases of which one moves.                        *)
LEMMA PhaseStays ==
  ASSUME \A u \in Task : PhaseOf(u)' = PhaseOf(u) PROVE phase' = phase
  BY DEF phase

LEMMA PhaseMoves ==
  ASSUME NEW t \in Task, NEW to, PhaseOf(t)' = to,
         \A u \in Task : u # t => PhaseOf(u)' = PhaseOf(u)
  PROVE  phase' = [phase EXCEPT ![t] = to]
  BY DEF phase

LEMMA RecordedStays ==
  ASSUME published' = published PROVE recorded' = recorded
  BY DEF recorded

(* What a publication records.                                             *)
LEMMA RecordedGrows ==
  ASSUME Types, NEW t \in Task, NEW kind \in Kind, NEW call, Post(t, kind, call)
  PROVE  recorded' = IF Applied(call) THEN [recorded EXCEPT ![t] = @ \cup {kind}] ELSE recorded
<1>0. \A u \in Task, k \in Kind : published[u][k] \in Nat
  BY DEF Types
<1>1. \A u \in Task, k \in Kind :
        published'[u][k] = IF Applied(call) /\ u = t /\ k = kind
                           THEN published[u][k] + 1 ELSE published[u][k]
  BY PostEffect
<1>2. ASSUME NEW u \in Task
      PROVE  {k \in Kind : published'[u][k] > 0}
               = IF Applied(call) /\ u = t THEN {k \in Kind : published[u][k] > 0} \cup {kind}
                                           ELSE {k \in Kind : published[u][k] > 0}
  BY <1>0, <1>1
<1>3. CASE Applied(call)
  <2>1. [recorded EXCEPT ![t] = @ \cup {kind}]
          = [u \in Task |-> IF u = t THEN recorded[u] \cup {kind} ELSE recorded[u]]
    BY DEF recorded
  <2> QED
    BY <1>2, <1>3, <2>1 DEF recorded
<1>4. CASE ~Applied(call)
  BY <1>2, <1>4 DEF recorded
<1> QED
  BY <1>3, <1>4

AbstractStep ==
  \/ UNCHANGED <<phase, recorded>>
  \/ \E t \in Task :
       \/ phase[t] = "absent" /\ phase' = [phase EXCEPT ![t] = "queued"] /\ UNCHANGED recorded
       \/ phase[t] = "queued" /\ phase' = [phase EXCEPT ![t] = "leased"] /\ UNCHANGED recorded
       \/ \E k \in Kind : /\ phase[t] = "leased"
                          /\ recorded' = [recorded EXCEPT ![t] = @ \cup {k}]
                          /\ UNCHANGED phase
       \/ /\ recorded[t] # {}
          /\ phase[t] = "leased" /\ phase' = [phase EXCEPT ![t] = "settled"]
          /\ UNCHANGED recorded

LEMMA StepSimulation == Backed /\ [Next]_vars => AbstractStep
<1> SUFFICES ASSUME Backed, [Next]_vars PROVE AbstractStep
  OBVIOUS
<1> Own /\ Evidence /\ Types /\ Ownership
  BY DEF Backed, Own
<1>0. \A w \in Worker : Name(w) # NoOne
  <2>1. \A w \in Worker : Name(w) \in Worker \X Nat
    BY DEF Name, Types
  <2> QED
    BY <2>1
<1> /\ tail \in Nat /\ cursor \in Nat /\ cursor <= tail /\ tail <= NumTasks
    /\ DOMAIN owner = Task
  BY DEF Types
<1>1. CASE UNCHANGED <<tail, cursor, owner, published>>
  BY <1>1, PhaseStays, RecordedStays DEF PhaseOf, AbstractStep
<1>2. CASE Submit
  <2>1. PICK t \in Task : t = tail + 1
    BY <1>2 DEF Submit
  <2>2. PhaseOf(t) = "absent" /\ PhaseOf(t)' = "queued"
    BY <1>2, <2>1 DEF Submit, PhaseOf
  <2>3. \A u \in Task : u # t => PhaseOf(u)' = PhaseOf(u)
    BY <1>2, <2>1 DEF Submit, PhaseOf
  <2>4. phase[t] = "absent" /\ phase' = [phase EXCEPT ![t] = "queued"]
    BY <2>2, <2>3, PhaseMoves DEF phase
  <2> QED
    BY <1>2, <2>4, RecordedStays DEF Submit, AbstractStep
<1>3. ASSUME NEW w \in Worker, ReadNew(w) PROVE AbstractStep
  <2>1. published' = published /\ tail' = tail
    BY <1>3 DEF ReadNew
  <2>2. ASSUME cursor < tail, NEW call \in Call, Deliver(w, cursor + 1, call), Applied(call),
               cursor' = cursor + 1
        PROVE  AbstractStep
    <3>1. PICK t \in Task : t = cursor + 1
      BY <2>2
    <3>2. owner' = [owner EXCEPT ![t] = Name(w)]
      BY <2>2, <3>1 DEF Deliver
    <3>3. PhaseOf(t) = "queued" /\ PhaseOf(t)' = "leased"
      BY <1>0, <2>1, <2>2, <3>1, <3>2 DEF PhaseOf
    <3>4. \A u \in Task : u # t => PhaseOf(u)' = PhaseOf(u)
      BY <2>1, <2>2, <3>1, <3>2 DEF PhaseOf
    <3>5. phase[t] = "queued" /\ phase' = [phase EXCEPT ![t] = "leased"]
      BY <3>3, <3>4, PhaseMoves DEF phase
    <3> QED
      BY <2>1, <3>5, RecordedStays DEF AbstractStep
  <2>3. ASSUME NEW call, Deliver(w, cursor + 1, call), ~Applied(call), cursor' = cursor
        PROVE  AbstractStep
    BY <1>1, <2>1, <2>3 DEF Deliver
  <2> QED
    BY <1>1, <1>3, <2>1, <2>2, <2>3 DEF ReadNew
<1>4. ASSUME NEW w \in Worker, ReadHistory(w) PROVE AbstractStep
  <2>1. published' = published /\ tail' = tail /\ cursor' = cursor
    BY <1>4 DEF ReadHistory
  <2>2. ASSUME NEW t \in Task, t \in Backlog(w), NEW call \in Call, Deliver(w, t, call)
        PROVE  AbstractStep
    <3>1. \A u \in Task : owner[u] = NoOne <=> owner'[u] = NoOne
      BY <1>0, <2>2 DEF Deliver, Backlog, Types
    <3> QED
      BY <2>1, <3>1, PhaseStays, RecordedStays DEF PhaseOf, AbstractStep
  <2> QED
    BY <1>1, <1>4, <2>1, <2>2 DEF ReadHistory, Backlog
<1>5. ASSUME NEW w \in Worker, NEW kind \in Kind, NEW call, Post(held[w], kind, call),
             pc[w] \in Busy, pc[w] # "failed", UNCHANGED stream
      PROVE  AbstractStep
  <2>1. held[w] \in Task /\ phase[held[w]] = "leased"
    <3>1. held[w] \in Task /\ held[w] <= cursor /\ cursor <= tail /\ owner[held[w]] # NoOne
      BY <1>0, <1>5, HeldEntry DEF Ownership, Holding, Types
    <3>2. PhaseOf(held[w]) = "leased"
      BY <3>1 DEF PhaseOf, Types
    <3> QED
      BY <3>1, <3>2 DEF phase
  <2>2. phase' = phase
    BY <1>5, PhaseStays DEF stream, PhaseOf
  <2> QED
    BY <1>5, <2>1, <2>2, RecordedGrows DEF AbstractStep
<1>6. ASSUME NEW w \in Worker, Publish(w) \/ DeadLetter(w) \/ ReportError(w) PROVE AbstractStep
  <2>1. CASE Publish(w)
    BY <1>5, <2>1, Locations DEF Publish, Kind
  <2>2. CASE DeadLetter(w)
    BY <1>5, <2>2, Locations DEF DeadLetter, Kind
  <2>3. CASE ReportError(w)
    BY <1>5, <2>3, Locations DEF ReportError, Kind
  <2> QED
    BY <1>6, <2>1, <2>2, <2>3
<1>7. ASSUME NEW w \in Worker, Ack(w) \/ AckDead(w) PROVE AbstractStep
  <2>1. PICK call \in Call : Remove(held[w], call)
    BY <1>7 DEF Ack, AckDead
  <2>2. UNCHANGED <<tail, cursor, published>> /\ pc[w] \in {"ack", "ackDead"}
    BY <1>7 DEF Ack, AckDead
  <2>3. /\ held[w] \in Task /\ held[w] <= cursor /\ cursor <= tail
        /\ owner[held[w]] # NoOne
    BY <1>0, <2>2, HeldEntry, Locations DEF Ownership, Holding, Types
  <2>4. PICK t \in Task : t = held[w]
    BY <2>3
  <2>5. CASE Applied(call)
    <3>1. recorded[t] # {}
      <4>1. \E k \in Kind : published[t][k] > 0
        BY <2>2, <2>4, CountersAreNat DEF Evidence, Evident, Replies, Kind
      <4> QED
        BY <4>1 DEF recorded
    <3>2. PhaseOf(t) = "leased" /\ PhaseOf(t)' = "settled"
      BY <2>1, <2>2, <2>3, <2>4, <2>5 DEF Remove, PhaseOf
    <3>3. \A u \in Task : u # t => PhaseOf(u)' = PhaseOf(u)
      BY <2>1, <2>2, <2>4, <2>5 DEF Remove, PhaseOf
    <3>4. phase[t] = "leased" /\ phase' = [phase EXCEPT ![t] = "settled"]
      BY <3>2, <3>3, PhaseMoves DEF phase
    <3> QED
      BY <2>2, <3>1, <3>4, RecordedStays DEF AbstractStep
  <2>6. CASE ~Applied(call)
    BY <1>1, <2>1, <2>2, <2>6 DEF Remove
  <2> QED
    BY <2>5, <2>6
<1>8. ASSUME NEW w \in Worker, Execute(w) \/ HandleFailure(w) \/ Crash(w) \/ Restart(w)
      PROVE  AbstractStep
  BY <1>1, <1>8 DEF Execute, HandleFailure, Crash, Restart, stream
<1> QED
  BY <1>1, <1>2, <1>3, <1>4, <1>6, <1>7, <1>8 DEF Next, Step, vars

(* The Tier-3 consumer implements the at-least-once contract TaskDelivery. *)
THEOREM Implements == Spec => AtLeastOnce
<1>1. Init => Delivery!Init
  BY DEF Init, Delivery!Init, PhaseOf, Kind
<1>2. AbstractStep => [Delivery!Next]_Delivery!vars
  BY DEF AbstractStep, phase, recorded, Delivery!Next, Delivery!vars, Delivery!Submit,
         Delivery!Lease, Delivery!Record, Delivery!Settle, Delivery!Advance
<1>3. Init => Backed
  BY BackedInit
<1>4. Backed /\ [Next]_vars => Backed'
  BY TypeStep, OwnStep, EvidenceStep DEF Backed, Own
<1>5. Backed /\ [Next]_vars => [Delivery!Next]_Delivery!vars
  BY <1>2, StepSimulation
<1> QED
  BY <1>1, <1>3, <1>4, <1>5, PTL DEF Spec, Safe, AtLeastOnce, Delivery!Spec
=============================================================================
