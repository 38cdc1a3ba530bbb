------------------------ MODULE ChannelSequencerProofs ------------------------
(***************************************************************************)
(* What the channel sequencer guarantees about the emails it sends, for    *)
(* any finite set of workers, any requests and any mishaps.                *)
(***************************************************************************)
EXTENDS ChannelSequencer, FiniteSetTheorems, TLAPS

USE SequencerAssumption

-----------------------------------------------------------------------------
(* The type invariant by parts, with what it needs to be inductive: where  *)
(* a worker is in the list of steps, and that an attempt is only begun     *)
(* while the harness has one left.                                         *)
Elsewhere == {"down", "idle", "take"}
Handling(w) == pc[w] \notin Elsewhere
LocalOK ==
  /\ pc \in [Worker -> Location] /\ todo \in [Worker -> SUBSET Request]
  /\ cur \in [Worker -> Request \cup {None}]
  /\ attempt \in [Worker -> 0 .. HarnessRetries + 1]
  /\ reports \in [Worker -> Seq(Status)] /\ recorded \in [Worker -> Nat]
  /\ \A w \in Worker : /\ Handling(w) => cur[w] # None
                       /\ pc[w] \in {"dispatch", "send", "record"} => attempt[w] <= HarnessRetries
                       /\ cur[w] # None => Len(reports[w]) <= Len(Steps[cur[w]])
                       /\ pc[w] = "send" => Len(reports[w]) < Len(Steps[cur[w]])
QueueOK ==
  /\ entry \in [Request -> State] /\ owner \in [Request -> Worker \cup {None}]
  /\ tries \in [Request -> Nat]
Pending ==
  \A r \in Request : IF entry[r] = "pending" THEN owner[r] # None /\ pc[owner[r]] # "down"
                                             ELSE owner[r] = None

(* A counter for every step of every request.                              *)
Counters(f) ==
  f = [r \in Request |-> f[r]] /\ \A r \in Request : f[r] \in [DOMAIN Steps[r] -> Nat]
EffectsOK ==
  /\ Counters(sends) /\ Counters(records)
  /\ answers \in [Request -> SUBSET {"ok", "error"}] /\ throttled \subseteq Request
LimitOK == hour \in Nat /\ tickets \in Nat /\ sentNow \in Nat
ChargedOK == spent \in [Request -> Nat] /\ mishaps \in Nat

Types == LocalOK /\ QueueOK /\ Pending /\ EffectsOK /\ LimitOK /\ ChargedOK

LEMMA TypeParts == Types => TypeOK
BY DEF Types, TypeOK, LocalOK, QueueOK, Pending, EffectsOK, Counters, LimitOK, ChargedOK

LEMMA Locations ==
  /\ \A l \in Elsewhere : l \in Location
  /\ \A l \in {"dispatch", "send", "record", "report", "ack", "failed", "deadLetter", "ackDead"} :
       l \in Location /\ l \notin Elsewhere
  /\ \A l \in Location \ Elsewhere :
       l \in {"dispatch", "send", "record", "report", "ack", "failed", "deadLetter", "ackDead"}
BY DEF Location, Elsewhere

LEMMA StepsType ==
  \A r \in Request : /\ Steps[r] \in Seq(Kind) /\ Len(Steps[r]) \in Nat
                     /\ DOMAIN Steps[r] = 1 .. Len(Steps[r])
OBVIOUS

-----------------------------------------------------------------------------
(* What a worker's part of a step is: where it goes and what it then has.  *)
Moved(w, l, t, c, a, s, k) ==
  /\ pc' = [pc EXCEPT ![w] = l] /\ todo' = [todo EXCEPT ![w] = t] /\ cur' = [cur EXCEPT ![w] = c]
  /\ attempt' = [attempt EXCEPT ![w] = a] /\ reports' = [reports EXCEPT ![w] = s]
  /\ recorded' = [recorded EXCEPT ![w] = k]
Others(w) ==
  \A v \in Worker : v # w =>
    /\ pc'[v] = pc[v] /\ todo'[v] = todo[v] /\ cur'[v] = cur[v]
    /\ attempt'[v] = attempt[v] /\ reports'[v] = reports[v] /\ recorded'[v] = recorded[v]

LEMMA MovedEffect ==
  ASSUME LocalOK, NEW w \in Worker, NEW l, NEW t, NEW c, NEW a, NEW s, NEW k, Moved(w, l, t, c, a, s, k)
  PROVE  /\ pc'[w] = l /\ todo'[w] = t /\ cur'[w] = c
         /\ attempt'[w] = a /\ reports'[w] = s /\ recorded'[w] = k
         /\ Others(w)
BY DEF LocalOK, Moved, Others

LEMMA MovedType ==
  ASSUME LocalOK, NEW w \in Worker, NEW l \in Location, NEW t \in SUBSET Request,
         NEW c \in Request \cup {None}, NEW a \in 0 .. HarnessRetries + 1, NEW s \in Seq(Status),
         NEW k \in Nat, Moved(w, l, t, c, a, s, k),
         l \notin Elsewhere => c # None,
         l \in {"dispatch", "send", "record"} => a <= HarnessRetries,
         c # None => Len(s) <= Len(Steps[c]),
         l = "send" => Len(s) < Len(Steps[c])
  PROVE  LocalOK'
<1>1. pc' \in [Worker -> Location] /\ todo' \in [Worker -> SUBSET Request]
  BY DEF LocalOK, Moved
<1>2. cur' \in [Worker -> Request \cup {None}] /\ recorded' \in [Worker -> Nat]
  BY DEF LocalOK, Moved
<1>3. attempt' \in [Worker -> 0 .. HarnessRetries + 1] /\ reports' \in [Worker -> Seq(Status)]
  BY DEF LocalOK, Moved
<1>4. ASSUME NEW v \in Worker
      PROVE  /\ Handling(v)' => cur'[v] # None
             /\ pc'[v] \in {"dispatch", "send", "record"} => attempt'[v] <= HarnessRetries
             /\ cur'[v] # None => Len(reports'[v]) <= Len(Steps[cur'[v]])
             /\ pc'[v] = "send" => Len(reports'[v]) < Len(Steps[cur'[v]])
  <2>1. CASE v = w
    BY <2>1, MovedEffect DEF Handling
  <2>2. CASE v # w
    <3>1. /\ pc'[v] = pc[v] /\ cur'[v] = cur[v] /\ attempt'[v] = attempt[v] /\ reports'[v] = reports[v]
      BY <2>2, MovedEffect DEF Others
    <3>. QED BY <3>1 DEF LocalOK, Handling
  <2>. QED BY <2>1, <2>2
<1>. QED BY <1>1, <1>2, <1>3, <1>4 DEF LocalOK

(* The worker goes on with the request in hand.                            *)
Onward(w, l, a, s, k) == Moved(w, l, todo[w], cur[w], a, s, k)
Stays(w, l) == Onward(w, l, attempt[w], reports[w], recorded[w])
Reports(w, l, status) == Onward(w, l, attempt[w], Append(reports[w], status), recorded[w])
Retries(w) ==
  Onward(w, IF attempt[w] = HarnessRetries THEN "report" ELSE "dispatch",
         attempt[w] + 1, <<>>, recorded[w])
Leaves(w) == Moved(w, "down", {}, None, 0, <<>>, 0)

Count(f, r, i) == [f EXCEPT ![r][i] = @ + 1]
Pays(w) == spent' = [spent EXCEPT ![cur[w]] = @ + 1] /\ mishaps' = mishaps + 1
Free == UNCHANGED charged

LEMMA ChargeEffect ==
  ASSUME NEW w, NEW call, Charge(call, cur[w])
  PROVE  IF call = "ok" THEN Free ELSE Pays(w)
BY DEF Charge, Free, Pays, Mishap

LEMMA StaysMoved ==
  ASSUME LocalOK, NEW w \in Worker, NEW l, Goto(w, l), UNCHANGED <<todo, cur, progress>>
  PROVE  Stays(w, l)
BY DEF LocalOK, Goto, progress, Stays, Onward, Moved

LEMMA ReportsMoved ==
  ASSUME LocalOK, NEW w \in Worker, NEW l, pc' = [pc EXCEPT ![w] = l], NEW status, Report(w, status),
         UNCHANGED <<todo, cur, attempt, recorded>>
  PROVE  Reports(w, l, status)
BY DEF LocalOK, Report, Reports, Onward, Moved

LEMMA FailAttemptMoved ==
  ASSUME LocalOK, NEW w \in Worker, FailAttempt(w), UNCHANGED <<todo, cur, recorded>>
  PROVE  Retries(w)
BY DEF LocalOK, FailAttempt, Forget, Goto, Retries, Onward, Moved

LEMMA DieMoved ==
  ASSUME LocalOK, NEW w \in Worker, Die(w)
  PROVE  /\ Leaves(w)
         /\ entry' = [r \in Request |-> IF owner[r] = w THEN "stranded" ELSE entry[r]]
         /\ owner' = [r \in Request |-> IF owner[r] = w THEN None ELSE owner[r]]
BY DEF LocalOK, Die, Goto, Leaves, Moved

-----------------------------------------------------------------------------
(* The actions of a worker, flattened.                                     *)
LEMMA InHand ==
  ASSUME Types, NEW w \in Worker, Handling(w)
  PROVE  /\ cur[w] \in Request /\ reports[w] \in Seq(Status) /\ Len(reports[w]) \in Nat
         /\ attempt[w] \in 0 .. HarnessRetries + 1 /\ recorded[w] \in Nat
         /\ Len(reports[w]) <= Len(Steps[cur[w]]) /\ Steps[cur[w]] \in Seq(Kind)
         /\ pc[w] \in {"dispatch", "send", "record"} => attempt[w] <= HarnessRetries
         /\ pc[w] = "send" => Len(reports[w]) < Len(Steps[cur[w]])
<1>1. cur[w] \in Request
  BY DEF Types, LocalOK
<1>2. reports[w] \in Seq(Status) /\ attempt[w] \in 0 .. HarnessRetries + 1 /\ recorded[w] \in Nat
  BY DEF Types, LocalOK
<1>3. /\ Len(reports[w]) <= Len(Steps[cur[w]])
      /\ pc[w] \in {"dispatch", "send", "record"} => attempt[w] <= HarnessRetries
      /\ pc[w] = "send" => Len(reports[w]) < Len(Steps[cur[w]])
  BY <1>1 DEF Types, LocalOK
<1>4. Len(reports[w]) \in Nat
  BY <1>2
<1>5. Steps[cur[w]] \in Seq(Kind)
  BY <1>1
<1>. QED BY <1>1, <1>2, <1>3, <1>4, <1>5

LEMMA ReadMoves ==
  ASSUME Types, NEW w \in Worker, Read(w)
  PROVE  /\ pc[w] = "idle" /\ UNCHANGED <<effects, limit, charged>>
         /\ \E batch \in SUBSET Request :
              /\ Moved(w, "take", batch, cur[w], attempt[w], reports[w], recorded[w])
              /\ \A r \in batch : entry[r] = "new" \/ owner[r] = w
              /\ entry' = [r \in Request |-> IF r \in batch THEN "pending" ELSE entry[r]]
              /\ owner' = [r \in Request |-> IF r \in batch THEN w ELSE owner[r]]
              /\ tries' = [r \in Request |-> IF r \in batch THEN tries[r] + 1 ELSE tries[r]]
<1>. DEFINE batch == IF New # {} THEN New ELSE Backlog(w)
<1>1. batch \in SUBSET Request /\ \A r \in batch : entry[r] = "new" \/ owner[r] = w
  BY DEF New, Backlog
<1>2. /\ pc[w] = "idle" /\ UNCHANGED <<cur, progress, effects, limit, charged>> /\ Goto(w, "take")
      /\ todo' = [todo EXCEPT ![w] = batch]
      /\ entry' = [r \in Request |-> IF r \in batch THEN "pending" ELSE entry[r]]
      /\ owner' = [r \in Request |-> IF r \in batch THEN w ELSE owner[r]]
      /\ tries' = [r \in Request |-> IF r \in batch THEN tries[r] + 1 ELSE tries[r]]
  BY DEF Read
<1>. HIDE DEF batch
<1>3. Moved(w, "take", batch, cur[w], attempt[w], reports[w], recorded[w])
  BY <1>2 DEF Types, LocalOK, Goto, progress, Moved
<1>. QED BY <1>1, <1>2, <1>3

LEMMA TakeMoves ==
  ASSUME Types, NEW w \in Worker, Take(w)
  PROVE  /\ pc[w] = "take" /\ UNCHANGED <<queue, effects, limit, charged>>
         /\ \/ todo[w] = {} /\ Moved(w, "idle", {}, None, 0, <<>>, 0)
            \/ \E r \in todo[w] :
                 Moved(w, IF r \in Malformed THEN "failed" ELSE "dispatch", todo[w] \ {r}, r, 0, <<>>, 0)
<1>1. pc[w] = "take" /\ UNCHANGED <<queue, effects, limit, charged>>
  BY DEF Take
<1>2. CASE todo[w] = {}
  BY <1>1, <1>2 DEF Take, Types, LocalOK, Goto, Forget, Moved
<1>3. CASE todo[w] # {}
  <2>1. PICK r \in todo[w] : /\ todo' = [todo EXCEPT ![w] = @ \ {r}] /\ cur' = [cur EXCEPT ![w] = r]
                             /\ Goto(w, IF r \in Malformed THEN "failed" ELSE "dispatch")
    BY <1>3 DEF Take
  <2>2. Moved(w, IF r \in Malformed THEN "failed" ELSE "dispatch", todo[w] \ {r}, r, 0, <<>>, 0)
    BY <2>1 DEF Take, Types, LocalOK, Goto, Forget, Moved
  <2>. QED BY <1>1, <2>2
<1>. QED BY <1>2, <1>3

LEMMA PassOverMoves ==
  ASSUME Types, NEW w \in Worker, PassOver(w)
  PROVE  /\ pc[w] = "dispatch" /\ Len(reports[w]) < Len(Steps[cur[w]]) /\ StepOf(w) \in {"later", "held"}
         /\ UNCHANGED <<queue, effects, limit, charged>>
         /\ \E status \in {"scheduled", "blocked"} : Reports(w, "dispatch", status)
<1>. LocalOK
  BY DEF Types
<1>1. /\ pc[w] = "dispatch" /\ Upcoming(w) <= Len(Steps[cur[w]]) /\ StepOf(w) \in {"later", "held"}
      /\ UNCHANGED <<queue, loop, attempt, recorded, effects, limit, charged>>
      /\ Report(w, IF StepOf(w) = "later" THEN "scheduled" ELSE "blocked")
  BY DEF PassOver, Dispatching
<1>2. Len(reports[w]) < Len(Steps[cur[w]])
  <2>1. Handling(w)
    BY <1>1, Locations DEF Handling
  <2>. QED BY <1>1, <2>1, InHand DEF Upcoming
<1>3. pc' = [pc EXCEPT ![w] = "dispatch"]
  BY <1>1 DEF loop, LocalOK
<1>. QED BY <1>1, <1>2, <1>3, ReportsMoved DEF loop

LEMMA RefuseMoves ==
  ASSUME Types, NEW w \in Worker, Refuse(w)
  PROVE  /\ pc[w] = "dispatch" /\ Flawed(cur[w]) /\ Retries(w)
         /\ UNCHANGED <<queue, effects, limit, charged>>
<1>. LocalOK
  BY DEF Types
<1>1. /\ pc[w] = "dispatch" /\ Upcoming(w) <= Len(Steps[cur[w]]) /\ StepOf(w) = "flawed"
      /\ UNCHANGED <<queue, todo, cur, recorded, effects, limit, charged>> /\ FailAttempt(w)
  BY DEF Refuse, Dispatching
<1>2. Flawed(cur[w])
  <2>1. Handling(w)
    BY <1>1, Locations DEF Handling
  <2>2. cur[w] \in Request /\ Upcoming(w) \in DOMAIN Steps[cur[w]]
    BY <1>1, <2>1, InHand, StepsType DEF Upcoming
  <2>. QED BY <1>1, <2>2 DEF Flawed, StepOf
<1>. QED BY <1>1, <1>2, FailAttemptMoved

LEMMA ThrottleMoves ==
  ASSUME Types, NEW w \in Worker, Throttle(w)
  PROVE  /\ pc[w] = "dispatch" /\ Len(reports[w]) < Len(Steps[cur[w]]) /\ StepOf(w) = "email"
         /\ UNCHANGED <<queue, sends, records, answers, hour, sentNow>>
         /\ \/ MaxPerHour = 0 /\ Stays(w, "send") /\ Free /\ UNCHANGED <<throttled, tickets>>
            \/ /\ Retries(w) /\ Pays(w) /\ UNCHANGED throttled
               /\ tickets' = tickets \/ tickets' = tickets + 1
            \/ /\ Reports(w, "dispatch", "throttled") /\ throttled' = throttled \cup {cur[w]} /\ Free
               /\ tickets' = tickets + 1
            \/ /\ Stays(w, "send") /\ Free /\ UNCHANGED throttled
               /\ tickets' = tickets + 1 /\ ~OverLimit(tickets + 1)
<1>. LocalOK
  BY DEF Types
<1>1. /\ pc[w] = "dispatch" /\ Upcoming(w) <= Len(Steps[cur[w]]) /\ StepOf(w) = "email"
      /\ UNCHANGED <<queue, todo, cur, recorded, sends, records, answers, hour, sentNow>>
  BY DEF Throttle, Dispatching
<1>2. Len(reports[w]) < Len(Steps[cur[w]])
  <2>1. Handling(w)
    BY <1>1, Locations DEF Handling
  <2>. QED BY <1>1, <2>1, InHand DEF Upcoming
<1>3. CASE MaxPerHour = 0
  <2>1. Goto(w, "send") /\ UNCHANGED <<attempt, reports, throttled, tickets, charged>>
    BY <1>3 DEF Throttle
  <2>2. Stays(w, "send")
    BY <1>1, <2>1, StaysMoved DEF progress
  <2>. QED BY <1>1, <1>2, <1>3, <2>1, <2>2 DEF Free
<1>4. CASE MaxPerHour # 0
  <2>1. PICK call \in Call :
          /\ Charge(call, cur[w])
          /\ tickets' = IF Applied(call) THEN tickets + 1 ELSE tickets
          /\ IF call # "ok" THEN FailAttempt(w) /\ UNCHANGED throttled
             ELSE IF OverLimit(tickets + 1)
             THEN Report(w, "throttled") /\ throttled' = throttled \cup {cur[w]} /\ UNCHANGED <<pc, attempt>>
             ELSE Goto(w, "send") /\ UNCHANGED <<attempt, reports, throttled>>
    BY <1>4 DEF Throttle
  <2>2. CASE call # "ok"
    <3>1. Retries(w) /\ Pays(w)
      BY <1>1, <2>1, <2>2, FailAttemptMoved, ChargeEffect
    <3>. QED BY <1>1, <1>2, <2>1, <2>2, <3>1
  <2>3. CASE call = "ok" /\ OverLimit(tickets + 1)
    <3>1. pc' = [pc EXCEPT ![w] = "dispatch"]
      BY <1>1, <2>1, <2>3 DEF LocalOK
    <3>2. Reports(w, "dispatch", "throttled") /\ Free
      BY <1>1, <2>1, <2>3, <3>1, ReportsMoved, ChargeEffect
    <3>. QED BY <1>1, <1>2, <2>1, <2>3, <3>2 DEF Applied
  <2>4. CASE call = "ok" /\ ~OverLimit(tickets + 1)
    <3>1. Stays(w, "send") /\ Free
      BY <1>1, <2>1, <2>4, StaysMoved, ChargeEffect DEF progress
    <3>. QED BY <1>1, <1>2, <2>1, <2>4, <3>1 DEF Applied
  <2>. QED BY <2>2, <2>3, <2>4
<1>. QED BY <1>3, <1>4

LEMMA SendMoves ==
  ASSUME Types, NEW w \in Worker, Send(w)
  PROVE  /\ pc[w] = "send" \/ (pc[w] = "dispatch" /\ StepOf(w) = "webhook")
         /\ Len(reports[w]) < Len(Steps[cur[w]])
         /\ UNCHANGED <<queue, records, answers, throttled, hour, tickets>>
         /\ sentNow' = sentNow \/ (sentNow' = sentNow + 1 /\ StepOf(w) = "email")
         /\ \/ /\ sends' = Count(sends, cur[w], Upcoming(w))
               /\ Reports(w, "dispatch", "sent") /\ Free
            \/ /\ sends' = sends \/ sends' = Count(sends, cur[w], Upcoming(w))
               /\ Reports(w, "dispatch", "error") /\ Pays(w)
<1>. LocalOK
  BY DEF Types
<1>1. PICK call \in Call :
        /\ Charge(call, cur[w])
        /\ sends' = CountIf(Applied(call), sends, cur[w], Upcoming(w))
        /\ sentNow' = IF Applied(call) /\ StepOf(w) = "email" THEN sentNow + 1 ELSE sentNow
        /\ Report(w, IF call = "ok" THEN "sent" ELSE "error")
  BY DEF Send
<1>2. /\ pc[w] = "send" \/ (pc[w] = "dispatch" /\ Upcoming(w) <= Len(Steps[cur[w]]) /\ StepOf(w) = "webhook")
      /\ pc' = [pc EXCEPT ![w] = "dispatch"]
      /\ UNCHANGED <<queue, todo, cur, attempt, recorded, records, answers, throttled, hour, tickets>>
  BY DEF Send, Dispatching, Goto
<1>3. Len(reports[w]) < Len(Steps[cur[w]])
  <2>1. Handling(w)
    BY <1>2, Locations DEF Handling
  <2>. QED BY <1>2, <2>1, InHand DEF Upcoming
<1>4. sends' = IF Applied(call) THEN Count(sends, cur[w], Upcoming(w)) ELSE sends
  BY <1>1 DEF CountIf, Count
<1>5. CASE call = "ok"
  <2>1. Reports(w, "dispatch", "sent") /\ Free
    BY <1>1, <1>2, <1>5, ReportsMoved, ChargeEffect
  <2>2. sends' = Count(sends, cur[w], Upcoming(w))
    BY <1>4, <1>5 DEF Applied
  <2>. QED BY <1>1, <1>2, <1>3, <2>1, <2>2
<1>6. CASE call # "ok"
  <2>1. Reports(w, "dispatch", "error") /\ Pays(w)
    BY <1>1, <1>2, <1>6, ReportsMoved, ChargeEffect
  <2>. QED BY <1>1, <1>2, <1>3, <1>4, <2>1
<1>. QED BY <1>5, <1>6

LEMMA ConcludeMoves ==
  ASSUME Types, NEW w \in Worker, Conclude(w)
  PROVE  /\ pc[w] = "dispatch" /\ Len(reports[w]) = Len(Steps[cur[w]])
         /\ UNCHANGED <<queue, effects, limit, charged>>
         /\ \/ (\E i \in DOMAIN reports[w] : reports[w][i] = "error") /\ Retries(w)
            \/ (\A i \in DOMAIN reports[w] : reports[w][i] # "error") /\ Stays(w, "record")
<1>. LocalOK
  BY DEF Types
<1>1. /\ pc[w] = "dispatch" /\ Upcoming(w) > Len(Steps[cur[w]])
      /\ UNCHANGED <<queue, todo, cur, recorded, effects, limit, charged>>
      /\ \/ (\E i \in DOMAIN reports[w] : reports[w][i] = "error") /\ FailAttempt(w)
         \/ /\ \A i \in DOMAIN reports[w] : reports[w][i] # "error"
            /\ Goto(w, "record") /\ UNCHANGED <<attempt, reports>>
  BY DEF Conclude, Failed
<1>2. Len(reports[w]) = Len(Steps[cur[w]])
  <2>1. Handling(w)
    BY <1>1, Locations DEF Handling
  <2>. QED BY <1>1, <2>1, InHand DEF Upcoming
<1>. QED BY <1>1, <1>2, FailAttemptMoved, StaysMoved DEF progress

LEMMA RecordMoves ==
  ASSUME Types, NEW w \in Worker, Record(w)
  PROVE  /\ pc[w] = "record" /\ UNCHANGED <<queue, sends, answers, throttled, limit>>
         /\ \/ (Due(w) = {} \/ cur[w] \in Leadless) /\ Stays(w, "report") /\ UNCHANGED records /\ Free
            \/ \E i \in Due(w) :
                 /\ \A k \in Due(w) : i <= k
                 /\ Onward(w, "record", attempt[w], reports[w], i)
                 /\ \/ records' = Count(records, cur[w], i) /\ Free
                    \/ (records' = records \/ records' = Count(records, cur[w], i)) /\ Pays(w)
<1>. LocalOK
  BY DEF Types
<1>1. /\ pc[w] = "record" /\ UNCHANGED <<queue, sends, answers, throttled, limit>>
      /\ UNCHANGED <<todo, cur, attempt, reports>>
  BY DEF Record
<1>2. CASE Due(w) = {} \/ cur[w] \in Leadless
  <2>1. Goto(w, "report") /\ UNCHANGED <<recorded, records, charged>>
    BY <1>2 DEF Record
  <2>. QED BY <1>1, <1>2, <2>1, StaysMoved DEF Free, progress
<1>3. CASE ~(Due(w) = {} \/ cur[w] \in Leadless)
  <2>1. PICK i \in Due(w), call \in Call :
          /\ \A k \in Due(w) : i <= k
          /\ Charge(call, cur[w])
          /\ records' = CountIf(Applied(call), records, cur[w], i)
          /\ recorded' = [recorded EXCEPT ![w] = i]
          /\ UNCHANGED pc
    BY <1>3 DEF Record
  <2>2. Onward(w, "record", attempt[w], reports[w], i)
    BY <1>1, <2>1 DEF LocalOK, Onward, Moved
  <2>3. records' = IF Applied(call) THEN Count(records, cur[w], i) ELSE records
    BY <2>1 DEF CountIf, Count
  <2>4. \/ records' = Count(records, cur[w], i) /\ Free
        \/ (records' = records \/ records' = Count(records, cur[w], i)) /\ Pays(w)
    <3>1. CASE call = "ok"
      BY <2>1, <2>3, <3>1, ChargeEffect DEF Applied
    <3>2. CASE call # "ok"
      BY <2>1, <2>3, <3>2, ChargeEffect
    <3>. QED BY <3>1, <3>2
  <2>. QED BY <1>1, <2>1, <2>2, <2>4
<1>. QED BY <1>2, <1>3

LEMMA AnswerMoves ==
  ASSUME Types, NEW w \in Worker, Answer(w)
  PROVE  /\ pc[w] = "report" /\ UNCHANGED <<queue, sends, records, throttled, limit>>
         /\ \/ answers' = answers
            \/ answers' = [answers EXCEPT ![cur[w]] = @ \cup {Outcome(w)}]
         /\ \/ Stays(w, "ack") /\ Free
            \/ Stays(w, "failed") /\ Pays(w)
<1>. LocalOK
  BY DEF Types
<1>1. /\ pc[w] = "report" /\ UNCHANGED <<queue, sends, records, throttled, limit>>
      /\ UNCHANGED <<todo, cur, progress>>
  BY DEF Answer
<1>2. PICK call \in Call :
        /\ Charge(call, cur[w])
        /\ answers' = IF Applied(call) THEN [answers EXCEPT ![cur[w]] = @ \cup {Outcome(w)}] ELSE answers
        /\ Goto(w, IF call = "ok" THEN "ack" ELSE "failed")
  BY DEF Answer
<1>3. CASE call = "ok"
  <2>1. Stays(w, "ack") /\ Free
    BY <1>1, <1>2, <1>3, StaysMoved, ChargeEffect
  <2>. QED BY <1>1, <1>2, <2>1
<1>4. CASE call # "ok"
  <2>1. Stays(w, "failed") /\ Pays(w)
    BY <1>1, <1>2, <1>4, StaysMoved, ChargeEffect
  <2>. QED BY <1>1, <1>2, <2>1
<1>. QED BY <1>3, <1>4

LEMMA AckMoves ==
  ASSUME Types, NEW w \in Worker, Ack(w)
  PROVE  /\ pc[w] = "ack" /\ UNCHANGED <<tries, effects, limit>>
         /\ \/ Settle(cur[w], "done") /\ Stays(w, "take") /\ Free
            \/ (Settle(cur[w], "done") \/ UNCHANGED <<entry, owner>>) /\ Stays(w, "failed") /\ Pays(w)
<1>. LocalOK
  BY DEF Types
<1>1. pc[w] = "ack" /\ UNCHANGED <<tries, effects, limit>> /\ UNCHANGED <<todo, cur, progress>>
  BY DEF Ack
<1>2. PICK call \in Call :
        /\ Charge(call, cur[w])
        /\ IF Applied(call) THEN Settle(cur[w], "done") ELSE UNCHANGED <<entry, owner>>
        /\ Goto(w, IF call = "ok" THEN "take" ELSE "failed")
  BY DEF Ack
<1>3. CASE call = "ok"
  <2>1. Stays(w, "take") /\ Free /\ Settle(cur[w], "done")
    BY <1>1, <1>2, <1>3, StaysMoved, ChargeEffect DEF Applied
  <2>. QED BY <1>1, <2>1
<1>4. CASE call # "ok"
  <2>1. Stays(w, "failed") /\ Pays(w)
    BY <1>1, <1>2, <1>4, StaysMoved, ChargeEffect
  <2>2. Settle(cur[w], "done") \/ UNCHANGED <<entry, owner>>
    BY <1>2
  <2>. QED BY <1>1, <2>1, <2>2
<1>. QED BY <1>3, <1>4

LEMMA GiveUpMoves ==
  ASSUME Types, NEW w \in Worker, HandleFailure(w) \/ DeadLetter(w) \/ AckDead(w)
  PROVE  /\ pc[w] \in {"failed", "deadLetter", "ackDead"} /\ UNCHANGED <<tries, effects, limit>>
         /\ Free \/ Pays(w)
         /\ \/ Die(w)
            \/ Stays(w, "take") /\ UNCHANGED <<entry, owner>> /\ pc[w] = "failed"
            \/ Stays(w, "deadLetter") /\ UNCHANGED <<entry, owner>> /\ owner[cur[w]] = w
            \/ Stays(w, "ackDead") /\ UNCHANGED <<entry, owner>> /\ pc[w] = "deadLetter"
            \/ Stays(w, "take") /\ Settle(cur[w], "dead") /\ pc[w] = "ackDead"
<1>. LocalOK
  BY DEF Types
<1>1. pc[w] \in {"failed", "deadLetter", "ackDead"} /\ UNCHANGED <<tries, effects, limit>>
  BY DEF HandleFailure, DeadLetter, AckDead
<1>2. Free \/ Pays(w)
  <2>1. (\E call : Charge(call, cur[w])) \/ UNCHANGED charged
    BY DEF HandleFailure, DeadLetter, AckDead
  <2>. QED BY <2>1, ChargeEffect DEF Free
<1>3. CASE HandleFailure(w)
  <2>1. \/ Die(w)
        \/ /\ Goto(w, "take") \/ (Goto(w, "deadLetter") /\ owner[cur[w]] = w)
           /\ UNCHANGED <<entry, owner, todo, cur, progress>>
    BY <1>3 DEF HandleFailure
  <2>2. pc[w] = "failed"
    BY <1>3 DEF HandleFailure
  <2>. QED BY <1>1, <1>2, <2>1, <2>2, StaysMoved
<1>4. CASE DeadLetter(w)
  <2>1. \/ Die(w)
        \/ Goto(w, "ackDead") /\ UNCHANGED <<entry, owner, todo, cur, progress>>
    BY <1>4 DEF DeadLetter
  <2>2. pc[w] = "deadLetter"
    BY <1>4 DEF DeadLetter
  <2>. QED BY <1>1, <1>2, <2>1, <2>2, StaysMoved
<1>5. CASE AckDead(w)
  <2>1. \/ Die(w)
        \/ Goto(w, "take") /\ Settle(cur[w], "dead") /\ UNCHANGED <<todo, cur, progress>>
    BY <1>5 DEF AckDead
  <2>2. pc[w] = "ackDead"
    BY <1>5 DEF AckDead
  <2>. QED BY <1>1, <1>2, <2>1, <2>2, StaysMoved
<1>. QED BY <1>3, <1>4, <1>5

LEMMA CrashMoves ==
  ASSUME Types, NEW w \in Worker, Crash(w)
  PROVE  /\ Die(w) /\ UNCHANGED <<tries, effects, limit>> /\ mishaps' = mishaps + 1
         /\ (cur[w] = None /\ UNCHANGED spent) \/ (cur[w] # None /\ Pays(w))
BY DEF Crash, Mishap, Pays

LEMMA RestartMoves ==
  ASSUME Types, NEW w \in Worker, Restart(w)
  PROVE  pc[w] = "down" /\ Stays(w, "idle") /\ UNCHANGED <<queue, effects, limit, charged>>
<1>. LocalOK
  BY DEF Types
<1>1. pc[w] = "down" /\ Goto(w, "idle") /\ UNCHANGED <<todo, cur, progress>>
      /\ UNCHANGED <<queue, effects, limit, charged>>
  BY DEF Restart
<1>. QED BY <1>1, StaysMoved

-----------------------------------------------------------------------------
(* What the parts of a step do to the types.                               *)
LEMMA AppendType ==
  ASSUME NEW S, NEW s \in Seq(S), NEW x \in S
  PROVE  /\ Append(s, x) \in Seq(S) /\ Len(s) \in Nat /\ Len(Append(s, x)) = Len(s) + 1
         /\ DOMAIN s = 1 .. Len(s) /\ DOMAIN Append(s, x) = 1 .. Len(s) + 1
         /\ Append(s, x)[Len(s) + 1] = x
         /\ \A i \in 1 .. Len(s) : Append(s, x)[i] = s[i]
OBVIOUS

LEMMA OnwardType ==
  ASSUME Types, NEW w \in Worker, Handling(w), NEW l \in Location, NEW a \in 0 .. HarnessRetries + 1,
         NEW s \in Seq(Status), NEW k \in Nat, Onward(w, l, a, s, k),
         l \in {"dispatch", "send", "record"} => a <= HarnessRetries,
         Len(s) <= Len(Steps[cur[w]]),
         l = "send" => Len(s) < Len(Steps[cur[w]])
  PROVE  LocalOK' /\ pc'[w] = l /\ Others(w)
<1>. LocalOK
  BY DEF Types
<1>1. cur[w] \in Request /\ todo[w] \in SUBSET Request /\ cur[w] # None
  BY InHand DEF LocalOK
<1>. QED BY <1>1, MovedEffect, MovedType DEF Onward

LEMMA StaysType ==
  ASSUME Types, NEW w \in Worker, Handling(w), NEW l \in Location, Stays(w, l),
         l \in {"dispatch", "send", "record"} => pc[w] \in {"dispatch", "send", "record"},
         l = "send" => Len(reports[w]) < Len(Steps[cur[w]])
  PROVE  LocalOK' /\ pc'[w] = l /\ Others(w)
BY InHand, OnwardType DEF Stays

LEMMA ReportsType ==
  ASSUME Types, NEW w \in Worker, pc[w] \in {"dispatch", "send"}, Len(reports[w]) < Len(Steps[cur[w]]),
         NEW status \in Status, Reports(w, "dispatch", status)
  PROVE  LocalOK' /\ pc'[w] = "dispatch" /\ Others(w)
<1>1. Handling(w)
  BY Locations DEF Handling
<1>2. Append(reports[w], status) \in Seq(Status) /\ Len(Append(reports[w], status)) = Len(reports[w]) + 1
  BY <1>1, InHand, AppendType
<1>3. Len(Append(reports[w], status)) <= Len(Steps[cur[w]])
  BY <1>1, <1>2, InHand, StepsType
<1>4. "dispatch" \in Location
  BY Locations
<1>. QED BY <1>1, <1>2, <1>3, <1>4, InHand, OnwardType DEF Reports

LEMMA RetriesType ==
  ASSUME Types, NEW w \in Worker, pc[w] = "dispatch", Retries(w)
  PROVE  LocalOK' /\ pc'[w] \in {"report", "dispatch"} /\ Others(w)
<1>1. Handling(w)
  BY Locations DEF Handling
<1>. DEFINE l == IF attempt[w] = HarnessRetries THEN "report" ELSE "dispatch"
<1>2. attempt[w] \in 0 .. HarnessRetries /\ recorded[w] \in Nat
  BY <1>1, InHand
<1>3. attempt[w] + 1 \in 0 .. HarnessRetries + 1
      /\ (l \in {"dispatch", "send", "record"} => attempt[w] + 1 <= HarnessRetries)
  BY <1>2
<1>4. <<>> \in Seq(Status) /\ Len(<<>>) = 0
  OBVIOUS
<1>5. l \in Location /\ l \in {"report", "dispatch"} /\ l # "send"
  BY Locations
<1>6. 0 <= Len(Steps[cur[w]])
  BY <1>1, InHand, StepsType
<1>7. Onward(w, l, attempt[w] + 1, <<>>, recorded[w])
  BY DEF Retries
<1>. HIDE DEF l
<1>. QED BY <1>1, <1>2, <1>3, <1>4, <1>5, <1>6, <1>7, OnwardType

LEMMA LeavesType ==
  ASSUME Types, NEW w \in Worker, Leaves(w)
  PROVE  LocalOK' /\ pc'[w] = "down" /\ Others(w)
<1>. LocalOK
  BY DEF Types
<1>1. <<>> \in Seq(Status) /\ "down" \in Location /\ "down" \in Elsewhere
  BY Locations DEF Elsewhere
<1>2. 0 \in 0 .. HarnessRetries + 1 /\ 0 \in Nat /\ {} \in SUBSET Request /\ None \in Request \cup {None}
  OBVIOUS
<1>3. Moved(w, "down", {}, None, 0, <<>>, 0)
  BY DEF Leaves
<1>4. LocalOK'
  BY <1>1, <1>2, <1>3, MovedType
<1>5. pc'[w] = "down" /\ Others(w)
  BY <1>3, MovedEffect
<1>. QED BY <1>4, <1>5

LEMMA RestsType ==
  ASSUME Types, NEW w \in Worker, Moved(w, "idle", {}, None, 0, <<>>, 0)
  PROVE  LocalOK'
<1>. LocalOK
  BY DEF Types
<1>1. <<>> \in Seq(Status) /\ "idle" \in Location /\ "idle" \in Elsewhere
  BY Locations DEF Elsewhere
<1>2. 0 \in 0 .. HarnessRetries + 1 /\ 0 \in Nat /\ {} \in SUBSET Request /\ None \in Request \cup {None}
  OBVIOUS
<1>. QED BY <1>1, <1>2, MovedType

LEMMA QueueKept ==
  ASSUME Types, NEW w \in Worker, Others(w), pc'[w] # "down", UNCHANGED queue
  PROVE  QueueOK' /\ Pending'
<1>1. QueueOK'
  BY DEF Types, QueueOK, queue
<1>2. \A v \in Worker : pc[v] # "down" => pc'[v] # "down"
  BY DEF Others
<1>3. \A r \in Request : owner[r] \in Worker \cup {None} /\ owner'[r] = owner[r] /\ entry'[r] = entry[r]
  BY DEF Types, QueueOK, queue
<1>4. Pending'
  BY <1>2, <1>3 DEF Types, Pending
<1>. QED BY <1>1, <1>4

LEMMA QueueSettled ==
  ASSUME Types, NEW w \in Worker, Others(w), pc'[w] # "down", UNCHANGED tries,
         NEW r \in Request, NEW state \in {"done", "dead"}, Settle(r, state)
  PROVE  QueueOK' /\ Pending'
<1>1. QueueOK'
  BY DEF Types, QueueOK, Settle, State
<1>2. \A v \in Worker : pc[v] # "down" => pc'[v] # "down"
  BY DEF Others
<1>3. \A q \in Request : q # r => owner[q] \in Worker \cup {None} /\ owner'[q] = owner[q] /\ entry'[q] = entry[q]
  BY DEF Types, QueueOK, Settle
<1>4. entry'[r] = state /\ owner'[r] = None
  BY DEF Types, QueueOK, Settle
<1>5. Pending'
  BY <1>2, <1>3, <1>4 DEF Types, Pending
<1>. QED BY <1>1, <1>5

LEMMA QueueLeft ==
  ASSUME Types, NEW w \in Worker, Die(w), UNCHANGED tries
  PROVE  QueueOK' /\ Pending' /\ LocalOK' /\ Others(w) /\ pc'[w] = "down"
<1>. LocalOK
  BY DEF Types
<1>1. /\ Leaves(w)
      /\ entry' = [r \in Request |-> IF owner[r] = w THEN "stranded" ELSE entry[r]]
      /\ owner' = [r \in Request |-> IF owner[r] = w THEN None ELSE owner[r]]
  BY DieMoved
<1>2. LocalOK' /\ Others(w) /\ pc'[w] = "down"
  BY <1>1, LeavesType
<1>3. QueueOK'
  BY <1>1 DEF Types, QueueOK, State
<1>4. \A v \in Worker : v # w => pc'[v] = pc[v]
  BY <1>2 DEF Others
<1>5. ASSUME NEW r \in Request
      PROVE  IF entry'[r] = "pending" THEN owner'[r] # None /\ pc'[owner'[r]] # "down" ELSE owner'[r] = None
  <2>1. owner[r] \in Worker \cup {None}
    BY DEF Types, QueueOK
  <2>2. entry'[r] = (IF owner[r] = w THEN "stranded" ELSE entry[r])
        /\ owner'[r] = (IF owner[r] = w THEN None ELSE owner[r])
    BY <1>1
  <2>. QED BY <1>4, <2>1, <2>2 DEF Types, Pending
<1>6. Pending'
  BY <1>5 DEF Pending
<1>. QED BY <1>2, <1>3, <1>6

(* g counts what f counts and, perhaps, once more at one place.            *)
Bumped(f, g, r, i) ==
  /\ \A q \in Request : \A j \in DOMAIN Steps[q] : f[q][j] \in Nat /\ g[q][j] \in Nat
  /\ \A q \in Request : \A j \in DOMAIN Steps[q] : q # r \/ j # i => g[q][j] = f[q][j]
  /\ g[r][i] = f[r][i] \/ g[r][i] = f[r][i] + 1
  /\ g = Count(f, r, i) => g[r][i] = f[r][i] + 1

LEMMA Counted ==
  ASSUME NEW f, Counters(f), NEW r \in Request, NEW i \in DOMAIN Steps[r], NEW g,
         g = f \/ g = Count(f, r, i)
  PROVE  Counters(g) /\ Bumped(f, g, r, i)
<1>1. \A q \in Request : \A j \in DOMAIN Steps[q] : f[q][j] \in Nat
  BY DEF Counters
<1>. DEFINE c == Count(f, r, i)
<1>2. c = [f EXCEPT ![r] = [f[r] EXCEPT ![i] = f[r][i] + 1]]
  BY DEF Count
<1>3. f[r] \in [DOMAIN Steps[r] -> Nat] /\ f[r][i] \in Nat
  BY <1>1 DEF Counters
<1>4. /\ c = [q \in Request |-> c[q]]
      /\ c[r] = [f[r] EXCEPT ![i] = f[r][i] + 1]
      /\ \A q \in Request : q # r => c[q] = f[q]
  BY <1>2 DEF Counters
<1>5. c[r] \in [DOMAIN Steps[r] -> Nat] /\ c[r][i] = f[r][i] + 1
      /\ \A j \in DOMAIN Steps[r] : j # i => c[r][j] = f[r][j]
  <2>. DEFINE h == f[r]
  <2>1. h \in [DOMAIN Steps[r] -> Nat] /\ h[i] \in Nat /\ c[r] = [h EXCEPT ![i] = h[i] + 1]
    BY <1>3, <1>4
  <2>. HIDE DEF h
  <2>2. /\ c[r] \in [DOMAIN Steps[r] -> Nat] /\ c[r][i] = h[i] + 1
        /\ \A j \in DOMAIN Steps[r] : j # i => c[r][j] = h[j]
    BY <2>1
  <2>. QED BY <2>2 DEF h
<1>. HIDE DEF c
<1>6. Counters(c)
  BY <1>4, <1>5 DEF Counters
<1>7. \A q \in Request : \A j \in DOMAIN Steps[q] : c[q][j] \in Nat
  BY <1>6 DEF Counters
<1>8. CASE g = c
  <2>1. \A q \in Request : \A j \in DOMAIN Steps[q] : q # r \/ j # i => g[q][j] = f[q][j]
    BY <1>4, <1>5, <1>8
  <2>. QED BY <1>1, <1>5, <1>6, <1>7, <1>8, <2>1 DEF c, Bumped
<1>9. CASE g = f /\ g # c
  BY <1>1, <1>9 DEF c, Bumped
<1>. QED BY <1>8, <1>9 DEF c

LEMMA PaysType ==
  ASSUME Types, NEW w \in Worker, Free \/ (Pays(w) /\ cur[w] \in Request)
  PROVE  /\ ChargedOK'
         /\ Free => spent' = spent
         /\ Pays(w) => /\ \A r \in Request : spent'[r] = IF r = cur[w] THEN spent[r] + 1 ELSE spent[r]
BY DEF Types, ChargedOK, Free, Pays, charged

LEMMA InitTypes == Init => Types
<1>. SUFFICES ASSUME Init PROVE Types
  OBVIOUS
<1>1. LocalOK
  <2>1. "idle" \in Location /\ "idle" \in Elsewhere /\ <<>> \in Seq(Status)
    BY Locations DEF Elsewhere
  <2>2. 0 \in 0 .. HarnessRetries + 1
    OBVIOUS
  <2>. QED BY <2>1, <2>2 DEF Init, LocalOK, Handling
<1>2. QueueOK /\ Pending
  BY DEF Init, QueueOK, State, Pending
<1>3. EffectsOK
  BY DEF Init, Zeros, EffectsOK, Counters
<1>4. LimitOK /\ ChargedOK
  BY DEF Init, LimitOK, ChargedOK
<1>. QED BY <1>1, <1>2, <1>3, <1>4 DEF Types

LEMMA StepTypes ==
  ASSUME Types, [Next]_vars
  PROVE  Types'
<1>. LocalOK /\ QueueOK /\ Pending /\ EffectsOK /\ LimitOK /\ ChargedOK
  BY DEF Types
<1>a. /\ UNCHANGED effects => EffectsOK'
      /\ UNCHANGED limit => LimitOK'
      /\ UNCHANGED charged => ChargedOK'
      /\ UNCHANGED queue /\ UNCHANGED pc => QueueOK' /\ Pending'
      /\ UNCHANGED <<loop, progress>> => LocalOK'
  BY DEF EffectsOK, Counters, effects, LimitOK, limit, ChargedOK, charged, QueueOK, Pending, queue,
         LocalOK, loop, progress, Handling
<1>b. \A l \in {"dispatch", "send", "record", "report", "ack", "failed", "deadLetter", "ackDead"} :
        l \in Location /\ l # "down"
  BY Locations DEF Elsewhere
<1>c. \A w \in Worker : pc[w] \in {"dispatch", "send", "record", "report", "ack", "failed", "deadLetter", "ackDead"}
        => Handling(w) /\ cur[w] \in Request
  BY Locations, InHand DEF Handling
<1>d. \A w \in Worker : Handling(w) /\ (Free \/ Pays(w)) => ChargedOK'
  BY InHand, PaysType
<1>e. ASSUME NEW w \in Worker, Handling(w), NEW l \in Location \ {"down"}, Stays(w, l), UNCHANGED queue,
             l \in {"dispatch", "send", "record"} => pc[w] \in {"dispatch", "send", "record"},
             l = "send" => Len(reports[w]) < Len(Steps[cur[w]])
      PROVE  LocalOK' /\ QueueOK' /\ Pending'
  BY <1>e, StaysType, QueueKept
<1>f. ASSUME NEW w \in Worker, pc[w] \in {"dispatch", "send"}, Len(reports[w]) < Len(Steps[cur[w]]),
             NEW status \in Status, Reports(w, "dispatch", status), UNCHANGED queue
      PROVE  LocalOK' /\ QueueOK' /\ Pending'
  BY <1>f, ReportsType, QueueKept
<1>g. ASSUME NEW w \in Worker, pc[w] = "dispatch", Retries(w), UNCHANGED queue
      PROVE  LocalOK' /\ QueueOK' /\ Pending'
  BY <1>g, RetriesType, QueueKept
<1>1. CASE UNCHANGED vars
  BY <1>1, <1>a DEF Types, vars, loop
<1>2. ASSUME NEW r \in Request, Submit(r)
      PROVE  Types'
  <2>1. entry' = [entry EXCEPT ![r] = "new"] /\ entry[r] = "absent"
        /\ UNCHANGED <<owner, tries, loop, progress, effects, limit, charged>>
    BY <1>2 DEF Submit
  <2>2. QueueOK' /\ Pending'
    BY <2>1 DEF QueueOK, Pending, State, loop
  <2>. QED BY <2>1, <2>2, <1>a DEF Types
<1>3. CASE Tick
  BY <1>3, <1>a DEF Tick, Types, LimitOK, loop
<1>4. ASSUME NEW w \in Worker, Read(w)
      PROVE  Types'
  <2>1. PICK batch \in SUBSET Request :
              /\ Moved(w, "take", batch, cur[w], attempt[w], reports[w], recorded[w])
              /\ \A r \in batch : entry[r] = "new" \/ owner[r] = w
              /\ entry' = [r \in Request |-> IF r \in batch THEN "pending" ELSE entry[r]]
              /\ owner' = [r \in Request |-> IF r \in batch THEN w ELSE owner[r]]
              /\ tries' = [r \in Request |-> IF r \in batch THEN tries[r] + 1 ELSE tries[r]]
    BY <1>4, ReadMoves
  <2>2. UNCHANGED <<effects, limit, charged>>
    BY <1>4, ReadMoves
  <2>3. /\ cur[w] \in Request \cup {None} /\ attempt[w] \in 0 .. HarnessRetries + 1
        /\ reports[w] \in Seq(Status) /\ recorded[w] \in Nat
        /\ cur[w] # None => Len(reports[w]) <= Len(Steps[cur[w]])
    BY DEF LocalOK
  <2>4. "take" \in Location /\ "take" \in Elsewhere
    BY Locations DEF Elsewhere
  <2>5. LocalOK'
    BY <2>1, <2>3, <2>4, MovedType
  <2>6. Others(w) /\ pc'[w] = "take"
    BY <2>1, MovedEffect
  <2>7. QueueOK'
    BY <2>1 DEF QueueOK, State
  <2>8. \A v \in Worker : pc[v] # "down" => pc'[v] # "down"
    BY <2>6 DEF Others
  <2>9. ASSUME NEW r \in Request
        PROVE  IF entry'[r] = "pending" THEN owner'[r] # None /\ pc'[owner'[r]] # "down" ELSE owner'[r] = None
    <3>1. entry'[r] = (IF r \in batch THEN "pending" ELSE entry[r])
          /\ owner'[r] = (IF r \in batch THEN w ELSE owner[r])
      BY <2>1
    <3>2. owner[r] \in Worker \cup {None} /\ w # None
      BY DEF QueueOK
    <3>. QED BY <2>6, <2>8, <3>1, <3>2 DEF Pending
  <2>. QED BY <2>2, <2>5, <2>7, <2>9, <1>a DEF Types, Pending
<1>5. ASSUME NEW w \in Worker, Take(w)
      PROVE  Types'
  <2>1. UNCHANGED <<queue, effects, limit, charged>>
    BY <1>5, TakeMoves
  <2>2. <<>> \in Seq(Status) /\ Len(<<>>) = 0 /\ 0 \in 0 .. HarnessRetries + 1 /\ 0 \in Nat
        /\ {} \in SUBSET Request /\ "idle" \in Location /\ "idle" \in Elsewhere /\ None \in Request \cup {None}
    BY Locations DEF Elsewhere
  <2>3. CASE Moved(w, "idle", {}, None, 0, <<>>, 0)
    <3>1. LocalOK'
      BY <2>3, RestsType
    <3>2. Others(w) /\ pc'[w] # "down"
      BY <2>3, MovedEffect
    <3>. QED BY <2>1, <3>1, <3>2, QueueKept, <1>a DEF Types
  <2>4. ASSUME NEW r \in todo[w], NEW l \in {"failed", "dispatch"}, Moved(w, l, todo[w] \ {r}, r, 0, <<>>, 0)
        PROVE  Types'
    <3>1. r \in Request /\ todo[w] \ {r} \in SUBSET Request /\ r # None
      BY DEF LocalOK
    <3>2. 0 <= Len(Steps[r]) /\ 0 <= HarnessRetries /\ l \in Location /\ l # "send" /\ l # "down"
      BY <3>1, <1>b, StepsType
    <3>3. LocalOK'
      BY <2>2, <2>4, <3>1, <3>2, MovedType
    <3>4. Others(w) /\ pc'[w] # "down"
      BY <2>4, <3>2, MovedEffect
    <3>. QED BY <2>1, <3>3, <3>4, QueueKept, <1>a DEF Types
  <2>. QED BY <1>5, <2>3, <2>4, TakeMoves
<1>6. ASSUME NEW w \in Worker, PassOver(w)
      PROVE  Types'
  <2>1. "scheduled" \in Status /\ "blocked" \in Status
    BY DEF Status
  <2>. QED BY <1>6, <2>1, <1>f, PassOverMoves, <1>a DEF Types
<1>7. ASSUME NEW w \in Worker, Refuse(w)
      PROVE  Types'
  BY <1>7, <1>g, RefuseMoves, <1>a DEF Types
<1>8. ASSUME NEW w \in Worker, Throttle(w)
      PROVE  Types'
  <2>1. /\ pc[w] = "dispatch" /\ Len(reports[w]) < Len(Steps[cur[w]])
        /\ UNCHANGED <<queue, sends, records, answers, hour, sentNow>>
    BY <1>8, ThrottleMoves
  <2>2. /\ Free \/ Pays(w)
        /\ throttled' = throttled \/ throttled' = throttled \cup {cur[w]}
        /\ tickets' = tickets \/ tickets' = tickets + 1
    BY <1>8, ThrottleMoves
  <2>3. Handling(w) /\ cur[w] \in Request /\ ChargedOK'
    BY <2>1, <2>2, <1>c, <1>d
  <2>4. EffectsOK' /\ LimitOK'
    BY <2>1, <2>2, <2>3 DEF EffectsOK, Counters, LimitOK
  <2>5. Stays(w, "send") \/ Retries(w) \/ Reports(w, "dispatch", "throttled")
    BY <1>8, ThrottleMoves
  <2>6. LocalOK' /\ QueueOK' /\ Pending'
    BY <2>1, <2>3, <2>5, <1>b, <1>e, <1>f, <1>g DEF Status
  <2>. QED BY <2>3, <2>4, <2>6 DEF Types
<1>9. ASSUME NEW w \in Worker, Send(w)
      PROVE  Types'
  <2>1. /\ pc[w] \in {"dispatch", "send"} /\ Len(reports[w]) < Len(Steps[cur[w]])
        /\ UNCHANGED <<queue, records, answers, throttled, hour, tickets>>
        /\ sentNow' = sentNow \/ sentNow' = sentNow + 1
    BY <1>9, SendMoves
  <2>2. /\ sends' = sends \/ sends' = Count(sends, cur[w], Upcoming(w))
        /\ Reports(w, "dispatch", "sent") \/ Reports(w, "dispatch", "error")
        /\ Free \/ Pays(w)
    BY <1>9, SendMoves
  <2>3. Handling(w) /\ cur[w] \in Request /\ ChargedOK'
    BY <2>1, <2>2, <1>c, <1>d
  <2>4. Upcoming(w) \in DOMAIN Steps[cur[w]]
    BY <2>1, <2>3, InHand, StepsType DEF Upcoming
  <2>5. Counters(sends')
    BY <2>2, <2>3, <2>4, Counted DEF EffectsOK
  <2>6. EffectsOK' /\ LimitOK'
    BY <2>1, <2>5 DEF EffectsOK, Counters, LimitOK
  <2>7. LocalOK' /\ QueueOK' /\ Pending'
    BY <2>1, <2>2, <1>f DEF Status
  <2>. QED BY <2>3, <2>6, <2>7 DEF Types
<1>10. ASSUME NEW w \in Worker, Conclude(w)
      PROVE  Types'
  <2>1. pc[w] = "dispatch" /\ UNCHANGED <<queue, effects, limit, charged>>
    BY <1>10, ConcludeMoves
  <2>2. Retries(w) \/ Stays(w, "record")
    BY <1>10, ConcludeMoves
  <2>3. LocalOK' /\ QueueOK' /\ Pending'
    BY <2>1, <2>2, <1>b, <1>c, <1>e, <1>g
  <2>. QED BY <2>1, <2>3, <1>a DEF Types
<1>11. ASSUME NEW w \in Worker, Record(w)
      PROVE  Types'
  <2>1. /\ pc[w] = "record" /\ UNCHANGED <<queue, sends, answers, throttled, limit>> /\ (Free \/ Pays(w))
    BY <1>11, RecordMoves
  <2>2. Handling(w) /\ cur[w] \in Request /\ ChargedOK'
    BY <2>1, <1>c, <1>d
  <2>3. CASE Stays(w, "report") /\ UNCHANGED records
    BY <2>1, <2>2, <2>3, <1>a, <1>b, <1>e DEF Types, effects
  <2>4. ASSUME NEW i \in Due(w), Onward(w, "record", attempt[w], reports[w], i),
               records' = records \/ records' = Count(records, cur[w], i)
        PROVE  Types'
    <3>1. i \in DOMAIN reports[w]
      BY DEF Due
    <3>2. i \in Nat /\ i \in DOMAIN Steps[cur[w]]
      BY <2>2, <3>1, InHand, StepsType
    <3>3. Counters(records')
      BY <2>2, <2>4, <3>2, Counted DEF EffectsOK
    <3>4. EffectsOK' /\ LimitOK'
      BY <2>1, <3>3, <1>a DEF EffectsOK, Counters
    <3>5. LocalOK' /\ Others(w) /\ pc'[w] # "down"
      BY <2>1, <2>2, <2>4, <3>2, <1>b, InHand, OnwardType
    <3>. QED BY <2>1, <2>2, <3>4, <3>5, QueueKept DEF Types
  <2>. QED BY <1>11, <2>3, <2>4, RecordMoves
<1>12. ASSUME NEW w \in Worker, Answer(w)
      PROVE  Types'
  <2>1. /\ pc[w] = "report" /\ UNCHANGED <<queue, sends, records, throttled, limit>>
        /\ Free \/ Pays(w)
        /\ answers' = answers \/ answers' = [answers EXCEPT ![cur[w]] = @ \cup {Outcome(w)}]
        /\ Stays(w, "ack") \/ Stays(w, "failed")
    BY <1>12, AnswerMoves
  <2>2. Handling(w) /\ cur[w] \in Request /\ ChargedOK'
    BY <2>1, <1>c, <1>d
  <2>3. EffectsOK'
    <3>1. Outcome(w) \in {"ok", "error"}
      BY DEF Outcome
    <3>2. answers' \in [Request -> SUBSET {"ok", "error"}]
      BY <2>1, <2>2, <3>1 DEF EffectsOK
    <3>. QED BY <2>1, <3>2 DEF EffectsOK, Counters
  <2>4. LocalOK' /\ QueueOK' /\ Pending'
    BY <2>1, <2>2, <1>b, <1>e
  <2>. QED BY <2>1, <2>2, <2>3, <2>4, <1>a DEF Types
<1>13. ASSUME NEW w \in Worker, Ack(w)
      PROVE  Types'
  <2>1. /\ pc[w] = "ack" /\ UNCHANGED <<tries, effects, limit>> /\ (Free \/ Pays(w))
        /\ Settle(cur[w], "done") \/ UNCHANGED <<entry, owner>>
        /\ Stays(w, "take") \/ Stays(w, "failed")
    BY <1>13, AckMoves
  <2>2. Handling(w) /\ cur[w] \in Request /\ ChargedOK'
    BY <2>1, <1>c, <1>d
  <2>3. LocalOK' /\ Others(w) /\ pc'[w] # "down"
    <3>1. \A l \in {"take", "failed"} : l \in Location /\ l # "down" /\ l \notin {"dispatch", "send", "record"}
      BY Locations DEF Elsewhere
    <3>. QED BY <2>1, <2>2, <3>1, StaysType
  <2>4. QueueOK' /\ Pending'
    BY <2>1, <2>2, <2>3, QueueSettled, QueueKept DEF queue
  <2>. QED BY <2>1, <2>2, <2>3, <2>4, <1>a DEF Types
<1>14. ASSUME NEW w \in Worker, HandleFailure(w) \/ DeadLetter(w) \/ AckDead(w)
      PROVE  Types'
  <2>1. /\ pc[w] \in {"failed", "deadLetter", "ackDead"} /\ UNCHANGED <<tries, effects, limit>>
        /\ Free \/ Pays(w)
    BY <1>14, GiveUpMoves
  <2>2. Handling(w) /\ cur[w] \in Request /\ ChargedOK'
    BY <2>1, <1>c, <1>d
  <2>3. CASE Die(w)
    BY <2>1, <2>2, <2>3, QueueLeft, <1>a DEF Types
  <2>4. ASSUME NEW l \in {"take", "deadLetter", "ackDead"}, Stays(w, l),
               Settle(cur[w], "dead") \/ UNCHANGED <<entry, owner>>
        PROVE  Types'
    <3>1. l \in Location /\ l # "down" /\ l \notin {"dispatch", "send", "record"}
      BY Locations DEF Elsewhere
    <3>2. LocalOK' /\ Others(w) /\ pc'[w] # "down"
      BY <2>2, <2>4, <3>1, StaysType
    <3>3. QueueOK' /\ Pending'
      BY <2>1, <2>2, <2>4, <3>2, QueueSettled, QueueKept DEF queue
    <3>. QED BY <2>1, <2>2, <3>2, <3>3, <1>a DEF Types
  <2>. QED BY <1>14, <2>3, <2>4, GiveUpMoves
<1>15. ASSUME NEW w \in Worker, Crash(w)
      PROVE  Types'
  <2>1. Die(w) /\ UNCHANGED <<tries, effects, limit>> /\ mishaps' = mishaps + 1
        /\ (UNCHANGED spent \/ (cur[w] \in Request /\ Pays(w)))
    BY <1>15, CrashMoves DEF LocalOK
  <2>2. ChargedOK'
    BY <2>1, PaysType DEF ChargedOK
  <2>. QED BY <2>1, <2>2, QueueLeft, <1>a DEF Types
<1>16. ASSUME NEW w \in Worker, Restart(w)
      PROVE  Types'
  <2>1. pc[w] = "down" /\ Stays(w, "idle") /\ UNCHANGED <<queue, effects, limit, charged>>
    BY <1>16, RestartMoves
  <2>2. Moved(w, "idle", todo[w], cur[w], attempt[w], reports[w], recorded[w])
    BY <2>1 DEF Stays, Onward
  <2>3. /\ cur[w] \in Request \cup {None} /\ attempt[w] \in 0 .. HarnessRetries + 1
        /\ reports[w] \in Seq(Status) /\ recorded[w] \in Nat /\ todo[w] \in SUBSET Request
        /\ cur[w] # None => Len(reports[w]) <= Len(Steps[cur[w]])
    BY DEF LocalOK
  <2>4. "idle" \in Location /\ "idle" \in Elsewhere
    BY Locations DEF Elsewhere
  <2>5. LocalOK'
    BY <2>2, <2>3, <2>4, MovedType
  <2>6. Others(w) /\ pc'[w] # "down"
    BY <2>2, MovedEffect
  <2>. QED BY <2>1, <2>5, <2>6, QueueKept, <1>a DEF Types
<1>. QED
  BY <1>1, <1>2, <1>3, <1>4, <1>5, <1>6, <1>7, <1>8, <1>9, <1>10, <1>11, <1>12, <1>13, <1>14, <1>15, <1>16
     DEF Next, Step

(* Every variable keeps its type, a pending request has an owner that is   *)
(* up, and a worker reports on no more steps than its request has.         *)
THEOREM TypeCorrect == Spec => []TypeOK
BY InitTypes, StepTypes, TypeParts, PTL DEF Spec

-----------------------------------------------------------------------------
(* What a worker has after a step, and what every other worker keeps.      *)
Holds(w) == todo'[w] = todo[w] /\ cur'[w] = cur[w]

LEMMA MoveEffects ==
  ASSUME Types, NEW w \in Worker
  PROVE  /\ \A l : Stays(w, l) =>
              /\ pc'[w] = l /\ Holds(w) /\ Others(w)
              /\ attempt'[w] = attempt[w] /\ reports'[w] = reports[w] /\ recorded'[w] = recorded[w]
         /\ \A l, status : Reports(w, l, status) =>
              /\ pc'[w] = l /\ Holds(w) /\ Others(w)
              /\ attempt'[w] = attempt[w] /\ reports'[w] = Append(reports[w], status)
              /\ recorded'[w] = recorded[w]
         /\ Retries(w) =>
              /\ pc'[w] = (IF attempt[w] = HarnessRetries THEN "report" ELSE "dispatch")
              /\ Holds(w) /\ Others(w)
              /\ attempt'[w] = attempt[w] + 1 /\ reports'[w] = <<>> /\ recorded'[w] = recorded[w]
         /\ Leaves(w) =>
              /\ pc'[w] = "down" /\ todo'[w] = {} /\ cur'[w] = None /\ Others(w)
              /\ attempt'[w] = 0 /\ reports'[w] = <<>> /\ recorded'[w] = 0
<1>. LocalOK
  BY DEF Types
<1>1. ASSUME NEW l, NEW a, NEW s, NEW k, Onward(w, l, a, s, k)
      PROVE  /\ pc'[w] = l /\ Holds(w) /\ Others(w)
             /\ attempt'[w] = a /\ reports'[w] = s /\ recorded'[w] = k
  BY <1>1, MovedEffect DEF Onward, Holds
<1>2. ASSUME NEW l, Stays(w, l)
      PROVE  /\ pc'[w] = l /\ Holds(w) /\ Others(w)
             /\ attempt'[w] = attempt[w] /\ reports'[w] = reports[w] /\ recorded'[w] = recorded[w]
  BY <1>1, <1>2 DEF Stays
<1>3. ASSUME NEW l, NEW status, Reports(w, l, status)
      PROVE  /\ pc'[w] = l /\ Holds(w) /\ Others(w)
             /\ attempt'[w] = attempt[w] /\ reports'[w] = Append(reports[w], status)
             /\ recorded'[w] = recorded[w]
  BY <1>1, <1>3 DEF Reports
<1>4. ASSUME Retries(w)
      PROVE  /\ pc'[w] = (IF attempt[w] = HarnessRetries THEN "report" ELSE "dispatch")
             /\ Holds(w) /\ Others(w)
             /\ attempt'[w] = attempt[w] + 1 /\ reports'[w] = <<>> /\ recorded'[w] = recorded[w]
  BY <1>1, <1>4 DEF Retries
<1>5. ASSUME Leaves(w)
      PROVE  /\ pc'[w] = "down" /\ todo'[w] = {} /\ cur'[w] = None /\ Others(w)
             /\ attempt'[w] = 0 /\ reports'[w] = <<>> /\ recorded'[w] = 0
  BY <1>5, MovedEffect DEF Leaves
<1>. QED BY <1>2, <1>3, <1>4, <1>5

LEMMA AlwaysTypes == Spec => []Types
BY InitTypes, StepTypes, PTL DEF Spec

-----------------------------------------------------------------------------
(* The hourly limit.  A worker that passed the check has taken a ticket of *)
(* the hour or, if the hour changed since, is one of the finitely many.    *)
Sending == {w \in Worker : pc[w] = "send"}
Granted == IF tickets < MaxPerHour THEN tickets ELSE MaxPerHour
Hourly == MaxPerHour > 0 => sentNow + Cardinality(Sending) <= Granted + Cardinality(Worker)

LEMMA SendingFinite ==
  /\ Cardinality(Worker) \in Nat /\ Cardinality(Sending) \in Nat
  /\ Cardinality(Sending) <= Cardinality(Worker)
BY FS_Subset, FS_CardinalityType DEF Sending

LEMMA SendingMove ==
  ASSUME NEW w \in Worker, Others(w)
  PROVE  /\ Cardinality(Sending)' \in Nat
         /\ pc[w] # "send" /\ pc'[w] # "send" => Cardinality(Sending)' = Cardinality(Sending)
         /\ pc[w] # "send" => Cardinality(Sending)' <= Cardinality(Sending) + 1
         /\ pc[w] = "send" /\ pc'[w] # "send" => Cardinality(Sending)' + 1 = Cardinality(Sending)
<1>. DEFINE A == Sending
            B == Sending'
<1>1. IsFiniteSet(A) /\ IsFiniteSet(B) /\ Cardinality(A) \in Nat /\ Cardinality(B) \in Nat
  <2>1. A \subseteq Worker /\ B \subseteq Worker
    BY DEF Sending
  <2>. QED BY <2>1, FS_Subset, FS_CardinalityType
<1>2. /\ w \in A <=> pc[w] = "send"
      /\ w \in B <=> pc'[w] = "send"
      /\ \A v : v # w => (v \in A <=> v \in B)
  BY DEF Sending, Others
<1>. HIDE DEF A, B
<1>3. ASSUME w \notin A, w \notin B PROVE Cardinality(B) = Cardinality(A)
  <2>1. \A v : v \in A <=> v \in B
    BY <1>2, <1>3
  <2>2. A = B
    BY <2>1
  <2>. QED BY <2>2
<1>4. ASSUME w \notin A, w \in B PROVE Cardinality(B) = Cardinality(A) + 1
  <2>1. B = A \cup {w}
    BY <1>2, <1>4
  <2>. QED BY <1>1, <1>4, <2>1, FS_AddElement
<1>5. ASSUME w \in A, w \notin B PROVE Cardinality(B) + 1 = Cardinality(A)
  <2>1. A = B \cup {w}
    BY <1>2, <1>5
  <2>. QED BY <1>1, <1>5, <2>1, FS_AddElement
<1>6. /\ Cardinality(B) \in Nat
      /\ pc[w] # "send" /\ pc'[w] # "send" => Cardinality(B) = Cardinality(A)
      /\ pc[w] # "send" => Cardinality(B) <= Cardinality(A) + 1
      /\ pc[w] = "send" /\ pc'[w] # "send" => Cardinality(B) + 1 = Cardinality(A)
  BY <1>1, <1>2, <1>3, <1>4, <1>5
<1>. QED BY <1>6 DEF A, B

(* Apart from the check and the sending itself, and the change of the      *)
(* hour, nothing counts or leads to the sending of an email.               *)
LEMMA QuietMoves ==
  ASSUME Types, NEW w \in Worker,
         \/ Read(w) \/ Take(w) \/ PassOver(w) \/ Refuse(w) \/ Conclude(w) \/ Record(w)
         \/ Answer(w) \/ Ack(w) \/ HandleFailure(w) \/ DeadLetter(w) \/ AckDead(w)
         \/ Crash(w) \/ Restart(w)
  PROVE  Others(w) /\ pc'[w] # "send" /\ UNCHANGED limit
<1>. LocalOK
  BY DEF Types
<1>1. CASE Read(w)
  BY <1>1, ReadMoves, MovedEffect
<1>2. CASE Take(w)
  <2>1. UNCHANGED limit
    BY <1>2, TakeMoves
  <2>2. \E l \in {"idle", "failed", "dispatch"} : \E t, c : Moved(w, l, t, c, 0, <<>>, 0)
    BY <1>2, TakeMoves
  <2>. QED BY <2>1, <2>2, MovedEffect
<1>3. CASE PassOver(w)
  BY <1>3, PassOverMoves, MoveEffects
<1>4. CASE Refuse(w)
  BY <1>4, RefuseMoves, MoveEffects
<1>5. CASE Conclude(w)
  BY <1>5, ConcludeMoves, MoveEffects
<1>6. CASE Record(w)
  <2>1. UNCHANGED limit
    BY <1>6, RecordMoves
  <2>2. Stays(w, "report") \/ \E i : Onward(w, "record", attempt[w], reports[w], i)
    BY <1>6, RecordMoves
  <2>. QED BY <2>1, <2>2, MoveEffects, MovedEffect DEF Onward
<1>7. CASE Answer(w)
  BY <1>7, AnswerMoves, MoveEffects
<1>8. CASE Ack(w)
  BY <1>8, AckMoves, MoveEffects
<1>9. CASE HandleFailure(w) \/ DeadLetter(w) \/ AckDead(w)
  BY <1>9, GiveUpMoves, DieMoved, MoveEffects
<1>10. CASE Crash(w)
  BY <1>10, CrashMoves, DieMoved, MoveEffects
<1>11. CASE Restart(w)
  BY <1>11, RestartMoves, MoveEffects
<1>. QED BY <1>1, <1>2, <1>3, <1>4, <1>5, <1>6, <1>7, <1>8, <1>9, <1>10, <1>11

LEMMA HourlyStep ==
  ASSUME Types, Hourly, [Next]_vars
  PROVE  Hourly'
<1>. SUFFICES ASSUME MaxPerHour > 0
              PROVE  sentNow' + Cardinality(Sending)' <= Granted' + Cardinality(Worker)
  BY DEF Hourly
<1>. DEFINE n == Cardinality(Sending)
            m == Cardinality(Sending)'
            c == Cardinality(Worker)
            g == Granted
            h == Granted'
<1>1. /\ sentNow \in Nat /\ tickets \in Nat /\ MaxPerHour \in Nat /\ n \in Nat /\ c \in Nat
      /\ g \in Nat /\ sentNow + n <= g + c
  BY SendingFinite DEF Types, LimitOK, Hourly, Granted
<1>2. /\ tickets' = tickets => h = g
      /\ tickets' = tickets + 1 => h \in Nat /\ g <= h
      /\ tickets' = tickets + 1 /\ tickets + 1 <= MaxPerHour => h = g + 1
      /\ tickets' = 0 => h = 0
  BY <1>1 DEF Granted
<1>3. ASSUME UNCHANGED limit, m = n
      PROVE  sentNow' + m <= h + c
  BY <1>1, <1>2, <1>3 DEF limit
<1>4. ASSUME UNCHANGED pc
      PROVE  m = n
  BY <1>4 DEF Sending
<1>5. CASE UNCHANGED vars \/ \E r \in Request : Submit(r)
  <2>1. UNCHANGED limit /\ UNCHANGED pc
    BY <1>5 DEF vars, Submit, loop
  <2>. QED BY <1>3, <1>4, <2>1
<1>6. CASE Tick
  <2>1. sentNow' = 0 /\ tickets' = 0 /\ UNCHANGED pc
    BY <1>6 DEF Tick, loop
  <2>2. n <= c
    BY SendingFinite
  <2>3. m = n /\ h = 0
    BY <1>2, <1>4, <2>1
  <2>. HIDE DEF n, m, c, g, h
  <2>4. sentNow' + m <= h + c
    BY <1>1, <2>1, <2>2, <2>3
  <2>. QED BY <2>4 DEF m, h, c
<1>7. ASSUME NEW w \in Worker,
             \/ Read(w) \/ Take(w) \/ PassOver(w) \/ Refuse(w) \/ Conclude(w) \/ Record(w)
             \/ Answer(w) \/ Ack(w) \/ HandleFailure(w) \/ DeadLetter(w) \/ AckDead(w)
             \/ Crash(w) \/ Restart(w)
      PROVE  sentNow' + m <= h + c
  <2>1. Others(w) /\ pc'[w] # "send" /\ UNCHANGED limit
    BY <1>7, QuietMoves
  <2>2. m \in Nat /\ (m = n \/ m + 1 = n)
    BY <2>1, SendingMove
  <2>3. sentNow' = sentNow /\ h = g
    BY <1>2, <2>1 DEF limit
  <2>. HIDE DEF n, m, c, g, h
  <2>. QED BY <1>1, <2>2, <2>3
<1>8. ASSUME NEW w \in Worker, Throttle(w)
      PROVE  sentNow' + m <= h + c
  <2>1. /\ pc[w] = "dispatch" /\ sentNow' = sentNow
        /\ \/ Retries(w) /\ (tickets' = tickets \/ tickets' = tickets + 1)
           \/ Reports(w, "dispatch", "throttled") /\ tickets' = tickets + 1
           \/ Stays(w, "send") /\ tickets' = tickets + 1 /\ tickets + 1 <= MaxPerHour
    BY <1>1, <1>8, ThrottleMoves DEF OverLimit
  <2>2. CASE Retries(w) \/ Reports(w, "dispatch", "throttled")
    <3>1. Others(w) /\ pc'[w] # "send"
      BY <2>1, <2>2, MoveEffects
    <3>2. m = n
      BY <2>1, <3>1, SendingMove
    <3>3. h \in Nat /\ g <= h
      BY <1>1, <1>2, <2>1
    <3>. HIDE DEF n, m, c, g, h
    <3>. QED BY <1>1, <2>1, <3>2, <3>3
  <2>3. CASE Stays(w, "send") /\ tickets' = tickets + 1 /\ tickets + 1 <= MaxPerHour
    <3>1. m \in Nat /\ m <= n + 1
      BY <2>1, <2>3, MoveEffects, SendingMove
    <3>2. h = g + 1
      BY <1>2, <2>3
    <3>. HIDE DEF n, m, c, g, h
    <3>. QED BY <1>1, <2>1, <3>1, <3>2
  <2>. QED BY <2>1, <2>2, <2>3
<1>9. ASSUME NEW w \in Worker, Send(w)
      PROVE  sentNow' + m <= h + c
  <2>1. /\ pc[w] = "send" \/ (pc[w] = "dispatch" /\ StepOf(w) = "webhook")
        /\ tickets' = tickets
        /\ sentNow' = sentNow \/ (sentNow' = sentNow + 1 /\ StepOf(w) = "email")
        /\ Reports(w, "dispatch", "sent") \/ Reports(w, "dispatch", "error")
    BY <1>9, SendMoves
  <2>2. Others(w) /\ pc'[w] # "send" /\ h = g
    BY <1>2, <2>1, MoveEffects
  <2>3. CASE pc[w] = "send"
    <3>1. m \in Nat /\ m + 1 = n
      BY <2>2, <2>3, SendingMove
    <3>2. sentNow' = sentNow \/ sentNow' = sentNow + 1
      BY <2>1
    <3>. HIDE DEF n, m, c, g, h
    <3>. QED BY <1>1, <2>2, <3>1, <3>2
  <2>4. CASE pc[w] # "send"
    <3>1. m = n
      BY <2>2, <2>4, SendingMove
    <3>2. sentNow' = sentNow
      BY <2>1, <2>4
    <3>. HIDE DEF n, m, c, g, h
    <3>. QED BY <1>1, <2>2, <3>1, <3>2
  <2>. QED BY <2>3, <2>4
<1>. QED
  BY <1>5, <1>6, <1>7, <1>8, <1>9 DEF Next, Step

(* In an hour no more emails leave than the limit allows, and one for each *)
(* worker that passed the check before the hour changed: the INCR of the   *)
(* shared counter lets no two workers take the same ticket.                *)
THEOREM LimitHolds == Spec => []HourlyLimit
<1>1. Init => Hourly
  <2>. SUFFICES ASSUME Init PROVE Hourly
    OBVIOUS
  <2>1. sentNow = 0 /\ tickets = 0 /\ MaxPerHour \in Nat
    BY DEF Init
  <2>2. Granted = 0 \/ ~(MaxPerHour > 0)
    BY <2>1 DEF Granted
  <2>. QED BY <2>1, <2>2, SendingFinite DEF Hourly
<1>2. Types /\ Hourly /\ [Next]_vars => Hourly'
  BY HourlyStep
<1>3. Types /\ Hourly => HourlyLimit
  <2>. SUFFICES ASSUME Types, Hourly, MaxPerHour > 0
                PROVE  sentNow <= MaxPerHour + Cardinality(Worker)
    BY DEF HourlyLimit
  <2>1. sentNow \in Nat /\ Granted \in Nat /\ Granted <= MaxPerHour /\ MaxPerHour \in Nat
    BY DEF Types, LimitOK, Granted
  <2>2. sentNow + Cardinality(Sending) <= Granted + Cardinality(Worker)
    BY DEF Hourly
  <2>. QED BY <2>1, <2>2, SendingFinite
<1>. QED BY <1>1, <1>2, <1>3, AlwaysTypes, PTL DEF Spec

-----------------------------------------------------------------------------
(* A result "ok": whatever a worker holds no error about was dispatched,   *)
(* throttled or held back.                                                 *)
Sent(r, i) ==
  Steps[r][i] \in {"email", "webhook"} =>
    sends[r][i] > 0 \/ (Steps[r][i] = "email" /\ r \in throttled)
Confirmed(w) ==
  /\ pc[w] \in {"dispatch", "send"} =>
       \A i \in DOMAIN reports[w] : reports[w][i] = "error" \/ Sent(cur[w], i)
  /\ pc[w] = "record" \/ (pc[w] = "report" /\ attempt[w] <= HarnessRetries) =>
       \A i \in DOMAIN Steps[cur[w]] : Sent(cur[w], i)
AllConfirmed == \A w \in Worker : Confirmed(w)

LEMMA SendsGrow ==
  ASSUME Types, [Next]_vars
  PROVE  /\ throttled \subseteq throttled'
         /\ \A r \in Request : \A i \in DOMAIN Steps[r] :
              sends[r][i] \in Nat /\ sends'[r][i] \in Nat /\ sends[r][i] <= sends'[r][i]
<1>. DEFINE Grow == \A r \in Request : \A i \in DOMAIN Steps[r] :
                      sends[r][i] \in Nat /\ sends'[r][i] \in Nat /\ sends[r][i] <= sends'[r][i]
<1>1. \A r \in Request : \A i \in DOMAIN Steps[r] : sends[r][i] \in Nat
  BY DEF Types, EffectsOK, Counters
<1>2. ASSUME sends' = sends
      PROVE  Grow
  <2>. SUFFICES ASSUME NEW r \in Request, NEW i \in DOMAIN Steps[r]
                PROVE  sends[r][i] \in Nat /\ sends'[r][i] \in Nat /\ sends[r][i] <= sends'[r][i]
    OBVIOUS
  <2>1. sends'[r][i] = sends[r][i] /\ sends[r][i] \in Nat
    BY <1>1, <1>2
  <2>. QED BY <2>1
<1>3. UNCHANGED effects => throttled' = throttled /\ sends' = sends
  BY DEF effects
<1>4. CASE UNCHANGED vars \/ Tick \/ \E r \in Request : Submit(r)
  BY <1>2, <1>3, <1>4 DEF vars, Tick, Submit
<1>5. ASSUME NEW w \in Worker, Step(w) \/ Crash(w) \/ Restart(w), ~Send(w)
      PROVE  throttled \subseteq throttled' /\ sends' = sends
  <2>1. CASE Throttle(w)
    <3>1. sends' = sends
      BY <2>1 DEF Throttle
    <3>2. throttled' = throttled \/ throttled' = throttled \cup {cur[w]}
      BY <2>1, ThrottleMoves
    <3>. QED BY <3>1, <3>2
  <2>2. CASE Record(w) \/ Answer(w)
    BY <2>2 DEF Record, Answer
  <2>3. CASE Read(w) \/ Take(w) \/ PassOver(w) \/ Refuse(w) \/ Conclude(w) \/ Ack(w)
             \/ HandleFailure(w) \/ DeadLetter(w) \/ AckDead(w) \/ Crash(w) \/ Restart(w)
    BY <1>3, <2>3 DEF Read, Take, PassOver, Refuse, Conclude, Ack, HandleFailure, DeadLetter, AckDead,
                      Crash, Restart
  <2>. QED BY <1>5, <2>1, <2>2, <2>3 DEF Step
<1>6. ASSUME NEW w \in Worker, Send(w)
      PROVE  throttled' = throttled /\ Grow
  <2>1. throttled' = throttled
    BY <1>6, SendMoves
  <2>2. cur[w] \in Request /\ Upcoming(w) \in DOMAIN Steps[cur[w]]
    <3>1. Handling(w) /\ Len(reports[w]) < Len(Steps[cur[w]])
      BY <1>6, SendMoves, Locations DEF Handling
    <3>. QED BY <3>1, InHand, StepsType DEF Upcoming
  <2>3. sends' = sends \/ sends' = Count(sends, cur[w], Upcoming(w))
    BY <1>6, SendMoves
  <2>4. Counters(sends)
    BY DEF Types, EffectsOK
  <2>5. Bumped(sends, sends', cur[w], Upcoming(w))
    BY <2>2, <2>3, <2>4, Counted
  <2>6. \A q \in Request : \A j \in DOMAIN Steps[q] : sends'[q][j] \in {sends[q][j], sends[q][j] + 1}
    BY <2>5 DEF Bumped
  <2>7. \A x \in Nat : \A y \in {x, x + 1} : y \in Nat /\ x <= y
    OBVIOUS
  <2>8. Grow
    BY <1>1, <2>6, <2>7
  <2>. QED BY <2>1, <2>8
<1>. HIDE DEF Grow
<1>7. throttled \subseteq throttled' /\ Grow
  BY <1>2, <1>4, <1>5, <1>6, <1>3 DEF Next, Step, vars, Tick, Submit
<1>. QED BY <1>7 DEF Grow

LEMMA SentStays ==
  ASSUME Types, [Next]_vars, NEW r \in Request, NEW i \in DOMAIN Steps[r], Sent(r, i)
  PROVE  Sent(r, i)'
BY SendsGrow DEF Sent

LEMMA ReportedSteps ==
  ASSUME Types, NEW w \in Worker, Handling(w)
  PROVE  /\ cur[w] \in Request /\ DOMAIN reports[w] \subseteq DOMAIN Steps[cur[w]]
         /\ DOMAIN reports[w] = 1 .. Len(reports[w])
         /\ DOMAIN Steps[cur[w]] = 1 .. Len(Steps[cur[w]])
BY InHand, StepsType

LEMMA ConfirmedKept ==
  ASSUME Types, [Next]_vars, NEW w \in Worker, Confirmed(w),
         pc'[w] = pc[w], cur'[w] = cur[w], attempt'[w] = attempt[w], reports'[w] = reports[w]
  PROVE  Confirmed(w)'
<1>1. ASSUME pc[w] \in {"dispatch", "send", "record", "report"}
      PROVE  cur[w] \in Request /\ DOMAIN reports[w] \subseteq DOMAIN Steps[cur[w]]
  BY <1>1, ReportedSteps, Locations DEF Handling
<1>2. ASSUME pc[w] \in {"dispatch", "send", "record", "report"}, NEW i \in DOMAIN Steps[cur[w]], Sent(cur[w], i)
      PROVE  Sent(cur[w], i)'
  <2>1. SUFFICES ASSUME NEW r \in Request, NEW j \in DOMAIN Steps[r], Sent(r, j), r = cur[w], r = cur'[w], j = i
                 PROVE  Sent(r, j)'
    BY <1>1, <1>2 DEF Sent
  <2>. QED BY <2>1, SentStays
<1>3. \A i \in DOMAIN Steps[cur[w]] : pc[w] \in {"dispatch", "send", "record", "report"} /\ Sent(cur[w], i)
         => Sent(cur[w], i)'
  BY <1>2
<1>. QED BY <1>1, <1>3 DEF Confirmed

LEMMA ConfirmedStep ==
  ASSUME Types, AllConfirmed, [Next]_vars
  PROVE  AllConfirmed'
<1>1. ASSUME NEW w \in Worker, Others(w), Confirmed(w)'
      PROVE  AllConfirmed'
  <2>. SUFFICES ASSUME NEW v \in Worker PROVE Confirmed(v)'
    BY DEF AllConfirmed
  <2>1. CASE v = w
    BY <1>1, <2>1
  <2>2. CASE v # w
    BY <1>1, <2>2, ConfirmedKept DEF Others, AllConfirmed
  <2>. QED BY <2>1, <2>2
<1>2. ASSUME UNCHANGED <<loop, progress>>
      PROVE  AllConfirmed'
  BY <1>2, ConfirmedKept DEF AllConfirmed, loop, progress
<1>3. ASSUME NEW w \in Worker, pc'[w] \notin {"dispatch", "send", "record", "report"}
      PROVE  Confirmed(w)'
  BY <1>3 DEF Confirmed
<1>4. ASSUME NEW w \in Worker, pc'[w] = "dispatch", reports'[w] = <<>>
      PROVE  Confirmed(w)'
  BY <1>4 DEF Confirmed
<1>5. ASSUME NEW w \in Worker, pc[w] = "dispatch", Retries(w)
      PROVE  AllConfirmed'
  <2>1. /\ Others(w) /\ attempt'[w] = attempt[w] + 1 /\ reports'[w] = <<>>
        /\ pc'[w] = IF attempt[w] = HarnessRetries THEN "report" ELSE "dispatch"
    BY <1>5, MoveEffects
  <2>2. attempt[w] \in 0 .. HarnessRetries
    BY <1>5, InHand, Locations DEF Handling
  <2>3. CASE attempt[w] = HarnessRetries
    <3>1. pc'[w] = "report" /\ ~(attempt'[w] <= HarnessRetries)
      BY <2>1, <2>2, <2>3
    <3>2. Confirmed(w)'
      BY <3>1 DEF Confirmed
    <3>. QED BY <1>1, <2>1, <3>2
  <2>4. CASE attempt[w] # HarnessRetries
    BY <1>1, <1>4, <2>1, <2>4
  <2>. QED BY <2>3, <2>4
<1>6. ASSUME NEW w \in Worker, pc[w] \in {"dispatch", "send"}, Len(reports[w]) < Len(Steps[cur[w]]),
             NEW status \in Status, Reports(w, "dispatch", status),
             NEW r, r = cur[w], NEW k, k = Upcoming(w), status = "error" \/ Sent(r, k)'
      PROVE  AllConfirmed'
  <2>1. Handling(w)
    BY <1>6, Locations DEF Handling
  <2>2. /\ Others(w) /\ pc'[w] = "dispatch" /\ cur'[w] = r /\ reports'[w] = Append(reports[w], status)
    BY <1>6, MoveEffects DEF Holds
  <2>3. r \in Request /\ reports[w] \in Seq(Status) /\ DOMAIN reports[w] \subseteq DOMAIN Steps[r]
    BY <1>6, <2>1, InHand, ReportedSteps
  <2>4. /\ DOMAIN reports'[w] = 1 .. Len(reports[w]) + 1 /\ DOMAIN reports[w] = 1 .. Len(reports[w])
        /\ reports'[w][k] = status /\ k = Len(reports[w]) + 1 /\ Len(reports[w]) \in Nat
        /\ \A i \in 1 .. Len(reports[w]) : reports'[w][i] = reports[w][i]
    BY <1>6, <2>2, <2>3, AppendType DEF Upcoming
  <2>5. ASSUME NEW i \in DOMAIN reports'[w]
        PROVE  reports'[w][i] = "error" \/ Sent(r, i)'
    <3>1. CASE i = k
      BY <1>6, <2>4, <3>1
    <3>2. CASE i # k
      <4>1. i \in DOMAIN reports[w] /\ reports'[w][i] = reports[w][i]
        BY <2>4, <3>2
      <4>2. reports[w][i] = "error" \/ Sent(r, i)
        BY <1>6, <4>1 DEF AllConfirmed, Confirmed
      <4>. QED BY <2>3, <4>1, <4>2, SentStays
    <3>. QED BY <3>1, <3>2
  <2>6. Confirmed(w)'
    BY <2>2, <2>5 DEF Confirmed, Sent
  <2>. QED BY <1>1, <2>2, <2>6
<1>7. ASSUME UNCHANGED vars \/ Tick \/ \E r \in Request : Submit(r)
      PROVE  AllConfirmed'
  BY <1>2, <1>7 DEF vars, Tick, Submit
<1>8. ASSUME NEW w \in Worker, pc[w] = "dispatch", Stays(w, "send")
      PROVE  AllConfirmed'
  <2>0. PICK r : r = cur[w]
    OBVIOUS
  <2>1. /\ Others(w) /\ pc'[w] = "send" /\ cur'[w] = r /\ reports'[w] = reports[w]
    BY <1>8, <2>0, MoveEffects DEF Holds
  <2>2. r \in Request /\ DOMAIN reports[w] \subseteq DOMAIN Steps[r]
    BY <1>8, <2>0, Locations, ReportedSteps DEF Handling
  <2>3. \A i \in DOMAIN reports[w] : reports[w][i] = "error" \/ Sent(r, i)
    BY <1>8, <2>0 DEF AllConfirmed, Confirmed
  <2>4. \A i \in DOMAIN reports[w] : reports[w][i] = "error" \/ Sent(r, i)'
    BY <2>2, <2>3, SentStays
  <2>5. Confirmed(w)'
    BY <2>1, <2>4 DEF Confirmed, Sent
  <2>. QED BY <1>1, <2>1, <2>5
<1>9. ASSUME NEW w \in Worker, Others(w), cur'[w] = cur[w], Handling(w), pc'[w] \in {"record", "report"},
             \A i \in DOMAIN Steps[cur[w]] : Sent(cur[w], i)
      PROVE  AllConfirmed'
  <2>0. PICK r : r = cur[w]
    OBVIOUS
  <2>1. r \in Request /\ \A i \in DOMAIN Steps[r] : Sent(r, i)
    BY <1>9, <2>0, InHand
  <2>2. cur'[w] = r
    BY <1>9, <2>0
  <2>3. \A i \in DOMAIN Steps[r] : Sent(r, i)'
    BY <2>1, SentStays
  <2>4. Confirmed(w)'
    BY <1>9, <2>2, <2>3 DEF Confirmed, Sent
  <2>. QED BY <1>1, <1>9, <2>4
<1>10. ASSUME NEW w \in Worker, Read(w) \/ Restart(w)
       PROVE  AllConfirmed'
  <2>1. Others(w) /\ pc'[w] \in {"take", "idle"}
    <3>. LocalOK
      BY DEF Types
    <3>1. \E t : Moved(w, "take", t, cur[w], attempt[w], reports[w], recorded[w]) \/ Stays(w, "idle")
      BY <1>10, ReadMoves, RestartMoves
    <3>. QED BY <3>1, MovedEffect, MoveEffects
  <2>. QED BY <1>1, <1>3, <2>1
<1>11. ASSUME NEW w \in Worker, Take(w)
       PROVE  AllConfirmed'
  <2>1. \E l \in {"idle", "failed", "dispatch"} : \E t, c : Moved(w, l, t, c, 0, <<>>, 0)
    BY <1>11, TakeMoves
  <2>2. Others(w) /\ pc'[w] \in {"idle", "failed", "dispatch"} /\ reports'[w] = <<>>
    BY <2>1, MovedEffect DEF Types
  <2>. QED BY <1>1, <1>3, <1>4, <2>2
<1>12. ASSUME NEW w \in Worker, PassOver(w)
       PROVE  AllConfirmed'
  <2>1. /\ pc[w] = "dispatch" /\ Len(reports[w]) < Len(Steps[cur[w]]) /\ StepOf(w) \in {"later", "held"}
        /\ \E status \in {"scheduled", "blocked"} : Reports(w, "dispatch", status)
    BY <1>12, PassOverMoves
  <2>2. PICK status \in Status : Reports(w, "dispatch", status)
    BY <2>1 DEF Status
  <2>0. PICK r, k : r = cur[w] /\ k = Upcoming(w)
    OBVIOUS
  <2>3. Steps[r][k] \in {"later", "held"}
    BY <2>0, <2>1 DEF StepOf
  <2>4. Sent(r, k)'
    BY <2>3 DEF Sent
  <2>. QED BY <1>6, <2>0, <2>1, <2>2, <2>4
<1>13. ASSUME NEW w \in Worker, Refuse(w)
       PROVE  AllConfirmed'
  BY <1>5, <1>13, RefuseMoves
<1>14. ASSUME NEW w \in Worker, Throttle(w)
       PROVE  AllConfirmed'
  <2>1. /\ pc[w] = "dispatch" /\ Len(reports[w]) < Len(Steps[cur[w]]) /\ StepOf(w) = "email"
        /\ Stays(w, "send") \/ Retries(w)
             \/ (Reports(w, "dispatch", "throttled") /\ throttled' = throttled \cup {cur[w]})
    BY <1>14, ThrottleMoves
  <2>2. CASE Reports(w, "dispatch", "throttled") /\ throttled' = throttled \cup {cur[w]}
    <3>0. PICK r, k : r = cur[w] /\ k = Upcoming(w)
      OBVIOUS
    <3>1. Steps[r][k] = "email" /\ r \in throttled'
      BY <2>1, <2>2, <3>0 DEF StepOf
    <3>2. Sent(r, k)'
      BY <3>1 DEF Sent
    <3>3. "throttled" \in Status
      BY DEF Status
    <3>. QED BY <1>6, <2>1, <2>2, <3>0, <3>2, <3>3
  <2>. QED BY <1>5, <1>8, <2>1, <2>2
<1>15. ASSUME NEW w \in Worker, Send(w)
       PROVE  AllConfirmed'
  <2>1. /\ pc[w] \in {"dispatch", "send"} /\ Len(reports[w]) < Len(Steps[cur[w]])
        /\ \/ /\ sends' = Count(sends, cur[w], Upcoming(w))
              /\ Reports(w, "dispatch", "sent")
           \/ Reports(w, "dispatch", "error")
    BY <1>15, SendMoves
  <2>0. PICK r, k : r = cur[w] /\ k = Upcoming(w)
    OBVIOUS
  <2>2. r \in Request /\ k \in DOMAIN Steps[r]
    BY <2>0, <2>1, InHand, StepsType, Locations DEF Handling, Upcoming
  <2>3. Counters(sends)
    BY DEF Types, EffectsOK
  <2>4. "sent" \in Status /\ "error" \in Status
    BY DEF Status
  <2>5. CASE sends' = Count(sends, r, k) /\ Reports(w, "dispatch", "sent")
    <3>1. sends'[r][k] = sends[r][k] + 1 /\ sends[r][k] \in Nat
      BY <2>2, <2>3, <2>5, Counted DEF Bumped
    <3>2. Sent(r, k)'
      BY <3>1 DEF Sent
    <3>. QED BY <1>6, <2>0, <2>1, <2>4, <2>5, <3>2
  <2>6. CASE Reports(w, "dispatch", "error")
    BY <1>6, <2>1, <2>4, <2>6
  <2>. QED BY <2>0, <2>1, <2>5, <2>6
<1>16. ASSUME NEW w \in Worker, Conclude(w)
       PROVE  AllConfirmed'
  <2>1. /\ pc[w] = "dispatch" /\ Len(reports[w]) = Len(Steps[cur[w]])
        /\ \/ Retries(w)
           \/ (\A i \in DOMAIN reports[w] : reports[w][i] # "error") /\ Stays(w, "record")
    BY <1>16, ConcludeMoves
  <2>2. CASE (\A i \in DOMAIN reports[w] : reports[w][i] # "error") /\ Stays(w, "record")
    <3>1. Handling(w) /\ DOMAIN reports[w] = DOMAIN Steps[cur[w]]
      BY <2>1, ReportedSteps, Locations DEF Handling
    <3>2. \A i \in DOMAIN Steps[cur[w]] : Sent(cur[w], i)
      BY <2>1, <2>2, <3>1 DEF AllConfirmed, Confirmed
    <3>3. Others(w) /\ cur'[w] = cur[w] /\ pc'[w] = "record"
      BY <2>2, MoveEffects DEF Holds
    <3>. QED BY <1>9, <3>1, <3>2, <3>3
  <2>. QED BY <1>5, <2>1, <2>2
<1>17. ASSUME NEW w \in Worker, Record(w)
       PROVE  AllConfirmed'
  <2>1. pc[w] = "record" /\ (Stays(w, "report") \/ \E i : Onward(w, "record", attempt[w], reports[w], i))
    BY <1>17, RecordMoves
  <2>2. Others(w) /\ cur'[w] = cur[w] /\ pc'[w] \in {"record", "report"}
    BY <2>1, MoveEffects, MovedEffect DEF Onward, Holds, Types
  <2>3. Handling(w) /\ \A i \in DOMAIN Steps[cur[w]] : Sent(cur[w], i)
    BY <2>1, Locations DEF AllConfirmed, Confirmed, Handling
  <2>. QED BY <1>9, <2>2, <2>3
<1>18. ASSUME NEW w \in Worker, Answer(w) \/ Ack(w) \/ HandleFailure(w) \/ DeadLetter(w) \/ AckDead(w) \/ Crash(w)
       PROVE  AllConfirmed'
  <2>. LocalOK
    BY DEF Types
  <2>1. \/ \E l \in {"take", "ack", "failed", "deadLetter", "ackDead"} : Stays(w, l)
        \/ Leaves(w)
    BY <1>18, AnswerMoves, AckMoves, GiveUpMoves, CrashMoves, DieMoved
  <2>2. Others(w) /\ pc'[w] \in {"take", "ack", "failed", "deadLetter", "ackDead", "down"}
    BY <2>1, MoveEffects
  <2>. QED BY <1>1, <1>3, <2>2
<1>. QED
  BY <1>7, <1>10, <1>11, <1>12, <1>13, <1>14, <1>15, <1>16, <1>17, <1>18 DEF Next, Step

LEMMA OkStep ==
  ASSUME Types, AllConfirmed, OkMeansSent, [Next]_vars
  PROVE  OkMeansSent'
<1>. SUFFICES ASSUME NEW r \in Request, "ok" \in answers'[r], NEW i \in DOMAIN Steps[r]
              PROVE  Sent(r, i)'
  BY DEF OkMeansSent, Sent
<1>1. CASE "ok" \in answers[r]
  BY <1>1, SentStays DEF OkMeansSent, Sent
<1>2. CASE "ok" \notin answers[r]
  <2>1. PICK w \in Worker : Answer(w)
    <3>1. answers' # answers
      BY <1>2
    <3>. QED BY <3>1 DEF Next, Step, vars, effects, Submit, Tick, Read, Take, PassOver, Refuse, Throttle, Send,
                        Conclude, Record, Ack, HandleFailure, DeadLetter, AckDead, Crash, Restart
  <2>2. /\ pc[w] = "report"
        /\ answers' = answers \/ answers' = [answers EXCEPT ![cur[w]] = @ \cup {Outcome(w)}]
    BY <2>1, AnswerMoves
  <2>3. r = cur[w] /\ Outcome(w) = "ok"
    BY <1>2, <2>2 DEF Types, EffectsOK
  <2>4. attempt[w] <= HarnessRetries
    <3>1. attempt[w] \in 0 .. HarnessRetries + 1 /\ ~(attempt[w] > HarnessRetries)
      BY <2>3 DEF Outcome, Types, LocalOK
    <3>. QED BY <3>1
  <2>5. Sent(r, i)
    BY <2>2, <2>3, <2>4 DEF AllConfirmed, Confirmed
  <2>. QED BY <2>5, SentStays
<1>. QED BY <1>1, <1>2

(* A result that is not an error means that everything was dispatched that *)
(* was neither throttled nor held back: an attempt that ends without an    *)
(* error has gone through every step, and what an earlier one or another   *)
(* worker dispatched is not taken back.                                    *)
THEOREM OkIsTrue == Spec => []OkMeansSent
<1>1. Init => AllConfirmed /\ OkMeansSent
  BY DEF Init, AllConfirmed, Confirmed, OkMeansSent
<1>2. Types /\ AllConfirmed /\ OkMeansSent /\ [Next]_vars => AllConfirmed' /\ OkMeansSent'
  BY ConfirmedStep, OkStep
<1>. QED BY <1>1, <1>2, AlwaysTypes, PTL DEF Spec

-----------------------------------------------------------------------------
(* Who has a request: what a worker handles is pending under its name,     *)
(* unless it did not notice that it acknowledged it, and so is what waits  *)
(* in its batch.                                                           *)
Mine(w) ==
  /\ Handling(w) => owner[cur[w]] = w \/ (pc[w] = "failed" /\ entry[cur[w]] = "done")
  /\ \A r \in todo[w] : owner[r] = w /\ (Handling(w) => cur[w] # r)
  /\ pc[w] \in {"down", "idle"} => todo[w] = {}
Owned == \A w \in Worker : Mine(w)

LEMMA Exclusive ==
  ASSUME Types, Owned, NEW w \in Worker, NEW v \in Worker, v # w
  PROVE  /\ Handling(w) /\ Handling(v) /\ pc[w] # "failed" => cur[v] # cur[w]
         /\ Handling(v) => cur[v] \notin todo[w]
<1>1. ASSUME NEW r \in Request, owner[r] = w
      PROVE  entry[r] # "done" /\ w # None
  BY <1>1 DEF Types, Pending
<1>2. Handling(v) => cur[v] \in Request /\ (owner[cur[v]] = v \/ entry[cur[v]] = "done")
  BY InHand DEF Owned, Mine
<1>3. Handling(w) /\ pc[w] # "failed" => owner[cur[w]] = w
  BY DEF Owned, Mine
<1>4. \A r \in todo[w] : owner[r] = w
  BY DEF Owned, Mine
<1>. QED BY <1>1, <1>2, <1>3, <1>4

(* The step of a worker that neither takes a request nor gives one up for  *)
(* another: what others have is not touched.                               *)
LEMMA OwnedMove ==
  ASSUME Types, Owned, NEW w \in Worker, Others(w), Mine(w)',
         \A r \in Request : owner[r] \in Worker \ {w} => owner'[r] = owner[r],
         \A r \in Request : entry[r] = "done" => entry'[r] = "done"
  PROVE  Owned'
<1>. SUFFICES ASSUME NEW v \in Worker PROVE Mine(v)'
  BY DEF Owned
<1>1. CASE v = w
  BY <1>1
<1>2. CASE v # w
  <2>1. pc'[v] = pc[v] /\ cur'[v] = cur[v] /\ todo'[v] = todo[v]
    BY <1>2 DEF Others
  <2>2. todo[v] \subseteq Request /\ (Handling(v) => cur[v] \in Request)
    BY InHand DEF Types, LocalOK
  <2>3. \A r \in Request : owner[r] = v => owner'[r] = v
    BY <1>2
  <2>4. Mine(v)
    BY DEF Owned
  <2>. QED BY <2>1, <2>2, <2>3, <2>4 DEF Mine, Handling
<1>. QED BY <1>1, <1>2

(* It keeps what it has.                                                   *)
LEMMA MineKept ==
  ASSUME Types, Owned, NEW w \in Worker, Handling(w), Holds(w), UNCHANGED <<entry, owner>>,
         pc'[w] \notin {"down", "idle"},
         Handling(w)' => pc[w] # "failed" \/ owner[cur[w]] = w
  PROVE  Mine(w)'
<1>1. Mine(w)
  BY DEF Owned
<1>. QED BY <1>1 DEF Mine, Holds

LEMMA OwnedOnward ==
  ASSUME Types, Owned, NEW w \in Worker, Handling(w), Holds(w), Others(w), UNCHANGED <<entry, owner>>,
         pc'[w] \notin {"down", "idle"},
         Handling(w)' => pc[w] # "failed" \/ owner[cur[w]] = w
  PROVE  Owned'
BY MineKept, OwnedMove

LEMMA OwnedSettled ==
  ASSUME Types, Owned, NEW w \in Worker, Handling(w), pc[w] # "failed", Holds(w), Others(w),
         NEW state \in {"done", "dead"}, Settle(cur[w], state),
         pc'[w] = "take" \/ (pc'[w] = "failed" /\ state = "done")
  PROVE  Owned'
<1>1. Mine(w) /\ cur[w] \in Request /\ todo[w] \subseteq Request
  BY InHand DEF Owned, Types, LocalOK
<1>2. owner[cur[w]] = w /\ entry[cur[w]] = "pending"
  <2>1. owner[cur[w]] = w
    BY <1>1 DEF Mine
  <2>. QED BY <1>1, <2>1 DEF Types, Pending
<1>3. /\ entry'[cur[w]] = state
      /\ \A r \in Request : r # cur[w] => owner'[r] = owner[r] /\ entry'[r] = entry[r]
  BY <1>1 DEF Settle, Types, QueueOK
<1>4. pc'[w] = "take" => ~Handling(w)'
  BY DEF Handling, Elsewhere
<1>5. Mine(w)'
  BY <1>1, <1>2, <1>3, <1>4 DEF Mine, Holds
<1>. QED BY <1>2, <1>3, <1>5, OwnedMove

LEMMA OwnedLeft ==
  ASSUME Types, Owned, NEW w \in Worker, Die(w)
  PROVE  Owned'
<1>1. /\ Leaves(w)
      /\ entry' = [r \in Request |-> IF owner[r] = w THEN "stranded" ELSE entry[r]]
      /\ owner' = [r \in Request |-> IF owner[r] = w THEN None ELSE owner[r]]
  BY DieMoved DEF Types
<1>2. pc'[w] = "down" /\ todo'[w] = {} /\ Others(w)
  BY <1>1, MoveEffects
<1>3. Mine(w)'
  BY <1>2 DEF Mine, Handling, Elsewhere
<1>4. ASSUME NEW r \in Request, entry[r] = "done"
      PROVE  entry'[r] = "done"
  <2>1. owner[r] # w
    BY <1>4 DEF Types, Pending
  <2>. QED BY <1>1, <1>4, <2>1
<1>5. \A r \in Request : owner[r] \in Worker \ {w} => owner'[r] = owner[r]
  BY <1>1
<1>. QED BY <1>2, <1>3, <1>4, <1>5, OwnedMove

LEMMA OwnedStep ==
  ASSUME Types, Owned, [Next]_vars
  PROVE  Owned'
<1>. LocalOK
  BY DEF Types
<1>1. CASE UNCHANGED vars \/ Tick
  BY <1>1 DEF vars, Tick, queue, loop, Owned, Mine, Handling
<1>2. ASSUME NEW r \in Request, Submit(r)
      PROVE  Owned'
  <2>1. entry' = [entry EXCEPT ![r] = "new"] /\ entry[r] = "absent" /\ UNCHANGED <<owner, loop>>
    BY <1>2 DEF Submit
  <2>2. \A q \in Request : entry[q] = "done" => entry'[q] = "done"
    BY <2>1 DEF Types, QueueOK
  <2>3. \A w \in Worker : Handling(w) => cur[w] \in Request
    BY InHand
  <2>. QED BY <2>1, <2>2, <2>3 DEF Owned, Mine, Handling, loop
<1>3. ASSUME NEW w \in Worker, Read(w)
      PROVE  Owned'
  <2>1. PICK batch \in SUBSET Request :
              /\ Moved(w, "take", batch, cur[w], attempt[w], reports[w], recorded[w])
              /\ \A r \in batch : entry[r] = "new" \/ owner[r] = w
              /\ entry' = [r \in Request |-> IF r \in batch THEN "pending" ELSE entry[r]]
              /\ owner' = [r \in Request |-> IF r \in batch THEN w ELSE owner[r]]
              /\ tries' = [r \in Request |-> IF r \in batch THEN tries[r] + 1 ELSE tries[r]]
    BY <1>3, ReadMoves
  <2>2. Others(w) /\ pc'[w] = "take" /\ todo'[w] = batch
    BY <2>1, MovedEffect
  <2>3. Mine(w)'
    BY <2>1, <2>2 DEF Mine, Handling, Elsewhere
  <2>4. ASSUME NEW r \in Request
        PROVE  /\ owner[r] \in Worker \ {w} => owner'[r] = owner[r]
               /\ entry[r] = "done" => entry'[r] = "done"
    <3>1. owner[r] \in Worker \ {w} => r \notin batch
      BY <2>1 DEF Types, Pending
    <3>2. entry[r] = "done" => r \notin batch
      BY <2>1 DEF Types, Pending
    <3>. QED BY <2>1, <3>1, <3>2
  <2>. QED BY <2>2, <2>3, <2>4, OwnedMove
<1>4. ASSUME NEW w \in Worker, Take(w)
      PROVE  Owned'
  <2>1. pc[w] = "take" /\ UNCHANGED queue
    BY <1>4, TakeMoves
  <2>2. \A r \in todo[w] : owner[r] = w
    BY DEF Owned, Mine
  <2>3. CASE Moved(w, "idle", {}, None, 0, <<>>, 0)
    <3>1. Others(w) /\ pc'[w] = "idle" /\ todo'[w] = {}
      BY <2>3, MovedEffect
    <3>2. Mine(w)'
      BY <3>1 DEF Mine, Handling, Elsewhere
    <3>. QED BY <2>1, <3>1, <3>2, OwnedMove DEF queue
  <2>4. ASSUME NEW r \in todo[w], NEW l \in {"failed", "dispatch"}, Moved(w, l, todo[w] \ {r}, r, 0, <<>>, 0)
        PROVE  Owned'
    <3>1. Others(w) /\ pc'[w] = l /\ todo'[w] = todo[w] \ {r} /\ cur'[w] = r
      BY <2>4, MovedEffect
    <3>2. Mine(w)'
      BY <2>1, <2>2, <3>1 DEF Mine, queue
    <3>. QED BY <2>1, <3>1, <3>2, OwnedMove DEF queue
  <2>. QED BY <1>4, <2>3, <2>4, TakeMoves
<1>5. ASSUME NEW w \in Worker, Handling(w), pc[w] # "failed", UNCHANGED queue,
             NEW l, pc'[w] = l, l \notin {"down", "idle"}, Holds(w), Others(w)
      PROVE  Owned'
  BY <1>5, OwnedOnward DEF queue
<1>6. ASSUME NEW w \in Worker, PassOver(w) \/ Refuse(w) \/ Conclude(w) \/ Throttle(w) \/ Send(w)
      PROVE  Owned'
  <2>1. pc[w] \in {"dispatch", "send"} /\ UNCHANGED queue
    BY <1>6, PassOverMoves, RefuseMoves, ConcludeMoves, ThrottleMoves, SendMoves
  <2>2. \/ Retries(w) \/ Stays(w, "record") \/ Stays(w, "send")
        \/ \E status : Reports(w, "dispatch", status)
    BY <1>6, PassOverMoves, RefuseMoves, ConcludeMoves, ThrottleMoves, SendMoves
  <2>3. Holds(w) /\ Others(w) /\ pc'[w] \in {"report", "dispatch", "record", "send"}
    BY <2>2, MoveEffects
  <2>. QED BY <1>5, <2>1, <2>3, Locations DEF Handling
<1>7. ASSUME NEW w \in Worker, Record(w) \/ Answer(w)
      PROVE  Owned'
  <2>1. pc[w] \in {"record", "report"} /\ UNCHANGED queue
    BY <1>7, RecordMoves, AnswerMoves
  <2>2. \/ Stays(w, "report") \/ Stays(w, "ack") \/ Stays(w, "failed")
        \/ \E i : Onward(w, "record", attempt[w], reports[w], i)
    BY <1>7, RecordMoves, AnswerMoves
  <2>3. Holds(w) /\ Others(w) /\ pc'[w] \in {"report", "ack", "failed", "record"}
    BY <2>2, MoveEffects, MovedEffect DEF Onward, Holds
  <2>. QED BY <1>5, <2>1, <2>3, Locations DEF Handling
<1>8. ASSUME NEW w \in Worker, Ack(w)
      PROVE  Owned'
  <2>1. pc[w] = "ack" /\ Handling(w) /\ cur[w] \in Request
    BY <1>8, AckMoves, InHand, Locations DEF Handling
  <2>2. Holds(w) /\ Others(w) /\ pc'[w] \in {"take", "failed"}
    BY <1>8, AckMoves, MoveEffects
  <2>3. CASE Settle(cur[w], "done")
    BY <2>1, <2>2, <2>3, OwnedSettled
  <2>4. CASE UNCHANGED <<entry, owner>>
    BY <2>1, <2>2, <2>4, OwnedOnward
  <2>. QED BY <1>8, <2>3, <2>4, AckMoves
<1>9. ASSUME NEW w \in Worker, HandleFailure(w) \/ DeadLetter(w) \/ AckDead(w)
      PROVE  Owned'
  <2>1. pc[w] \in {"failed", "deadLetter", "ackDead"} /\ Handling(w)
    BY <1>9, GiveUpMoves, Locations DEF Handling
  <2>2. CASE Die(w)
    BY <2>2, OwnedLeft
  <2>3. CASE Stays(w, "take") /\ UNCHANGED <<entry, owner>>
    <3>1. Holds(w) /\ Others(w) /\ pc'[w] = "take" /\ ~Handling(w)'
      BY <2>3, MoveEffects DEF Handling, Elsewhere
    <3>. QED BY <2>1, <2>3, <3>1, OwnedOnward
  <2>4. CASE Stays(w, "deadLetter") /\ UNCHANGED <<entry, owner>> /\ owner[cur[w]] = w
    <3>1. Holds(w) /\ Others(w) /\ pc'[w] = "deadLetter"
      BY <2>4, MoveEffects
    <3>. QED BY <2>1, <2>4, <3>1, OwnedOnward
  <2>5. CASE Stays(w, "ackDead") /\ UNCHANGED <<entry, owner>> /\ pc[w] = "deadLetter"
    <3>1. Holds(w) /\ Others(w) /\ pc'[w] = "ackDead"
      BY <2>5, MoveEffects
    <3>. QED BY <2>1, <2>5, <3>1, OwnedOnward
  <2>6. CASE Stays(w, "take") /\ Settle(cur[w], "dead") /\ pc[w] = "ackDead"
    <3>1. Holds(w) /\ Others(w) /\ pc'[w] = "take"
      BY <2>6, MoveEffects
    <3>. QED BY <2>1, <2>6, <3>1, OwnedSettled
  <2>. QED BY <1>9, <2>2, <2>3, <2>4, <2>5, <2>6, GiveUpMoves
<1>10. ASSUME NEW w \in Worker, Crash(w)
       PROVE  Owned'
  BY <1>10, CrashMoves, OwnedLeft
<1>11. ASSUME NEW w \in Worker, Restart(w)
       PROVE  Owned'
  <2>1. pc[w] = "down" /\ UNCHANGED queue /\ Holds(w) /\ Others(w) /\ pc'[w] = "idle"
    BY <1>11, RestartMoves, MoveEffects
  <2>2. todo[w] = {}
    BY <2>1 DEF Owned, Mine
  <2>3. Mine(w)'
    BY <2>1, <2>2 DEF Mine, Holds, Handling, Elsewhere
  <2>. QED BY <2>1, <2>3, OwnedMove DEF queue
<1>. QED
  BY <1>1, <1>2, <1>3, <1>4, <1>6, <1>7, <1>8, <1>9, <1>10, <1>11 DEF Next, Step

-----------------------------------------------------------------------------
(* How often a step may yet be dispatched by the worker that has the       *)
(* request, if no mishap occurs: once in each attempt that is left, and    *)
(* attempts without a mishap are repeated only for an incomplete email or  *)
(* an error that was paid for.  A request that failed is begun anew.       *)
HasError(s) == \E j \in DOMAIN s : s[j] = "error"
Bit(b) == IF b THEN 1 ELSE 0
OwedBy(l, c, a, s, i) ==
  IF l \in {"dispatch", "send"}
  THEN IF Flawed(c) THEN HarnessRetries + 1 - a - Bit(i <= Len(s))
                    ELSE Bit(i > Len(s)) + Bit(HasError(s))
  ELSE IF l \in {"record", "report", "ack"} THEN 0 ELSE Executions(c)
Owed(w, i) == OwedBy(pc[w], cur[w], attempt[w], reports[w], i)
Most(r) == Executions(r) * (1 + spent[r])
Handles(w, r) == Handling(w) /\ cur[w] = r
Open == {"absent", "new", "pending"}

LedgerAt(r, i) ==
  /\ sends[r][i] <= Most(r)
  /\ \A w \in Worker : Handles(w, r) => sends[r][i] + Owed(w, i) <= Most(r)
  /\ \/ entry[r] \notin Open
     \/ \E w \in Worker : Handles(w, r)
     \/ sends[r][i] + Executions(r) <= Most(r)
SendLedger == \A r \in Request : \A i \in DOMAIN Steps[r] : LedgerAt(r, i)

LEMMA ExecutionsType ==
  \A r : /\ Executions(r) \in Nat /\ Executions(r) >= 1
         /\ Flawed(r) => Executions(r) = HarnessRetries + 1
         /\ ~Flawed(r) => Executions(r) = 1
BY DEF Executions

LEMMA Paid == \A x \in Nat, y \in Nat : /\ x * (1 + y) \in Nat /\ x * (1 + (y + 1)) = x * (1 + y) + x
                                        /\ x * (1 + 0) = x
OBVIOUS

(* A payment makes room for one more execution.                            *)
LEMMA MostGrows ==
  ASSUME Types, NEW r \in Request
  PROVE  /\ Most(r) \in Nat
         /\ spent'[r] = spent[r] => Most(r)' = Most(r)
         /\ spent'[r] = spent[r] + 1 => Most(r)' = Most(r) + Executions(r)
<1>1. spent[r] \in Nat /\ Executions(r) \in Nat
  BY ExecutionsType DEF Types, ChargedOK
<1>2. spent'[r] = spent[r] => Most(r)' = Most(r)
  BY DEF Most
<1>3. ASSUME spent'[r] = spent[r] + 1
      PROVE  Most(r)' = Most(r) + Executions(r)
  <2>1. Most(r)' = Executions(r) * (1 + (spent[r] + 1))
    BY <1>3 DEF Most
  <2>. QED BY <1>1, <2>1, Paid DEF Most
<1>4. Most(r) \in Nat
  BY <1>1, Paid DEF Most
<1>. QED BY <1>2, <1>3, <1>4

LEMMA OwedValues ==
  ASSUME NEW l, NEW c, NEW a \in 0 .. HarnessRetries + 1, NEW s \in Seq(Status), NEW i \in Nat
  PROVE  /\ l \in {"dispatch", "send"} /\ Flawed(c) /\ a <= HarnessRetries =>
              /\ i <= Len(s) => OwedBy(l, c, a, s, i) = HarnessRetries - a
              /\ i > Len(s) => OwedBy(l, c, a, s, i) = HarnessRetries + 1 - a
         /\ l \in {"dispatch", "send"} /\ ~Flawed(c) =>
              /\ i <= Len(s) /\ ~HasError(s) => OwedBy(l, c, a, s, i) = 0
              /\ i <= Len(s) /\ HasError(s) => OwedBy(l, c, a, s, i) = 1
              /\ i > Len(s) /\ ~HasError(s) => OwedBy(l, c, a, s, i) = 1
              /\ i > Len(s) /\ HasError(s) => OwedBy(l, c, a, s, i) = 2
         /\ l \in {"record", "report", "ack"} => OwedBy(l, c, a, s, i) = 0
         /\ l \in {"failed", "deadLetter", "ackDead"} => OwedBy(l, c, a, s, i) = Executions(c)
         /\ (l \in {"dispatch", "send"} => a <= HarnessRetries) => OwedBy(l, c, a, s, i) \in Nat
<1>1. Len(s) \in Nat /\ HarnessRetries \in Nat /\ a \in Nat
  OBVIOUS
<1>2. /\ i <= Len(s) => Bit(i <= Len(s)) = 1 /\ Bit(i > Len(s)) = 0
      /\ i > Len(s) => Bit(i <= Len(s)) = 0 /\ Bit(i > Len(s)) = 1
      /\ i <= Len(s) \/ i > Len(s)
  BY <1>1 DEF Bit
<1>3. /\ HasError(s) => Bit(HasError(s)) = 1
      /\ ~HasError(s) => Bit(HasError(s)) = 0
  BY DEF Bit
<1>4. CASE l \in {"dispatch", "send"} /\ Flawed(c)
  BY <1>1, <1>2, <1>4 DEF OwedBy
<1>5. CASE l \in {"dispatch", "send"} /\ ~Flawed(c)
  BY <1>1, <1>2, <1>3, <1>5 DEF OwedBy
<1>6. CASE l \notin {"dispatch", "send"}
  BY <1>6, ExecutionsType DEF OwedBy
<1>. QED BY <1>4, <1>5, <1>6

LEMMA ErrorReported ==
  ASSUME NEW s \in Seq(Status), NEW status \in Status, NEW t, t = Append(s, status)
  PROVE  /\ HasError(s) => HasError(t)
         /\ status # "error" /\ HasError(t) => HasError(s)
<1>1. /\ DOMAIN s = 1 .. Len(s) /\ DOMAIN t = 1 .. Len(s) + 1 /\ Len(s) \in Nat
      /\ t[Len(s) + 1] = status /\ \A j \in 1 .. Len(s) : t[j] = s[j]
  BY AppendType
<1>2. \A j \in 1 .. Len(s) + 1 : j \in 1 .. Len(s) \/ j = Len(s) + 1
  BY <1>1
<1>3. \A j \in 1 .. Len(s) : j \in 1 .. Len(s) + 1
  BY <1>1
<1>. QED BY <1>1, <1>2, <1>3 DEF HasError

(* Reporting on a step.                                                    *)
LEMMA OwedReport ==
  ASSUME NEW l \in {"dispatch", "send"}, NEW c, NEW a \in 0 .. HarnessRetries, NEW s \in Seq(Status),
         NEW i \in Nat, NEW t \in Seq(Status), Len(t) = Len(s) + 1, HasError(s) => HasError(t)
  PROVE  /\ OwedBy(l, c, a, s, i) \in Nat /\ OwedBy("dispatch", c, a, t, i) \in Nat
         /\ (HasError(t) => HasError(s)) =>
              /\ OwedBy("dispatch", c, a, t, i) <= OwedBy(l, c, a, s, i)
              /\ i = Len(s) + 1 => OwedBy("dispatch", c, a, t, i) + 1 <= OwedBy(l, c, a, s, i)
         /\ OwedBy("dispatch", c, a, t, i) <= OwedBy(l, c, a, s, i) + 1
         /\ i = Len(s) + 1 => OwedBy("dispatch", c, a, t, i) <= OwedBy(l, c, a, s, i)
<1>. DEFINE o == OwedBy(l, c, a, s, i)
            p == OwedBy("dispatch", c, a, t, i)
<1>1. a \in 0 .. HarnessRetries + 1 /\ a <= HarnessRetries /\ HarnessRetries \in Nat /\ Len(s) \in Nat
  OBVIOUS
<1>2. o \in Nat /\ p \in Nat
  BY <1>1, OwedValues
<1>3. CASE Flawed(c)
  <2>1. /\ i <= Len(s) => o = HarnessRetries - a
        /\ i > Len(s) => o = HarnessRetries + 1 - a
    BY <1>1, <1>3, OwedValues
  <2>2. /\ i <= Len(t) => p = HarnessRetries - a
        /\ i > Len(t) => p = HarnessRetries + 1 - a
    BY <1>1, <1>3, OwedValues
  <2>. HIDE DEF o, p
  <2>3. p <= o /\ (i = Len(s) + 1 => p + 1 <= o)
    BY <1>1, <1>2, <2>1, <2>2
  <2>. QED BY <1>2, <2>3 DEF o, p
<1>4. CASE ~Flawed(c)
  <2>1. /\ i <= Len(s) /\ ~HasError(s) => o = 0
        /\ i <= Len(s) /\ HasError(s) => o = 1
        /\ i > Len(s) /\ ~HasError(s) => o = 1
        /\ i > Len(s) /\ HasError(s) => o = 2
    BY <1>1, <1>4, OwedValues
  <2>2. /\ i <= Len(t) /\ ~HasError(t) => p = 0
        /\ i <= Len(t) /\ HasError(t) => p = 1
        /\ i > Len(t) /\ ~HasError(t) => p = 1
        /\ i > Len(t) /\ HasError(t) => p = 2
    BY <1>1, <1>4, OwedValues
  <2>. HIDE DEF o, p
  <2>3. /\ (HasError(t) => HasError(s)) => p <= o /\ (i = Len(s) + 1 => p + 1 <= o)
        /\ p <= o + 1
        /\ i = Len(s) + 1 => p <= o
    BY <1>1, <2>1, <2>2
  <2>. QED BY <1>2, <2>3 DEF o, p
<1>. QED BY <1>3, <1>4

(* Another attempt.                                                        *)
LEMMA OwedRetry ==
  ASSUME NEW c, NEW a \in 0 .. HarnessRetries, NEW s \in Seq(Status), NEW i \in Nat, i > 0,
         NEW b \in 0 .. HarnessRetries + 1, a < b,
         NEW l, l = "report" \/ (l = "dispatch" /\ b <= HarnessRetries),
         NEW t \in Seq(Status), Len(t) < i, ~HasError(t)
  PROVE  /\ OwedBy("dispatch", c, a, s, i) \in Nat /\ OwedBy(l, c, b, t, i) \in Nat
         /\ OwedBy(l, c, b, t, i) <= OwedBy("dispatch", c, a, s, i) + Executions(c)
         /\ Flawed(c) \/ (i <= Len(s) /\ HasError(s)) =>
              OwedBy(l, c, b, t, i) <= OwedBy("dispatch", c, a, s, i)
<1>. DEFINE o == OwedBy("dispatch", c, a, s, i)
            p == OwedBy(l, c, b, t, i)
            e == Executions(c)
<1>1. /\ Len(s) \in Nat /\ a \in 0 .. HarnessRetries + 1 /\ HarnessRetries \in Nat
      /\ a \in Nat /\ a <= HarnessRetries
      /\ i > Len(t)
  OBVIOUS
<1>2. o \in Nat /\ e \in Nat /\ e >= 1
  BY <1>1, OwedValues, ExecutionsType
<1>3. CASE l = "report"
  <2>1. p = 0
    BY <1>1, <1>3, OwedValues
  <2>. QED BY <1>2, <2>1
<1>4. CASE l = "dispatch" /\ b <= HarnessRetries /\ Flawed(c)
  <2>1. p = HarnessRetries + 1 - b
    BY <1>1, <1>4, OwedValues
  <2>2. o = HarnessRetries - a \/ o = HarnessRetries + 1 - a
    BY <1>1, <1>4, OwedValues
  <2>. HIDE DEF o, p, e
  <2>3. p \in Nat /\ p <= o
    BY <1>1, <1>4, <2>1, <2>2
  <2>. QED BY <1>2, <2>3 DEF o, p, e
<1>5. CASE l = "dispatch" /\ ~Flawed(c)
  <2>1. p = 1
    BY <1>1, <1>5, OwedValues
  <2>2. i <= Len(s) /\ HasError(s) => o = 1
    BY <1>1, <1>5, OwedValues
  <2>. HIDE DEF o, p, e
  <2>3. p \in Nat /\ p <= o + e /\ (i <= Len(s) /\ HasError(s) => p <= o)
    BY <1>2, <2>1, <2>2
  <2>. QED BY <1>2, <1>5, <2>3 DEF o, p, e
<1>. QED BY <1>1, <1>3, <1>4, <1>5

LEMMA OwedType ==
  ASSUME Types, NEW w \in Worker, Handling(w), NEW i \in DOMAIN Steps[cur[w]]
  PROVE  Owed(w, i) \in Nat /\ i \in Nat /\ i > 0
<1>1. i \in Nat /\ i > 0
  BY InHand, StepsType
<1>2. /\ attempt[w] \in 0 .. HarnessRetries + 1 /\ reports[w] \in Seq(Status)
      /\ pc[w] \in {"dispatch", "send"} => attempt[w] <= HarnessRetries
  BY InHand
<1>. QED BY <1>1, <1>2, OwedValues DEF Owed

(* Another worker's claim is not touched.                                  *)
LEMMA OwedKept ==
  ASSUME NEW w \in Worker, Others(w), NEW v \in Worker, v # w, NEW r
  PROVE  /\ Handles(v, r)' <=> Handles(v, r)
         /\ \A i : Owed(v, i)' = Owed(v, i)
BY DEF Others, Handles, Handling, Owed

(* What a step charges.                                                    *)
Charged(w) == UNCHANGED spent \/ Pays(w)

LEMMA FreeCharged == \A w : Free => Charged(w)
BY DEF Free, charged, Charged

LEMMA ChargedEffect ==
  ASSUME Types, NEW w, Charged(w), NEW r \in Request
  PROVE  /\ Most(r) \in Nat /\ Most(r)' \in Nat /\ Most(r) <= Most(r)'
         /\ Pays(w) /\ cur[w] = r => Most(r)' = Most(r) + Executions(r)
<1>1. spent[r] \in Nat /\ Executions(r) \in Nat
  BY ExecutionsType DEF Types, ChargedOK
<1>2. spent'[r] = spent[r] \/ spent'[r] = spent[r] + 1
  BY <1>1 DEF Charged, Pays, Types, ChargedOK
<1>3. Pays(w) /\ cur[w] = r => spent'[r] = spent[r] + 1
  BY DEF Pays, Types, ChargedOK
<1>4. Most(r) \in Nat /\ (Most(r)' = Most(r) \/ Most(r)' = Most(r) + Executions(r))
  BY <1>2, MostGrows
<1>5. Pays(w) /\ cur[w] = r => Most(r)' = Most(r) + Executions(r)
  BY <1>3, MostGrows
<1>6. Most(r)' \in Nat /\ Most(r) <= Most(r)'
  BY <1>1, <1>4
<1>. QED BY <1>4, <1>5, <1>6

(* The ledger of a request that the worker does not handle, or whose step  *)
(* it leaves alone.                                                        *)
LEMMA LedgerElsewhere ==
  ASSUME Types, NEW w \in Worker, Others(w), NEW r \in Request, NEW i \in DOMAIN Steps[r],
         LedgerAt(r, i), sends'[r][i] = sends[r][i], Charged(w),
         entry'[r] \in Open => entry[r] \in Open, ~Handles(w, r)', ~Handles(w, r)
  PROVE  LedgerAt(r, i)'
<1>. DEFINE x == sends[r][i]
            m == Most(r)
            n == Most(r)'
            e == Executions(r)
<1>1. x \in Nat /\ m \in Nat /\ n \in Nat /\ m <= n /\ e \in Nat
  BY ChargedEffect, ExecutionsType DEF Types, EffectsOK, Counters
<1>2. /\ x <= m
      /\ \A v \in Worker : Handles(v, r) => x + Owed(v, i) <= m
      /\ entry[r] \notin Open \/ (\E v \in Worker : Handles(v, r)) \/ x + e <= m
  BY DEF LedgerAt
<1>3. \A v \in Worker : Handles(v, r) => Owed(v, i) \in Nat
  BY OwedType DEF Handles
<1>4. \A v \in Worker : Handles(v, r)' => Handles(v, r) /\ Owed(v, i)' = Owed(v, i)
  BY OwedKept
<1>5. (\E v \in Worker : Handles(v, r)) => \E v \in Worker : Handles(v, r)'
  BY OwedKept
<1>. HIDE DEF x, m, n, e
<1>6. x <= n
  BY <1>1, <1>2
<1>7. ASSUME NEW v \in Worker, Handles(v, r)'
      PROVE  x + Owed(v, i)' <= n
  BY <1>1, <1>2, <1>3, <1>4, <1>7
<1>8. entry'[r] \notin Open \/ (\E v \in Worker : Handles(v, r)') \/ x + e <= n
  BY <1>1, <1>2, <1>5
<1>. QED BY <1>6, <1>7, <1>8 DEF LedgerAt, x, n, e

(* The ledger of the request in hand: what the step adds to what was sent  *)
(* and to what is owed is paid for.                                        *)
LEMMA LedgerInHand ==
  ASSUME Types, NEW w \in Worker, Others(w), NEW r \in Request, NEW i \in DOMAIN Steps[r],
         LedgerAt(r, i), Charged(w), Handles(w, r), Handles(w, r)',
         sends'[r][i] \in Nat, Owed(w, i)' \in Nat,
         \/ sends'[r][i] + Owed(w, i)' <= sends[r][i] + Owed(w, i)
         \/ /\ Pays(w)
            /\ sends'[r][i] + Owed(w, i)' <= sends[r][i] + Owed(w, i) + Executions(r),
         \/ sends'[r][i] = sends[r][i]
         \/ \A v \in Worker : v # w => ~Handles(v, r)
  PROVE  LedgerAt(r, i)'
<1>. DEFINE x == sends[r][i]
            y == sends'[r][i]
            o == Owed(w, i)
            p == Owed(w, i)'
            m == Most(r)
            n == Most(r)'
            e == Executions(r)
<1>1. x \in Nat /\ m \in Nat /\ n \in Nat /\ m <= n /\ e \in Nat /\ o \in Nat /\ y \in Nat /\ p \in Nat
  BY ChargedEffect, ExecutionsType, OwedType DEF Types, EffectsOK, Counters, Handles
<1>2. x + o <= m /\ \A v \in Worker : Handles(v, r) => x + Owed(v, i) <= m
  BY DEF LedgerAt
<1>3. Pays(w) => n = m + e
  BY ChargedEffect DEF Handles
<1>4. y + p <= x + o \/ (Pays(w) /\ y + p <= x + o + e)
  OBVIOUS
<1>5. \A v \in Worker : Handles(v, r) => Owed(v, i) \in Nat
  BY OwedType DEF Handles
<1>6. \A v \in Worker : v # w /\ Handles(v, r)' => Handles(v, r) /\ Owed(v, i)' = Owed(v, i) /\ y = x
  BY OwedKept
<1>. HIDE DEF x, y, o, p, m, n, e
<1>7. y + p <= n /\ y <= n
  BY <1>1, <1>2, <1>3, <1>4
<1>8. ASSUME NEW v \in Worker, Handles(v, r)'
      PROVE  y + Owed(v, i)' <= n
  <2>1. CASE v = w
    BY <1>7, <2>1 DEF p
  <2>2. CASE v # w
    BY <1>1, <1>2, <1>5, <1>6, <1>8, <2>2
  <2>. QED BY <2>1, <2>2
<1>9. \E v \in Worker : Handles(v, r)'
  OBVIOUS
<1>. QED BY <1>7, <1>8, <1>9 DEF LedgerAt, y, n

(* The worker goes on with its request.                                    *)
LEMMA LedgerOnward ==
  ASSUME Types, Types', SendLedger, NEW w \in Worker, Others(w), Charged(w), NEW c \in Request,
         Handling(w), cur[w] = c, Handling(w)', cur'[w] = c,
         \A r \in Request : entry'[r] \in Open => entry[r] \in Open,
         \A r \in Request : \A i \in DOMAIN Steps[r] : r # c => sends'[r][i] = sends[r][i],
         \A i \in DOMAIN Steps[c] :
           \/ sends'[c][i] + Owed(w, i)' <= sends[c][i] + Owed(w, i)
           \/ Pays(w) /\ sends'[c][i] + Owed(w, i)' <= sends[c][i] + Owed(w, i) + Executions(c),
         \/ \A i \in DOMAIN Steps[c] : sends'[c][i] = sends[c][i]
         \/ \A v \in Worker : v # w => ~Handles(v, c)
  PROVE  SendLedger'
<1>. SUFFICES ASSUME NEW r \in Request, NEW i \in DOMAIN Steps[r]
              PROVE  LedgerAt(r, i)'
  BY DEF SendLedger
<1>1. LedgerAt(r, i)
  BY DEF SendLedger
<1>2. CASE r = c
  <2>1. Handles(w, c) /\ Handles(w, c)'
    BY DEF Handles
  <2>2. sends'[c][i] \in Nat
    BY <1>2 DEF Types, EffectsOK, Counters
  <2>3. Owed(w, i)' \in Nat
    <3>1. /\ attempt'[w] \in 0 .. HarnessRetries + 1 /\ reports'[w] \in Seq(Status)
          /\ pc'[w] \in {"dispatch", "send"} => attempt'[w] <= HarnessRetries
      BY DEF Types, LocalOK
    <3>2. i \in Nat
      BY StepsType
    <3>. QED BY <3>1, <3>2, OwedValues DEF Owed
  <2>. QED BY <1>1, <1>2, <2>1, <2>2, <2>3, LedgerInHand
<1>3. CASE r # c
  <2>1. ~Handles(w, r) /\ ~Handles(w, r)'
    BY <1>3 DEF Handles
  <2>. QED BY <1>1, <1>3, <2>1, LedgerElsewhere
<1>. QED BY <1>2, <1>3

(* It is through with it, or fails to acknowledge a failure; or it had     *)
(* none.                                                                   *)
LEMMA LedgerLeft ==
  ASSUME Types, SendLedger, NEW w \in Worker, Others(w), Charged(w), ~Handling(w)', UNCHANGED sends,
         \A r \in Request : entry'[r] \in Open => entry[r] \in Open,
         Handling(w) => pc[w] = "failed" \/ entry'[cur[w]] \notin Open
  PROVE  SendLedger'
<1>. SUFFICES ASSUME NEW r \in Request, NEW i \in DOMAIN Steps[r]
              PROVE  LedgerAt(r, i)'
  BY DEF SendLedger
<1>1. LedgerAt(r, i) /\ ~Handles(w, r)' /\ sends'[r][i] = sends[r][i]
  BY DEF SendLedger, Handles
<1>2. CASE ~Handles(w, r)
  BY <1>1, <1>2, LedgerElsewhere
<1>3. CASE Handles(w, r)
  <2>. DEFINE x == sends[r][i]
              m == Most(r)
              n == Most(r)'
              e == Executions(r)
  <2>1. x \in Nat /\ m \in Nat /\ n \in Nat /\ m <= n /\ e \in Nat
    BY ChargedEffect, ExecutionsType DEF Types, EffectsOK, Counters
  <2>2. \A v \in Worker : Handles(v, r) => x + Owed(v, i) <= m /\ Owed(v, i) \in Nat
    BY <1>1, OwedType DEF LedgerAt, Handles
  <2>3. \A v \in Worker : Handles(v, r)' => Handles(v, r) /\ Owed(v, i)' = Owed(v, i)
    BY <1>1, OwedKept
  <2>4. entry'[r] \notin Open \/ x + e <= m
    <3>1. CASE pc[w] = "failed"
      <4>1. attempt[w] \in 0 .. HarnessRetries + 1 /\ reports[w] \in Seq(Status) /\ i \in Nat
        BY StepsType DEF Types, LocalOK
      <4>2. Owed(w, i) = e
        BY <1>3, <3>1, <4>1, OwedValues DEF Owed, Handles
      <4>. QED BY <1>3, <2>2, <4>2
    <3>2. CASE pc[w] # "failed"
      BY <1>3, <3>2 DEF Handles
    <3>. QED BY <3>1, <3>2
  <2>5. x <= m
    BY <1>1 DEF LedgerAt
  <2>. HIDE DEF x, m, n, e
  <2>6. x <= n /\ (entry'[r] \notin Open \/ x + e <= n)
    BY <2>1, <2>4, <2>5
  <2>7. ASSUME NEW v \in Worker, Handles(v, r)'
        PROVE  x + Owed(v, i)' <= n
    BY <2>1, <2>2, <2>3, <2>7
  <2>. QED BY <1>1, <2>6, <2>7 DEF LedgerAt, x, n, e
<1>. QED BY <1>2, <1>3

(* It begins a request that is pending under its name.                     *)
LEMMA LedgerTaken ==
  ASSUME Types, Owned, SendLedger, NEW w \in Worker, NEW c \in todo[w], NEW l \in {"failed", "dispatch"},
         pc[w] = "take", Moved(w, l, todo[w] \ {c}, c, 0, <<>>, 0), UNCHANGED <<entry, sends, charged>>
  PROVE  SendLedger'
<1>. SUFFICES ASSUME NEW r \in Request, NEW i \in DOMAIN Steps[r]
              PROVE  LedgerAt(r, i)'
  BY DEF SendLedger
<1>1. LedgerAt(r, i) /\ sends'[r][i] = sends[r][i] /\ Charged(w) /\ ~Handling(w)
  BY DEF SendLedger, Charged, charged, Handling, Elsewhere
<1>2. /\ Others(w) /\ pc'[w] = l /\ cur'[w] = c /\ attempt'[w] = 0 /\ reports'[w] = <<>>
  BY MovedEffect DEF Types
<1>3. c \in Request /\ owner[c] = w /\ w # None
  BY DEF Types, LocalOK, Owned, Mine
<1>4. CASE r # c
  <2>1. ~Handles(w, r) /\ ~Handles(w, r)'
    BY <1>1, <1>2, <1>4 DEF Handles
  <2>. QED BY <1>1, <1>2, <2>1, LedgerElsewhere
<1>5. CASE r = c
  <2>. DEFINE x == sends[r][i]
              m == Most(r)
              e == Executions(r)
  <2>1. Most(r)' = m /\ x \in Nat /\ m \in Nat /\ e \in Nat
    BY MostGrows, ExecutionsType DEF charged, Most, Types, EffectsOK, Counters
  <2>2. \A v \in Worker : ~Handles(v, r)
    BY <1>1, <1>5, Exclusive DEF Handles
  <2>3. entry[r] \in Open
    BY <1>3, <1>5 DEF Types, Pending, Open
  <2>4. x + e <= m /\ x <= m
    BY <1>1, <2>2, <2>3 DEF LedgerAt
  <2>5. Owed(w, i)' = e
    <3>1. reports'[w] \in Seq(Status) /\ ~HasError(reports'[w]) /\ Len(reports'[w]) < i /\ i \in Nat
      <4>1. i \in Nat /\ 0 < i
        BY StepsType
      <4>2. <<>> \in Seq(Status) /\ ~HasError(<<>>) /\ Len(<<>>) = 0
        BY DEF HasError
      <4>. QED BY <1>2, <4>1, <4>2
    <3>2. attempt'[w] \in 0 .. HarnessRetries + 1 /\ attempt'[w] <= HarnessRetries
      BY <1>2
    <3>3. l = "failed" => OwedBy(l, r, attempt'[w], reports'[w], i) = e
      BY <3>1, <3>2, OwedValues
    <3>4. l = "dispatch" /\ Flawed(r) => OwedBy(l, r, attempt'[w], reports'[w], i) = HarnessRetries + 1 - attempt'[w]
      BY <3>1, <3>2, OwedValues
    <3>5. l = "dispatch" /\ ~Flawed(r) => OwedBy(l, r, attempt'[w], reports'[w], i) = 1
      BY <3>1, <3>2, OwedValues
    <3>6. Owed(w, i)' = OwedBy(l, r, attempt'[w], reports'[w], i)
      BY <1>2, <1>5 DEF Owed
    <3>7. HarnessRetries + 1 - attempt'[w] = HarnessRetries + 1
      BY <1>2
    <3>. QED BY <3>3, <3>4, <3>5, <3>6, <3>7, ExecutionsType
  <2>6. ASSUME NEW v \in Worker, Handles(v, r)'
        PROVE  v = w
    BY <1>2, <2>2, <2>6, OwedKept
  <2>7. Handles(w, r)'
    BY <1>2, <1>5 DEF Handles, Handling, Elsewhere
  <2>. HIDE DEF x, m, e
  <2>8. \A v \in Worker : Handles(v, r)' => x + Owed(v, i)' <= m
    BY <2>4, <2>5, <2>6
  <2>. QED BY <1>1, <2>1, <2>4, <2>7, <2>8 DEF LedgerAt, x, m
<1>. QED BY <1>4, <1>5

(* A worker's dispatching and what follows, until it reports or gives up.  *)
LEMMA DispatchLedger ==
  ASSUME Types, Types', Owned, SendLedger, NEW w \in Worker,
         PassOver(w) \/ Refuse(w) \/ Throttle(w) \/ Send(w) \/ Conclude(w)
  PROVE  SendLedger'
<1>0. PICK c, l, a, s : c = cur[w] /\ l = pc[w] /\ a = attempt[w] /\ s = reports[w]
  OBVIOUS
<1>1. l \in {"dispatch", "send"} /\ UNCHANGED queue /\ Handling(w)
  BY <1>0, PassOverMoves, RefuseMoves, ConcludeMoves, ThrottleMoves, SendMoves, Locations DEF Handling
<1>2. /\ c \in Request /\ a \in 0 .. HarnessRetries /\ s \in Seq(Status) /\ Len(s) \in Nat
      /\ a \in 0 .. HarnessRetries + 1 /\ a <= HarnessRetries
  BY <1>0, <1>1, InHand
<1>3. \A i \in DOMAIN Steps[c] : i \in Nat /\ i > 0 /\ i <= Len(Steps[c])
  BY <1>2, StepsType
<1>4. \A i : Owed(w, i) = OwedBy(l, c, a, s, i)
  BY <1>0 DEF Owed
<1>5. \A r \in Request : entry'[r] \in Open => entry[r] \in Open
  BY <1>1 DEF queue
<1>6. \A r \in Request : \A i \in DOMAIN Steps[r] :
        sends[r][i] \in Nat /\ Executions(r) \in Nat /\ Executions(r) >= 1
  BY ExecutionsType DEF Types, EffectsOK, Counters
<1>7. \A v \in Worker : v # w => ~Handles(v, c)
  BY <1>0, <1>1, Exclusive DEF Handles
<1>8. ASSUME Holds(w), Others(w), Charged(w), pc'[w] \notin Elsewhere,
             \A r \in Request : \A i \in DOMAIN Steps[r] : r # c => sends'[r][i] = sends[r][i],
             \A i \in DOMAIN Steps[c] :
               LET p == OwedBy(pc'[w], c, attempt'[w], reports'[w], i)
                   o == OwedBy(l, c, a, s, i)
               IN  \/ sends'[c][i] + p <= sends[c][i] + o
                   \/ Pays(w) /\ sends'[c][i] + p <= sends[c][i] + o + Executions(c)
      PROVE  SendLedger'
  <2>1. cur'[w] = c /\ Handling(w)'
    BY <1>0, <1>8 DEF Holds, Handling
  <2>2. \A i : Owed(w, i)' = OwedBy(pc'[w], c, attempt'[w], reports'[w], i)
    BY <2>1 DEF Owed
  <2>3. \A i \in DOMAIN Steps[c] :
           \/ sends'[c][i] + Owed(w, i)' <= sends[c][i] + Owed(w, i)
           \/ Pays(w) /\ sends'[c][i] + Owed(w, i)' <= sends[c][i] + Owed(w, i) + Executions(c)
    BY <1>4, <1>8, <2>2
  <2>. QED BY <1>0, <1>1, <1>2, <1>5, <1>7, <1>8, <2>1, <2>3, LedgerOnward
<1>9. ASSUME l = "dispatch", Retries(w), UNCHANGED sends, Charged(w),
             Pays(w) \/ Flawed(c) \/ (Len(s) = Len(Steps[c]) /\ HasError(s))
      PROVE  SendLedger'
  <2>1. /\ pc'[w] = (IF a = HarnessRetries THEN "report" ELSE "dispatch")
        /\ Holds(w) /\ Others(w) /\ attempt'[w] = a + 1 /\ reports'[w] = <<>>
    BY <1>0, <1>9, MoveEffects
  <2>2. /\ attempt'[w] \in 0 .. HarnessRetries + 1 /\ a < attempt'[w]
        /\ pc'[w] = "report" \/ (pc'[w] = "dispatch" /\ attempt'[w] <= HarnessRetries)
    BY <1>2, <2>1
  <2>3. <<>> \in Seq(Status) /\ ~HasError(<<>>) /\ Len(<<>>) = 0
    BY DEF HasError
  <2>4. reports'[w] \in Seq(Status) /\ ~HasError(reports'[w]) /\ \A i \in DOMAIN Steps[c] : Len(reports'[w]) < i
    BY <1>3, <2>1, <2>3
  <2>5. pc'[w] \notin Elsewhere
    BY <2>2, Locations
  <2>6. ASSUME NEW i \in DOMAIN Steps[c]
        PROVE  LET p == OwedBy(pc'[w], c, attempt'[w], reports'[w], i)
                   o == OwedBy(l, c, a, s, i)
               IN  \/ sends'[c][i] + p <= sends[c][i] + o
                   \/ Pays(w) /\ sends'[c][i] + p <= sends[c][i] + o + Executions(c)
    <3>. DEFINE p == OwedBy(pc'[w], c, attempt'[w], reports'[w], i)
                o == OwedBy("dispatch", c, a, s, i)
                e == Executions(c)
    <3>1. /\ o \in Nat /\ p \in Nat /\ p <= o + e
          /\ Flawed(c) \/ (i <= Len(s) /\ HasError(s)) => p <= o
      BY <1>2, <1>3, <2>2, <2>4, OwedRetry
    <3>2. sends'[c][i] = sends[c][i] /\ sends[c][i] \in Nat /\ e \in Nat
      BY <1>2, <1>6, <1>9
    <3>3. p <= o \/ Pays(w)
      BY <1>3, <1>9, <3>1
    <3>. HIDE DEF p, o, e
    <3>4. \/ sends'[c][i] + p <= sends[c][i] + o
          \/ Pays(w) /\ sends'[c][i] + p <= sends[c][i] + o + e
      BY <3>1, <3>2, <3>3
    <3>. QED BY <1>9, <3>4 DEF p, o, e
  <2>7. \A r \in Request : \A i \in DOMAIN Steps[r] : r # c => sends'[r][i] = sends[r][i]
    BY <1>9
  <2>. QED BY <1>8, <1>9, <2>1, <2>5, <2>6, <2>7
<1>10. ASSUME NEW status \in Status, Reports(w, "dispatch", status), Charged(w), NEW k, k = Len(s) + 1,
              k \in DOMAIN Steps[c],
              sends' = sends \/ Bumped(sends, sends', c, k),
              status # "error" \/ Pays(w)
       PROVE  SendLedger'
  <2>1. /\ pc'[w] = "dispatch" /\ Holds(w) /\ Others(w) /\ attempt'[w] = a
        /\ reports'[w] = Append(s, status)
    BY <1>0, <1>10, MoveEffects
  <2>2. /\ reports'[w] \in Seq(Status) /\ Len(reports'[w]) = Len(s) + 1
        /\ HasError(s) => HasError(reports'[w])
        /\ status # "error" /\ HasError(reports'[w]) => HasError(s)
    <3>1. reports'[w] \in Seq(Status) /\ Len(reports'[w]) = Len(s) + 1
      BY <1>2, <1>10, <2>1, AppendType
    <3>. QED BY <1>2, <1>10, <2>1, <3>1, ErrorReported
  <2>3. ASSUME NEW i \in DOMAIN Steps[c]
        PROVE  LET p == OwedBy(pc'[w], c, attempt'[w], reports'[w], i)
                   o == OwedBy(l, c, a, s, i)
               IN  \/ sends'[c][i] + p <= sends[c][i] + o
                   \/ Pays(w) /\ sends'[c][i] + p <= sends[c][i] + o + Executions(c)
    <3>. DEFINE p == OwedBy("dispatch", c, a, reports'[w], i)
                o == OwedBy(l, c, a, s, i)
                e == Executions(c)
                x == sends[c][i]
                y == sends'[c][i]
    <3>1. /\ o \in Nat /\ p \in Nat
          /\ status # "error" => p <= o
          /\ status # "error" /\ i = k => p + 1 <= o
          /\ p <= o + 1
          /\ i = k => p <= o
      BY <1>1, <1>2, <1>3, <1>10, <2>2, OwedReport
    <3>2. x \in Nat /\ e \in Nat /\ e >= 1
      BY <1>2, <1>6
    <3>3. y = x \/ (i = k /\ y = x + 1)
      BY <1>2, <1>10 DEF Bumped
    <3>. HIDE DEF p, o, e, x, y
    <3>4. \/ y + p <= x + o
          \/ Pays(w) /\ y + p <= x + o + e
      <4>1. CASE status # "error"
        BY <3>1, <3>2, <3>3, <4>1
      <4>2. CASE status = "error"
        BY <1>10, <3>1, <3>2, <3>3, <4>2
      <4>. QED BY <4>1, <4>2
    <3>. QED BY <2>1, <3>4 DEF p, o, e, x, y
  <2>4. \A r \in Request : \A i \in DOMAIN Steps[r] : r # c => sends'[r][i] = sends[r][i]
    BY <1>10 DEF Bumped
  <2>5. pc'[w] \notin Elsewhere
    BY <2>1, Locations
  <2>. QED BY <1>8, <1>10, <2>1, <2>3, <2>4, <2>5
<1>11. ASSUME NEW m \in {"send", "record"}, Stays(w, m), UNCHANGED sends, Free, l = "dispatch"
       PROVE  SendLedger'
  <2>1. /\ pc'[w] = m /\ Holds(w) /\ Others(w) /\ attempt'[w] = a /\ reports'[w] = s
    BY <1>0, <1>11, MoveEffects
  <2>2. ASSUME NEW i \in DOMAIN Steps[c]
        PROVE  sends'[c][i] + OwedBy(pc'[w], c, attempt'[w], reports'[w], i) <= sends[c][i] + OwedBy(l, c, a, s, i)
    <3>1. OwedBy(l, c, a, s, i) \in Nat /\ sends[c][i] \in Nat /\ sends'[c][i] = sends[c][i]
      BY <1>1, <1>2, <1>3, <1>6, <1>11, OwedValues
    <3>2. CASE m = "send"
      <4>1. OwedBy("send", c, a, s, i) = OwedBy("dispatch", c, a, s, i)
        BY DEF OwedBy
      <4>. QED BY <1>11, <2>1, <3>1, <3>2, <4>1
    <3>3. CASE m = "record"
      <4>1. OwedBy(m, c, a, s, i) = 0
        BY <1>2, <1>3, <3>3, OwedValues
      <4>. QED BY <2>1, <3>1, <4>1
    <3>. QED BY <3>2, <3>3
  <2>3. pc'[w] \notin Elsewhere /\ Charged(w)
    BY <1>11, <2>1, Locations, FreeCharged
  <2>4. \A r \in Request : \A i \in DOMAIN Steps[r] : r # c => sends'[r][i] = sends[r][i]
    BY <1>11
  <2>. QED BY <1>8, <2>1, <2>2, <2>3, <2>4
<1>12. Len(s) < Len(Steps[c]) => Len(s) + 1 \in DOMAIN Steps[c] /\ Upcoming(w) = Len(s) + 1
  BY <1>0, <1>2, StepsType DEF Upcoming
<1>13. CASE PassOver(w)
  <2>1. /\ Len(s) < Len(Steps[c]) /\ UNCHANGED sends /\ Charged(w)
        /\ \E status \in {"scheduled", "blocked"} : Reports(w, "dispatch", status)
    BY <1>0, <1>13, PassOverMoves DEF effects, Charged, Free, charged
  <2>2. \A status \in {"scheduled", "blocked"} : status \in Status /\ status # "error"
    BY DEF Status
  <2>. QED BY <1>10, <1>12, <2>1, <2>2
<1>14. CASE Refuse(w)
  <2>1. l = "dispatch" /\ Flawed(c) /\ Retries(w) /\ UNCHANGED sends /\ Charged(w)
    BY <1>0, <1>14, RefuseMoves DEF effects, Charged, Free, charged
  <2>. QED BY <1>9, <2>1
<1>15. CASE Throttle(w)
  <2>1. /\ l = "dispatch" /\ Len(s) < Len(Steps[c]) /\ UNCHANGED sends
        /\ \/ Stays(w, "send") /\ Free
           \/ Retries(w) /\ Pays(w)
           \/ Reports(w, "dispatch", "throttled") /\ Free
    BY <1>0, <1>15, ThrottleMoves
  <2>2. "throttled" \in Status /\ "throttled" # "error"
    BY DEF Status
  <2>. QED BY <1>9, <1>10, <1>11, <1>12, <2>1, <2>2, FreeCharged DEF Charged
<1>16. CASE Send(w)
  <2>1. /\ Len(s) < Len(Steps[c])
        /\ sends' = sends \/ sends' = Count(sends, c, Upcoming(w))
        /\ (Reports(w, "dispatch", "sent") /\ Free) \/ (Reports(w, "dispatch", "error") /\ Pays(w))
    BY <1>0, <1>16, SendMoves
  <2>2. "sent" \in Status /\ "error" \in Status /\ "sent" # "error"
    BY DEF Status
  <2>3. Counters(sends)
    BY DEF Types, EffectsOK
  <2>4. Bumped(sends, sends', c, Len(s) + 1)
    BY <1>2, <1>12, <2>1, <2>3, Counted
  <2>. QED BY <1>10, <1>12, <2>1, <2>2, <2>4, FreeCharged DEF Charged
<1>17. CASE Conclude(w)
  <2>1. /\ l = "dispatch" /\ Len(s) = Len(Steps[c]) /\ UNCHANGED sends /\ Free
        /\ \/ HasError(s) /\ Retries(w)
           \/ Stays(w, "record")
    BY <1>0, <1>17, ConcludeMoves DEF effects, HasError, Free
  <2>. QED BY <1>9, <1>11, <2>1, FreeCharged DEF Charged
<1>. QED BY <1>13, <1>14, <1>15, <1>16, <1>17

LEMMA LedgerStep ==
  ASSUME Types, Types', Owned, SendLedger, [Next]_vars
  PROVE  SendLedger'
<1>. LocalOK
  BY DEF Types
<1>1. ASSUME UNCHANGED <<loop, progress, sends, charged>>,
             \A r \in Request : entry'[r] \in Open => entry[r] \in Open
      PROVE  SendLedger'
  <2>1. \A w \in Worker, r \in Request : Handles(w, r)' <=> Handles(w, r)
    BY <1>1 DEF loop, Handles, Handling
  <2>2. \A w \in Worker : \A i : Owed(w, i)' = Owed(w, i)
    BY <1>1 DEF loop, progress, Owed
  <2>3. \A r \in Request : Most(r)' = Most(r)
    BY <1>1 DEF charged, Most
  <2>4. sends' = sends
    BY <1>1
  <2>. QED BY <1>1, <2>1, <2>2, <2>3, <2>4 DEF SendLedger, LedgerAt
<1>2. CASE UNCHANGED vars \/ Tick
  BY <1>1, <1>2 DEF vars, Tick, queue, effects
<1>3. ASSUME NEW r \in Request, Submit(r)
      PROVE  SendLedger'
  <2>1. entry' = [entry EXCEPT ![r] = "new"] /\ entry[r] = "absent"
        /\ UNCHANGED <<loop, progress, sends, charged>>
    BY <1>3 DEF Submit, effects
  <2>2. \A q \in Request : entry'[q] \in Open => entry[q] \in Open
    BY <2>1 DEF Types, QueueOK, Open
  <2>. QED BY <1>1, <2>1, <2>2
<1>4. ASSUME NEW w \in Worker, Read(w) \/ Restart(w)
      PROVE  SendLedger'
  <2>1. /\ pc[w] \in {"idle", "down"} /\ Others(w) /\ pc'[w] \in {"take", "idle"}
        /\ UNCHANGED <<effects, charged>>
    <3>1. \E t : Moved(w, "take", t, cur[w], attempt[w], reports[w], recorded[w]) \/ Stays(w, "idle")
      BY <1>4, ReadMoves, RestartMoves
    <3>. QED BY <1>4, <3>1, ReadMoves, RestartMoves, MovedEffect, MoveEffects
  <2>2. ASSUME NEW r \in Request, entry'[r] \in Open
        PROVE  entry[r] \in Open
    <3>1. CASE Restart(w)
      BY <2>2, <3>1, RestartMoves DEF queue
    <3>2. CASE Read(w)
      <4>1. PICK batch \in SUBSET Request :
              /\ Moved(w, "take", batch, cur[w], attempt[w], reports[w], recorded[w])
              /\ \A q \in batch : entry[q] = "new" \/ owner[q] = w
              /\ entry' = [q \in Request |-> IF q \in batch THEN "pending" ELSE entry[q]]
              /\ owner' = [q \in Request |-> IF q \in batch THEN w ELSE owner[q]]
              /\ tries' = [q \in Request |-> IF q \in batch THEN tries[q] + 1 ELSE tries[q]]
        BY <3>2, ReadMoves
      <4>2. r \in batch => entry[r] \in {"new", "pending"}
        BY <4>1 DEF Types, Pending
      <4>. QED BY <2>2, <4>1, <4>2 DEF Open
    <3>. QED BY <1>4, <3>1, <3>2
  <2>3. ~Handling(w) /\ ~Handling(w)' /\ Charged(w) /\ UNCHANGED sends
    BY <2>1 DEF Handling, Elsewhere, Charged, charged, effects
  <2>. QED BY <2>1, <2>2, <2>3, LedgerLeft
<1>5. ASSUME NEW w \in Worker, Take(w)
      PROVE  SendLedger'
  <2>1. pc[w] = "take" /\ UNCHANGED <<queue, effects, charged>>
    BY <1>5, TakeMoves
  <2>2. CASE Moved(w, "idle", {}, None, 0, <<>>, 0)
    <3>1. Others(w) /\ ~Handling(w) /\ ~Handling(w)'
      BY <2>1, <2>2, MovedEffect DEF Handling, Elsewhere
    <3>2. Charged(w) /\ UNCHANGED <<entry, sends>>
      BY <2>1 DEF Charged, charged, queue, effects
    <3>. QED BY <3>1, <3>2, LedgerLeft
  <2>3. ASSUME NEW r \in todo[w], NEW l \in {"failed", "dispatch"}, Moved(w, l, todo[w] \ {r}, r, 0, <<>>, 0)
        PROVE  SendLedger'
    BY <2>1, <2>3, LedgerTaken DEF queue, effects
  <2>. QED BY <1>5, <2>2, <2>3, TakeMoves
<1>6. ASSUME NEW w \in Worker, PassOver(w) \/ Refuse(w) \/ Throttle(w) \/ Send(w) \/ Conclude(w)
      PROVE  SendLedger'
  BY <1>6, DispatchLedger
(* On the way of the request in hand: nothing is owed, or all of it and    *)
(* that is paid for.                                                       *)
<1>7. ASSUME NEW w \in Worker, Handling(w), Handling(w)', Holds(w), Others(w), UNCHANGED sends,
             \A r \in Request : entry'[r] \in Open => entry[r] \in Open,
             \/ /\ pc[w] \in {"record", "report", "ack"}
                /\ pc'[w] \in {"record", "report", "ack"} \/ (pc'[w] = "failed" /\ Pays(w))
             \/ /\ pc[w] \in {"failed", "deadLetter", "ackDead"}
                /\ pc'[w] \in {"failed", "deadLetter", "ackDead"},
             Charged(w)
      PROVE  SendLedger'
  <2>1. PICK c : c = cur[w]
    OBVIOUS
  <2>2. c \in Request /\ cur'[w] = c
    BY <1>7, <2>1, InHand DEF Holds
  <2>3. /\ attempt[w] \in 0 .. HarnessRetries + 1 /\ reports[w] \in Seq(Status)
        /\ attempt'[w] \in 0 .. HarnessRetries + 1 /\ reports'[w] \in Seq(Status)
    BY DEF Types, LocalOK
  <2>4. ASSUME NEW i \in DOMAIN Steps[c]
        PROVE  \/ sends'[c][i] + Owed(w, i)' <= sends[c][i] + Owed(w, i)
               \/ Pays(w) /\ sends'[c][i] + Owed(w, i)' <= sends[c][i] + Owed(w, i) + Executions(c)
    <3>1. i \in Nat
      BY <2>2, StepsType
    <3>2. /\ pc[w] \in {"record", "report", "ack"} => Owed(w, i) = 0
          /\ pc[w] \in {"failed", "deadLetter", "ackDead"} => Owed(w, i) = Executions(c)
      BY <2>1, <2>3, <3>1, OwedValues DEF Owed
    <3>3. /\ pc'[w] \in {"record", "report", "ack"} => Owed(w, i)' = 0
          /\ pc'[w] \in {"failed", "deadLetter", "ackDead"} => Owed(w, i)' = Executions(c)
      <4>1. Owed(w, i)' = OwedBy(pc'[w], c, attempt'[w], reports'[w], i)
        BY <2>2 DEF Owed
      <4>. QED BY <2>3, <3>1, <4>1, OwedValues
    <3>4. sends'[c][i] = sends[c][i] /\ sends[c][i] \in Nat /\ Executions(c) \in Nat
      BY <1>7, <2>2, ExecutionsType DEF Types, EffectsOK, Counters
    <3>. QED BY <1>7, <3>2, <3>3, <3>4
  <2>5. /\ \A r \in Request : \A i \in DOMAIN Steps[r] : r # c => sends'[r][i] = sends[r][i]
        /\ \A i \in DOMAIN Steps[c] : sends'[c][i] = sends[c][i]
    BY <1>7
  <2>. QED BY <1>7, <2>1, <2>2, <2>4, <2>5, LedgerOnward
<1>8. ASSUME NEW w \in Worker, Record(w) \/ Answer(w)
      PROVE  SendLedger'
  <2>1. pc[w] \in {"record", "report"} /\ UNCHANGED <<queue, sends>>
    BY <1>8, RecordMoves, AnswerMoves
  <2>2. /\ Charged(w)
        /\ \/ Stays(w, "report") \/ Stays(w, "ack") \/ (Stays(w, "failed") /\ Pays(w))
           \/ \E i : Onward(w, "record", attempt[w], reports[w], i)
    BY <1>8, RecordMoves, AnswerMoves, FreeCharged DEF Charged
  <2>3. /\ Holds(w) /\ Others(w)
        /\ pc'[w] \in {"record", "report", "ack"} \/ (pc'[w] = "failed" /\ Pays(w))
    BY <2>2, MoveEffects, MovedEffect DEF Onward, Holds
  <2>4. Handling(w) /\ Handling(w)'
    BY <2>1, <2>3, Locations DEF Handling
  <2>. QED BY <1>7, <2>1, <2>2, <2>3, <2>4 DEF queue
<1>9. ASSUME NEW w \in Worker, Settle(cur[w], "done") \/ Settle(cur[w], "dead") \/ UNCHANGED <<entry, owner>>
      PROVE  \A r \in Request : entry'[r] \in Open => entry[r] \in Open
  BY <1>9 DEF Settle, Open, Types, QueueOK
<1>10. ASSUME NEW w \in Worker, Ack(w)
       PROVE  SendLedger'
  <2>1. pc[w] = "ack" /\ Handling(w) /\ cur[w] \in Request /\ UNCHANGED sends
    BY <1>10, AckMoves, InHand, Locations DEF Handling, effects
  <2>2. \A r \in Request : entry'[r] \in Open => entry[r] \in Open
    BY <1>9, <1>10, AckMoves
  <2>3. CASE Settle(cur[w], "done") /\ Stays(w, "take") /\ Free
    <3>1. Others(w) /\ ~Handling(w)' /\ Charged(w)
      BY <2>3, MoveEffects, FreeCharged DEF Handling, Elsewhere
    <3>2. entry'[cur[w]] \notin Open
      BY <2>1, <2>3 DEF Settle, Open, Types, QueueOK
    <3>. QED BY <2>1, <2>2, <3>1, <3>2, LedgerLeft
  <2>4. CASE Stays(w, "failed") /\ Pays(w)
    <3>1. Others(w) /\ Holds(w) /\ pc'[w] = "failed" /\ Charged(w)
      BY <2>4, MoveEffects DEF Charged
    <3>2. Handling(w)'
      BY <3>1, Locations DEF Handling
    <3>. QED BY <1>7, <2>1, <2>2, <2>4, <3>1, <3>2
  <2>. QED BY <1>10, <2>3, <2>4, AckMoves
<1>11. ASSUME NEW w \in Worker, Die(w), Charged(w), UNCHANGED sends
       PROVE  SendLedger'
  <2>1. /\ Leaves(w)
        /\ entry' = [r \in Request |-> IF owner[r] = w THEN "stranded" ELSE entry[r]]
    BY <1>11, DieMoved
  <2>2. Others(w) /\ ~Handling(w)'
    BY <2>1, MoveEffects DEF Handling, Elsewhere
  <2>3. \A r \in Request : entry'[r] \in Open => entry[r] \in Open
    BY <2>1 DEF Open
  <2>4. Handling(w) => pc[w] = "failed" \/ entry'[cur[w]] \notin Open
    BY <2>1, InHand DEF Owned, Mine, Open
  <2>. QED BY <1>11, <2>2, <2>3, <2>4, LedgerLeft
<1>12. ASSUME NEW w \in Worker, HandleFailure(w) \/ DeadLetter(w) \/ AckDead(w)
       PROVE  SendLedger'
  <2>1. /\ pc[w] \in {"failed", "deadLetter", "ackDead"} /\ Handling(w) /\ cur[w] \in Request
        /\ UNCHANGED sends /\ Charged(w)
    BY <1>12, GiveUpMoves, InHand, Locations, FreeCharged DEF Handling, effects, Charged
  <2>2. CASE Die(w)
    BY <1>11, <2>1, <2>2
  <2>3. CASE Stays(w, "take") /\ UNCHANGED <<entry, owner>> /\ pc[w] = "failed"
    <3>1. Others(w) /\ ~Handling(w)'
      BY <2>3, MoveEffects DEF Handling, Elsewhere
    <3>. QED BY <2>1, <2>3, <3>1, LedgerLeft
  <2>4. ASSUME NEW l \in {"deadLetter", "ackDead"}, Stays(w, l), UNCHANGED <<entry, owner>>
        PROVE  SendLedger'
    <3>1. Others(w) /\ Holds(w) /\ pc'[w] = l
      BY <2>4, MoveEffects
    <3>2. Handling(w)'
      BY <3>1, Locations DEF Handling
    <3>. QED BY <1>7, <2>1, <2>4, <3>1, <3>2
  <2>5. CASE Stays(w, "take") /\ Settle(cur[w], "dead") /\ pc[w] = "ackDead"
    <3>1. Others(w) /\ ~Handling(w)'
      BY <2>5, MoveEffects DEF Handling, Elsewhere
    <3>2. entry'[cur[w]] \notin Open
      BY <2>1, <2>5 DEF Settle, Open, Types, QueueOK
    <3>3. \A r \in Request : entry'[r] \in Open => entry[r] \in Open
      BY <1>9, <2>5
    <3>. QED BY <2>1, <3>1, <3>2, <3>3, LedgerLeft
  <2>. QED BY <1>12, <2>2, <2>3, <2>4, <2>5, GiveUpMoves
<1>13. ASSUME NEW w \in Worker, Crash(w)
       PROVE  SendLedger'
  <2>1. Die(w) /\ UNCHANGED sends /\ Charged(w)
    BY <1>13, CrashMoves DEF effects, Charged
  <2>. QED BY <1>11, <2>1
<1>. QED
  BY <1>2, <1>3, <1>4, <1>5, <1>6, <1>8, <1>10, <1>12, <1>13 DEF Next, Step

LEMMA InitLedger == Init => Owned /\ SendLedger
<1>. SUFFICES ASSUME Init PROVE Owned /\ SendLedger
  OBVIOUS
<1>1. \A w \in Worker : pc[w] = "idle" /\ todo[w] = {} /\ ~Handling(w)
  BY DEF Init, Handling, Elsewhere
<1>2. ASSUME NEW r \in Request, NEW i \in DOMAIN Steps[r]
      PROVE  LedgerAt(r, i)
  <2>1. sends[r][i] = 0 /\ spent[r] = 0 /\ Executions(r) \in Nat
    BY ExecutionsType DEF Init, Zeros
  <2>2. Most(r) = Executions(r)
    BY <2>1, Paid DEF Most
  <2>. QED BY <1>1, <2>1, <2>2 DEF LedgerAt, Handles
<1>. QED BY <1>1, <1>2 DEF Owned, Mine, SendLedger

(* A step is dispatched once, and once more for each mishap while its      *)
(* request was in hand, or as often as the harness has attempts if the     *)
(* list has an incomplete email: the harness, the redelivery and the other *)
(* workers repeat nothing on their own.                                    *)
THEOREM RepetitionIsPaidFor == Spec => []SendsPaidFor
<1>1. Types /\ Owned /\ SendLedger /\ [Next]_vars => Owned' /\ SendLedger'
  BY StepTypes, OwnedStep, LedgerStep
<1>2. Owned /\ SendLedger => SendsPaidFor
  BY DEF SendLedger, LedgerAt, Most, SendsPaidFor
<1>. QED BY <1>1, <1>2, InitLedger, AlwaysTypes, PTL DEF Spec

-----------------------------------------------------------------------------
(* What a worker has sent and not yet recorded in this attempt; and that   *)
(* an attempt is dispatched before any of it is recorded and has an error  *)
(* only if that was paid for.                                              *)
FlagBy(s, k, i) == IF i \in DOMAIN s /\ i > k /\ s[i] = "sent" THEN 1 ELSE 0
Flag(w, i) == FlagBy(reports[w], recorded[w], i)
Fresh(w) ==
  /\ pc[w] \in {"dispatch", "send"} => recorded[w] = 0
  /\ Handling(w) /\ HasError(reports[w]) => spent[cur[w]] > 0
AllFresh == \A w \in Worker : Fresh(w)

Clean(r) == spent[r] = 0 /\ r \notin Leadless /\ ~Flawed(r)
Balanced(w, r, i) ==
  /\ pc[w] \in {"dispatch", "send", "record"} => sends[r][i] = records[r][i] + Flag(w, i)
  /\ pc[w] \in {"report", "ack"} => sends[r][i] = records[r][i]
RecordAt(r, i) ==
  /\ records[r][i] <= sends[r][i]
  /\ \A w \in Worker : Handles(w, r) => records[r][i] + Flag(w, i) <= sends[r][i]
  /\ Clean(r) /\ Steps[r][i] = "email" =>
       /\ entry[r] = "done" => records[r][i] = sends[r][i]
       /\ \A w \in Worker : Handles(w, r) => Balanced(w, r, i)
RecordLedger == \A r \in Request : \A i \in DOMAIN Steps[r] : RecordAt(r, i)

LEMMA FlagType == \A s, k, i : FlagBy(s, k, i) \in {0, 1}
BY DEF FlagBy

FlagMoves(s, status, i) ==
  /\ i # Len(s) + 1 => FlagBy(Append(s, status), 0, i) = FlagBy(s, 0, i)
  /\ i = Len(s) + 1 /\ status # "sent" => FlagBy(Append(s, status), 0, i) = 0 /\ FlagBy(s, 0, i) = 0
  /\ i = Len(s) + 1 /\ status = "sent" => FlagBy(Append(s, status), 0, i) = 1 /\ FlagBy(s, 0, i) = 0

LEMMA FlagMoved ==
  ASSUME NEW s \in Seq(Status), NEW status \in Status, NEW i \in Nat
  PROVE  FlagMoves(s, status, i)
<1>. DEFINE t == Append(s, status)
<1>1. /\ DOMAIN s = 1 .. Len(s) /\ DOMAIN t = 1 .. Len(s) + 1 /\ Len(s) \in Nat
      /\ t[Len(s) + 1] = status /\ \A j \in 1 .. Len(s) : t[j] = s[j]
  BY AppendType
<1>. HIDE DEF t
<1>2. i # Len(s) + 1 => FlagBy(t, 0, i) = FlagBy(s, 0, i)
  <2>. SUFFICES ASSUME i # Len(s) + 1 PROVE FlagBy(t, 0, i) = FlagBy(s, 0, i)
    OBVIOUS
  <2>1. i \in DOMAIN t <=> i \in DOMAIN s
    BY <1>1
  <2>2. i \in DOMAIN s => t[i] = s[i]
    BY <1>1
  <2>. QED BY <2>1, <2>2 DEF FlagBy
<1>3. i = Len(s) + 1 => i \notin DOMAIN s /\ i \in DOMAIN t /\ t[i] = status /\ i > 0
  BY <1>1
<1>4. i = Len(s) + 1 /\ status # "sent" => FlagBy(t, 0, i) = 0 /\ FlagBy(s, 0, i) = 0
  BY <1>3 DEF FlagBy
<1>5. i = Len(s) + 1 /\ status = "sent" => FlagBy(t, 0, i) = 1 /\ FlagBy(s, 0, i) = 0
  BY <1>3 DEF FlagBy
<1>. QED BY <1>2, <1>4, <1>5 DEF FlagMoves, t

LEMMA CleanBefore ==
  ASSUME Types, NEW w, Charged(w), NEW r \in Request
  PROVE  /\ Clean(r)' => Clean(r)
         /\ Pays(w) /\ cur[w] = r => ~Clean(r)'
         /\ spent[r] > 0 => spent'[r] > 0 /\ ~Clean(r)'
         /\ Pays(w) /\ cur[w] = r => spent'[r] > 0
<1>1. spent[r] \in Nat
  BY DEF Types, ChargedOK
<1>2. spent'[r] = spent[r] \/ spent'[r] = spent[r] + 1
  BY <1>1 DEF Charged, Pays, Types, ChargedOK
<1>3. Pays(w) /\ cur[w] = r => spent'[r] = spent[r] + 1
  BY DEF Pays, Types, ChargedOK
<1>. QED BY <1>1, <1>2, <1>3 DEF Clean

(* The conditions are kept by whoever does not move.                       *)
LEMMA FreshMove ==
  ASSUME Types, AllFresh, NEW w \in Worker, Others(w), Charged(w), Fresh(w)'
  PROVE  AllFresh'
<1>. SUFFICES ASSUME NEW v \in Worker PROVE Fresh(v)'
  BY DEF AllFresh
<1>1. CASE v = w
  BY <1>1
<1>2. CASE v # w
  <2>1. /\ pc'[v] = pc[v] /\ cur'[v] = cur[v] /\ reports'[v] = reports[v] /\ recorded'[v] = recorded[v]
    BY <1>2 DEF Others
  <2>2. Handling(v) => cur[v] \in Request
    BY InHand
  <2>3. Handling(v) /\ spent[cur[v]] > 0 => spent'[cur[v]] > 0
    BY <2>2, CleanBefore
  <2>. QED BY <2>1, <2>3 DEF AllFresh, Fresh, Handling
<1>. QED BY <1>1, <1>2

(* Who reports on nothing has no error.                                    *)
LEMMA FreshEmpty ==
  ASSUME Types, AllFresh, NEW w \in Worker, Others(w), Charged(w), reports'[w] = <<>>,
         pc'[w] \in {"dispatch", "send"} => recorded'[w] = 0
  PROVE  AllFresh'
<1>1. ~HasError(<<>>)
  BY DEF HasError
<1>2. Fresh(w)'
  BY <1>1 DEF Fresh
<1>. QED BY <1>2, FreshMove

(* Who keeps its reports keeps what was paid for them.                     *)
LEMMA FreshSame ==
  ASSUME Types, AllFresh, NEW w \in Worker, Others(w), Charged(w), Handling(w)' => Handling(w),
         cur'[w] = cur[w], reports'[w] = reports[w],
         pc'[w] \in {"dispatch", "send"} => recorded'[w] = 0
  PROVE  AllFresh'
<1>1. Handling(w) => cur[w] \in Request
  BY InHand
<1>2. Handling(w) /\ spent[cur[w]] > 0 => spent'[cur[w]] > 0
  BY <1>1, CleanBefore
<1>3. Fresh(w)'
  BY <1>2 DEF AllFresh, Fresh
<1>. QED BY <1>3, FreshMove

LEMMA FreshStep ==
  ASSUME Types, AllFresh, [Next]_vars
  PROVE  AllFresh'
<1>. LocalOK
  BY DEF Types
<1>1. CASE UNCHANGED vars \/ Tick \/ \E r \in Request : Submit(r)
  BY <1>1 DEF vars, Tick, Submit, loop, progress, charged, AllFresh, Fresh, Handling
<1>2. ASSUME NEW w \in Worker, Read(w) \/ Restart(w)
      PROVE  AllFresh'
  <2>1. /\ Others(w) /\ pc'[w] \in {"take", "idle"} /\ Charged(w)
        /\ cur'[w] = cur[w] /\ reports'[w] = reports[w]
    <3>1. \E t : Moved(w, "take", t, cur[w], attempt[w], reports[w], recorded[w]) \/ Stays(w, "idle")
      BY <1>2, ReadMoves, RestartMoves
    <3>2. UNCHANGED charged
      BY <1>2, ReadMoves, RestartMoves
    <3>. QED BY <3>1, <3>2, MovedEffect, MoveEffects DEF Holds, Charged, charged
  <2>2. ~Handling(w)'
    BY <2>1 DEF Handling, Elsewhere
  <2>. QED BY <2>1, <2>2, FreshSame
<1>3. ASSUME NEW w \in Worker, Take(w)
      PROVE  AllFresh'
  <2>1. \E l, t, c : Moved(w, l, t, c, 0, <<>>, 0)
    BY <1>3, TakeMoves
  <2>2. Others(w) /\ reports'[w] = <<>> /\ recorded'[w] = 0
    BY <2>1, MovedEffect
  <2>3. Charged(w)
    BY <1>3, TakeMoves DEF charged, Charged
  <2>. QED BY <2>2, <2>3, FreshEmpty
<1>4. ASSUME NEW w \in Worker, pc[w] = "dispatch", Retries(w), Charged(w)
      PROVE  AllFresh'
  <2>1. Others(w) /\ reports'[w] = <<>> /\ recorded'[w] = recorded[w]
    BY <1>4, MoveEffects
  <2>2. recorded[w] = 0
    BY <1>4 DEF AllFresh, Fresh
  <2>. QED BY <1>4, <2>1, <2>2, FreshEmpty
<1>5. ASSUME NEW w \in Worker, Handling(w), NEW l, Stays(w, l), Charged(w),
             l \in {"dispatch", "send"} => pc[w] \in {"dispatch", "send"}
      PROVE  AllFresh'
  <2>1. Others(w) /\ pc'[w] = l /\ cur'[w] = cur[w] /\ reports'[w] = reports[w] /\ recorded'[w] = recorded[w]
    BY <1>5, MoveEffects DEF Holds
  <2>2. l \in {"dispatch", "send"} => recorded'[w] = 0
    BY <1>5, <2>1 DEF AllFresh, Fresh
  <2>. QED BY <1>5, <2>1, <2>2, FreshSame
<1>6. ASSUME NEW w \in Worker, pc[w] \in {"dispatch", "send"}, NEW status \in Status,
             Reports(w, "dispatch", status), Charged(w), status # "error" \/ Pays(w)
      PROVE  AllFresh'
  <2>1. /\ Others(w) /\ pc'[w] = "dispatch" /\ cur'[w] = cur[w] /\ reports'[w] = Append(reports[w], status)
        /\ recorded'[w] = recorded[w]
    BY <1>6, MoveEffects DEF Holds
  <2>2. recorded'[w] = 0
    BY <1>6, <2>1 DEF AllFresh, Fresh
  <2>3. Handling(w) /\ cur[w] \in Request /\ reports[w] \in Seq(Status)
    BY <1>6, InHand, Locations DEF Handling
  <2>4. HasError(reports'[w]) => HasError(reports[w]) \/ Pays(w)
    BY <1>6, <2>1, <2>3, ErrorReported
  <2>5. HasError(reports'[w]) => spent'[cur[w]] > 0
    BY <1>6, <2>3, <2>4, CleanBefore DEF AllFresh, Fresh
  <2>6. Fresh(w)'
    BY <2>1, <2>2, <2>5 DEF Fresh
  <2>. QED BY <1>6, <2>1, <2>6, FreshMove
<1>7. ASSUME NEW w \in Worker, PassOver(w) \/ Refuse(w) \/ Conclude(w) \/ Throttle(w) \/ Send(w)
      PROVE  AllFresh'
  <2>1. pc[w] \in {"dispatch", "send"} /\ Handling(w)
    BY <1>7, PassOverMoves, RefuseMoves, ConcludeMoves, ThrottleMoves, SendMoves, Locations DEF Handling
  <2>2. {"scheduled", "blocked", "throttled", "sent", "error"} \subseteq Status
    BY DEF Status
  <2>3. UNCHANGED charged => Charged(w)
    BY DEF charged, Charged
  <2>4. CASE PassOver(w)
    BY <1>6, <2>1, <2>2, <2>3, <2>4, PassOverMoves
  <2>5. CASE Refuse(w)
    BY <1>4, <2>3, <2>5, RefuseMoves
  <2>6. CASE Conclude(w)
    BY <1>4, <1>5, <2>1, <2>3, <2>6, ConcludeMoves
  <2>7. CASE Throttle(w)
    BY <1>4, <1>5, <1>6, <2>1, <2>2, <2>7, ThrottleMoves, FreeCharged DEF Charged
  <2>8. CASE Send(w)
    BY <1>6, <2>1, <2>2, <2>8, SendMoves, FreeCharged DEF Charged
  <2>. QED BY <1>7, <2>4, <2>5, <2>6, <2>7, <2>8
<1>8. ASSUME NEW w \in Worker, Record(w) \/ Answer(w) \/ Ack(w)
      PROVE  AllFresh'
  <2>1. Handling(w) /\ Charged(w)
    BY <1>8, RecordMoves, AnswerMoves, AckMoves, FreeCharged, Locations DEF Charged, Handling
  <2>2. \/ \E l \in {"report", "ack", "failed", "take"} : Stays(w, l)
        \/ \E i : Onward(w, "record", attempt[w], reports[w], i)
    BY <1>8, RecordMoves, AnswerMoves, AckMoves
  <2>3. CASE \E l \in {"report", "ack", "failed", "take"} : Stays(w, l)
    BY <1>5, <2>1, <2>3
  <2>4. CASE \E i : Onward(w, "record", attempt[w], reports[w], i)
    <3>1. Others(w) /\ pc'[w] = "record" /\ cur'[w] = cur[w] /\ reports'[w] = reports[w]
      BY <2>4, MovedEffect DEF Onward
    <3>. QED BY <2>1, <3>1, FreshSame
  <2>. QED BY <2>2, <2>3, <2>4
<1>9. ASSUME NEW w \in Worker, HandleFailure(w) \/ DeadLetter(w) \/ AckDead(w) \/ Crash(w)
      PROVE  AllFresh'
  <2>1. Charged(w)
    BY <1>9, GiveUpMoves, CrashMoves, FreeCharged DEF Charged
  <2>2. CASE Die(w)
    <3>1. Others(w) /\ reports'[w] = <<>> /\ recorded'[w] = 0
      BY <2>2, DieMoved, MoveEffects
    <3>. QED BY <2>1, <3>1, FreshEmpty
  <2>3. CASE ~Die(w)
    <3>1. Handling(w) /\ \E l \in {"take", "deadLetter", "ackDead"} : Stays(w, l)
      BY <1>9, <2>3, GiveUpMoves, CrashMoves, Locations DEF Handling
    <3>. QED BY <1>5, <2>1, <3>1
  <2>. QED BY <2>2, <2>3
<1>. QED
  BY <1>1, <1>2, <1>3, <1>7, <1>8, <1>9 DEF Next, Step

(* A step that leaves what was sent and recorded of a request as it is.    *)
LEMMA RecordElsewhere ==
  ASSUME Types, NEW w \in Worker, Others(w), Charged(w), NEW r \in Request, NEW i \in DOMAIN Steps[r],
         RecordAt(r, i), sends'[r][i] = sends[r][i], records'[r][i] = records[r][i], ~Handles(w, r)',
         entry'[r] = "done" =>
           entry[r] = "done" \/ (Clean(r) /\ Steps[r][i] = "email" => records[r][i] = sends[r][i])
  PROVE  RecordAt(r, i)'
<1>1. \A v \in Worker : Handles(v, r)' => v # w /\ Handles(v, r)
  BY OwedKept
<1>2. \A v \in Worker : v # w => Flag(v, i)' = Flag(v, i) /\ pc'[v] = pc[v]
  BY DEF Others, Flag
<1>3. Clean(r)' => Clean(r)
  BY CleanBefore
<1>4. \A v \in Worker : Handles(v, r)' => records'[r][i] + Flag(v, i)' <= sends'[r][i]
  BY <1>1, <1>2 DEF RecordAt
<1>5. ASSUME Clean(r)', Steps[r][i] = "email"
      PROVE  /\ entry'[r] = "done" => records'[r][i] = sends'[r][i]
             /\ \A v \in Worker : Handles(v, r)' => Balanced(v, r, i)'
  <2>1. entry'[r] = "done" => records'[r][i] = sends'[r][i]
    BY <1>3, <1>5 DEF RecordAt
  <2>2. ASSUME NEW v \in Worker, Handles(v, r)'
        PROVE  Balanced(v, r, i)'
    BY <1>1, <1>2, <1>3, <1>5, <2>2 DEF RecordAt, Balanced
  <2>. QED BY <2>1, <2>2
<1>6. records'[r][i] <= sends'[r][i]
  BY DEF RecordAt
<1>. QED BY <1>4, <1>5, <1>6 DEF RecordAt

(* A step with the request in hand.                                        *)
LEMMA RecordInHand ==
  ASSUME Types, Types', NEW w \in Worker, Others(w), Charged(w), NEW r \in Request, NEW i \in DOMAIN Steps[r],
         RecordAt(r, i),
         records'[r][i] + Flag(w, i)' <= sends'[r][i],
         Clean(r)' /\ Steps[r][i] = "email" => Balanced(w, r, i)',
         entry'[r] = "done" => entry[r] = "done" \/ ~Clean(r)',
         \/ sends'[r][i] = sends[r][i] /\ records'[r][i] = records[r][i]
         \/ entry[r] # "done" /\ \A v \in Worker : v # w => ~Handles(v, r)
  PROVE  RecordAt(r, i)'
<1>1. \A v \in Worker : v # w => (Handles(v, r)' => Handles(v, r)) /\ Flag(v, i)' = Flag(v, i) /\ pc'[v] = pc[v]
  BY OwedKept DEF Others, Flag
<1>2. Clean(r)' => Clean(r)
  BY CleanBefore
<1>3. ASSUME NEW v \in Worker, Handles(v, r)', v # w
      PROVE  /\ Handles(v, r) /\ sends'[r][i] = sends[r][i] /\ records'[r][i] = records[r][i]
             /\ records'[r][i] + Flag(v, i)' <= sends'[r][i]
             /\ Clean(r)' /\ Steps[r][i] = "email" => Balanced(v, r, i)'
  <2>1. Handles(v, r) /\ Flag(v, i)' = Flag(v, i) /\ pc'[v] = pc[v]
    BY <1>1, <1>3
  <2>2. sends'[r][i] = sends[r][i] /\ records'[r][i] = records[r][i]
    BY <1>3, <2>1
  <2>3. records'[r][i] + Flag(v, i)' <= sends'[r][i]
    BY <2>1, <2>2 DEF RecordAt
  <2>4. Clean(r)' /\ Steps[r][i] = "email" => Balanced(v, r, i)'
    BY <1>2, <2>1, <2>2 DEF RecordAt, Balanced
  <2>. QED BY <2>1, <2>2, <2>3, <2>4
<1>4. records'[r][i] <= sends'[r][i]
  <2>1. records'[r][i] \in Nat /\ sends'[r][i] \in Nat
    BY DEF Types, EffectsOK, Counters
  <2>2. Flag(w, i)' \in {0, 1}
    BY FlagType DEF Flag
  <2>. QED BY <2>1, <2>2
<1>5. Clean(r)' /\ Steps[r][i] = "email" /\ entry'[r] = "done" => records'[r][i] = sends'[r][i]
  BY <1>2 DEF RecordAt
<1>6. \A v \in Worker : Handles(v, r)' => records'[r][i] + Flag(v, i)' <= sends'[r][i]
  BY <1>3
<1>7. Clean(r)' /\ Steps[r][i] = "email" => \A v \in Worker : Handles(v, r)' => Balanced(v, r, i)'
  BY <1>3
<1>. QED BY <1>4, <1>5, <1>6, <1>7 DEF RecordAt

(* The worker goes on with its request.                                    *)
LEMMA RecordOnward ==
  ASSUME Types, Types', RecordLedger, NEW w \in Worker, Others(w), Charged(w), NEW c \in Request,
         cur'[w] = c,
         \A r \in Request : entry'[r] = "done" => entry[r] = "done" \/ ~Clean(r)',
         \A r \in Request : \A i \in DOMAIN Steps[r] :
           r # c => sends'[r][i] = sends[r][i] /\ records'[r][i] = records[r][i],
         \A i \in DOMAIN Steps[c] :
           /\ records'[c][i] + Flag(w, i)' <= sends'[c][i]
           /\ Clean(c)' /\ Steps[c][i] = "email" => Balanced(w, c, i)',
         \/ \A i \in DOMAIN Steps[c] : sends'[c][i] = sends[c][i] /\ records'[c][i] = records[c][i]
         \/ entry[c] # "done" /\ \A v \in Worker : v # w => ~Handles(v, c)
  PROVE  RecordLedger'
<1>. SUFFICES ASSUME NEW r \in Request, NEW i \in DOMAIN Steps[r]
              PROVE  RecordAt(r, i)'
  BY DEF RecordLedger
<1>1. RecordAt(r, i)
  BY DEF RecordLedger
<1>2. CASE r = c
  BY <1>1, <1>2, RecordInHand
<1>3. CASE r # c
  <2>1. ~Handles(w, r)'
    BY <1>3 DEF Handles
  <2>2. Clean(r)' => Clean(r)
    BY CleanBefore
  <2>3. CASE entry'[r] = "done" => entry[r] = "done"
    BY <1>1, <1>3, <2>1, <2>3, RecordElsewhere
  <2>4. CASE ~Clean(r)'
    <3>1. \A v \in Worker : Handles(v, r)' => v # w /\ Handles(v, r) /\ Flag(v, i)' = Flag(v, i)
      BY <2>1, OwedKept DEF Others, Flag
    <3>2. sends'[r][i] = sends[r][i] /\ records'[r][i] = records[r][i]
      BY <1>3
    <3>. QED BY <1>1, <2>4, <3>1, <3>2 DEF RecordAt
  <2>. QED BY <2>3, <2>4
<1>. QED BY <1>2, <1>3

(* It has none any more, and acknowledged none but an even one.            *)
LEMMA RecordLeft ==
  ASSUME Types, RecordLedger, NEW w \in Worker, Others(w), Charged(w), ~Handling(w)',
         UNCHANGED <<sends, records>>,
         \A r \in Request : entry'[r] = "done" =>
           \/ entry[r] = "done"
           \/ \A i \in DOMAIN Steps[r] : Clean(r) /\ Steps[r][i] = "email" => records[r][i] = sends[r][i]
  PROVE  RecordLedger'
<1>. SUFFICES ASSUME NEW r \in Request, NEW i \in DOMAIN Steps[r]
              PROVE  RecordAt(r, i)'
  BY DEF RecordLedger
<1>1. RecordAt(r, i) /\ sends'[r][i] = sends[r][i] /\ records'[r][i] = records[r][i] /\ ~Handles(w, r)'
  BY DEF RecordLedger, Handles
<1>. QED BY <1>1, RecordElsewhere

(* It begins one: without a mishap, nothing of it was sent before.         *)
LEMMA RecordTaken ==
  ASSUME Types, Types', Owned, SendLedger, RecordLedger, NEW w \in Worker, NEW c \in todo[w],
         NEW l \in {"failed", "dispatch"}, pc[w] = "take", Moved(w, l, todo[w] \ {c}, c, 0, <<>>, 0),
         UNCHANGED <<entry, sends, records, charged>>
  PROVE  RecordLedger'
<1>1. Others(w) /\ cur'[w] = c /\ reports'[w] = <<>> /\ pc'[w] = l
  BY MovedEffect DEF Types
<1>2. c \in Request /\ owner[c] = w /\ w # None
  BY DEF Types, LocalOK, Owned, Mine
<1>3. Charged(w) /\ (Clean(c)' => Clean(c))
  BY <1>2, CleanBefore DEF Charged, charged
<1>4. ASSUME NEW i \in DOMAIN Steps[c]
      PROVE  /\ records'[c][i] + Flag(w, i)' <= sends'[c][i]
             /\ Clean(c)' /\ Steps[c][i] = "email" => Balanced(w, c, i)'
  <2>. DEFINE x == sends[c][i]
              y == records[c][i]
  <2>1. x \in Nat /\ y \in Nat /\ y <= x /\ LedgerAt(c, i) /\ sends'[c][i] = x /\ records'[c][i] = y
    BY <1>2 DEF Types, EffectsOK, Counters, RecordLedger, RecordAt, SendLedger
  <2>2. Flag(w, i)' = 0
    BY <1>1 DEF Flag, FlagBy
  <2>3. Clean(c) => x = 0 /\ y = 0
    <3>1. \A v \in Worker : ~Handles(v, c)
      <4>1. ~Handling(w)
        BY DEF Handling, Elsewhere
      <4>. QED BY <4>1, Exclusive DEF Handles
    <3>2. entry[c] \in Open
      BY <1>2 DEF Types, Pending, Open
    <3>3. x + Executions(c) <= Most(c)
      BY <2>1, <3>1, <3>2 DEF LedgerAt
    <3>4. Executions(c) \in Nat /\ (Clean(c) => Most(c) = Executions(c))
      BY ExecutionsType, Paid DEF Most, Clean
    <3>. QED BY <2>1, <3>3, <3>4
  <2>. HIDE DEF x, y
  <2>4. y + 0 <= x /\ (Clean(c)' => x = y + 0 /\ x = y)
    BY <1>3, <2>1, <2>3
  <2>. QED BY <2>1, <2>2, <2>4 DEF Balanced
<1>5. UNCHANGED <<entry, sends, records>>
  OBVIOUS
<1>. QED BY <1>1, <1>2, <1>3, <1>4, <1>5, RecordOnward

(* A worker's dispatching.                                                 *)
LEMMA DispatchRecords ==
  ASSUME Types, Types', Owned, AllFresh, RecordLedger, NEW w \in Worker,
         PassOver(w) \/ Refuse(w) \/ Throttle(w) \/ Send(w) \/ Conclude(w)
  PROVE  RecordLedger'
<1>0. PICK c, s : c = cur[w] /\ s = reports[w]
  OBVIOUS
<1>1. /\ pc[w] \in {"dispatch", "send"} /\ UNCHANGED queue /\ UNCHANGED records /\ Handling(w)
  BY PassOverMoves, RefuseMoves, ConcludeMoves, ThrottleMoves, SendMoves, Locations DEF Handling, effects
<1>2. c \in Request /\ s \in Seq(Status) /\ Len(s) \in Nat /\ recorded[w] = 0
  BY <1>0, <1>1, InHand DEF AllFresh, Fresh
<1>3. \A i \in DOMAIN Steps[c] : i \in Nat
  BY <1>2, StepsType
<1>4. entry[c] # "done" /\ (\A v \in Worker : v # w => ~Handles(v, c))
  <2>1. owner[c] = w /\ w # None
    BY <1>0, <1>1 DEF Owned, Mine
  <2>. QED BY <1>0, <1>1, <1>2, <2>1, Exclusive DEF Handles, Types, Pending
<1>5. ASSUME NEW i \in DOMAIN Steps[c]
      PROVE  /\ sends[c][i] \in Nat /\ records[c][i] \in Nat /\ records'[c][i] = records[c][i]
             /\ Flag(w, i) = FlagBy(s, 0, i)
             /\ records[c][i] + FlagBy(s, 0, i) <= sends[c][i]
             /\ Clean(c) /\ Steps[c][i] = "email" => sends[c][i] = records[c][i] + FlagBy(s, 0, i)
  <2>1. Handles(w, c) /\ RecordAt(c, i) /\ Flag(w, i) = FlagBy(s, 0, i)
    BY <1>0, <1>1, <1>2 DEF Handles, RecordLedger, Flag
  <2>2. sends[c][i] \in Nat /\ records[c][i] \in Nat /\ records'[c][i] = records[c][i]
    BY <1>1, <1>2 DEF Types, EffectsOK, Counters
  <2>. QED BY <1>1, <2>1, <2>2 DEF RecordAt, Balanced
<1>6. ASSUME Holds(w), Others(w), Charged(w), pc'[w] \in {"dispatch", "send", "record", "report"},
             recorded'[w] = 0,
             \A r \in Request : \A i \in DOMAIN Steps[r] : r # c => sends'[r][i] = sends[r][i],
             \A i \in DOMAIN Steps[c] :
               /\ records[c][i] + FlagBy(reports'[w], 0, i) <= sends'[c][i]
               /\ Clean(c)' /\ Steps[c][i] = "email" =>
                    pc'[w] # "report" /\ sends'[c][i] = records[c][i] + FlagBy(reports'[w], 0, i)
      PROVE  RecordLedger'
  <2>1. cur'[w] = c
    BY <1>0, <1>6 DEF Holds
  <2>2. \A i : Flag(w, i)' = FlagBy(reports'[w], 0, i)
    BY <1>6 DEF Flag
  <2>3. ASSUME NEW i \in DOMAIN Steps[c]
        PROVE  /\ records'[c][i] + Flag(w, i)' <= sends'[c][i]
               /\ Clean(c)' /\ Steps[c][i] = "email" => Balanced(w, c, i)'
    BY <1>5, <1>6, <2>2 DEF Balanced
  <2>4. \A r \in Request : \A i \in DOMAIN Steps[r] :
           r # c => sends'[r][i] = sends[r][i] /\ records'[r][i] = records[r][i]
    BY <1>1, <1>6
  <2>5. \A r \in Request : entry'[r] = "done" => entry[r] = "done"
    BY <1>1 DEF queue
  <2>. QED BY <1>2, <1>4, <1>6, <2>1, <2>3, <2>4, <2>5, RecordOnward
<1>7. Charged(w) => (Clean(c)' => Clean(c)) /\ (Pays(w) \/ spent[c] > 0 => ~Clean(c)')
  BY <1>0, <1>2, CleanBefore
<1>8. ASSUME pc[w] = "dispatch", Retries(w), UNCHANGED sends, Charged(w),
             Pays(w) \/ Flawed(c) \/ HasError(s)
      PROVE  RecordLedger'
  <2>1. /\ pc'[w] \in {"report", "dispatch"} /\ Holds(w) /\ Others(w) /\ reports'[w] = <<>> /\ recorded'[w] = 0
    BY <1>2, <1>8, MoveEffects
  <2>2. ~Clean(c)'
    <3>1. HasError(s) => spent[c] > 0
      BY <1>0, <1>1 DEF AllFresh, Fresh
    <3>. QED BY <1>7, <1>8, <3>1 DEF Clean
  <2>3. ASSUME NEW i \in DOMAIN Steps[c]
        PROVE  records[c][i] + FlagBy(reports'[w], 0, i) <= sends'[c][i]
    <3>1. FlagBy(reports'[w], 0, i) = 0
      BY <2>1 DEF FlagBy
    <3>2. FlagBy(s, 0, i) \in {0, 1} /\ sends'[c][i] = sends[c][i]
      BY <1>8, FlagType
    <3>. QED BY <1>5, <3>1, <3>2
  <2>. QED BY <1>6, <1>8, <2>1, <2>2, <2>3
<1>9. ASSUME NEW status \in Status, Reports(w, "dispatch", status), Charged(w), NEW k, k = Len(s) + 1,
             k \in DOMAIN Steps[c],
             \/ sends' = sends /\ status # "sent"
             \/ Bumped(sends, sends', c, k) /\ status = "sent" /\ sends' = Count(sends, c, k)
             \/ Bumped(sends, sends', c, k) /\ status = "error" /\ Pays(w)
      PROVE  RecordLedger'
  <2>1. /\ pc'[w] = "dispatch" /\ Holds(w) /\ Others(w) /\ reports'[w] = Append(s, status) /\ recorded'[w] = 0
    BY <1>0, <1>2, <1>9, MoveEffects
  <2>2. ASSUME NEW i \in DOMAIN Steps[c]
        PROVE  /\ records[c][i] + FlagBy(reports'[w], 0, i) <= sends'[c][i]
               /\ Clean(c)' /\ Steps[c][i] = "email" =>
                    sends'[c][i] = records[c][i] + FlagBy(reports'[w], 0, i)
    <3>. DEFINE f == FlagBy(s, 0, i)
                g == FlagBy(reports'[w], 0, i)
                x == sends[c][i]
                y == sends'[c][i]
                z == records[c][i]
    <3>1. /\ x \in Nat /\ z \in Nat /\ z + f <= x
          /\ Clean(c) /\ Steps[c][i] = "email" => x = z + f
      BY <1>5
    <3>2. /\ i # k => g = f
          /\ i = k /\ status # "sent" => g = 0 /\ f = 0
          /\ i = k /\ status = "sent" => g = 1 /\ f = 0
      <4>1. i \in Nat /\ s \in Seq(Status) /\ status \in Status
        BY <1>2, <1>3
      <4>2. FlagMoves(s, status, i)
        BY <4>1, FlagMoved
      <4>. QED BY <1>9, <2>1, <4>2 DEF FlagMoves
    <3>3. f \in {0, 1} /\ g \in {0, 1}
      BY FlagType
    <3>4. /\ i # k => y = x
          /\ status = "sent" /\ i = k => y = x + 1
          /\ y = x \/ y = x + 1
          /\ status # "sent" => y = x \/ Pays(w)
      BY <1>2, <1>9 DEF Bumped
    <3>5. (Clean(c)' => Clean(c)) /\ (Pays(w) => ~Clean(c)')
      BY <1>7, <1>9
    <3>. HIDE DEF f, g, x, y, z
    <3>6. z + g <= y
      BY <3>1, <3>2, <3>3, <3>4
    <3>7. Clean(c)' /\ Steps[c][i] = "email" => y = z + g
      <4>1. CASE i # k
        BY <3>1, <3>2, <3>4, <3>5, <4>1
      <4>2. CASE i = k /\ status = "sent"
        BY <3>1, <3>2, <3>4, <3>5, <4>2
      <4>3. CASE i = k /\ status # "sent"
        BY <3>1, <3>2, <3>4, <3>5, <4>3
      <4>. QED BY <4>1, <4>2, <4>3
    <3>. QED BY <3>6, <3>7 DEF g, y, z
  <2>3. \A r \in Request : \A i \in DOMAIN Steps[r] : r # c => sends'[r][i] = sends[r][i]
    BY <1>9 DEF Bumped
  <2>. QED BY <1>6, <1>9, <2>1, <2>2, <2>3
<1>10. ASSUME NEW m \in {"send", "record"}, Stays(w, m), UNCHANGED sends, Charged(w)
       PROVE  RecordLedger'
  <2>1. /\ pc'[w] = m /\ Holds(w) /\ Others(w) /\ reports'[w] = s /\ recorded'[w] = 0
    BY <1>0, <1>2, <1>10, MoveEffects
  <2>2. Clean(c)' => Clean(c)
    BY <1>7, <1>10
  <2>. QED BY <1>5, <1>6, <1>10, <2>1, <2>2
<1>11. Len(s) < Len(Steps[c]) => Len(s) + 1 \in DOMAIN Steps[c] /\ Upcoming(w) = Len(s) + 1
  BY <1>0, <1>2, StepsType DEF Upcoming
<1>12. UNCHANGED charged => Charged(w)
  BY DEF charged, Charged
<1>13. {"scheduled", "blocked", "throttled", "sent", "error"} \subseteq Status
  BY DEF Status
<1>14. CASE PassOver(w)
  <2>1. /\ Len(s) < Len(Steps[c]) /\ UNCHANGED sends /\ Charged(w)
        /\ \E status \in {"scheduled", "blocked"} : Reports(w, "dispatch", status)
    BY <1>0, <1>12, <1>14, PassOverMoves DEF effects
  <2>. QED BY <1>9, <1>11, <1>13, <2>1
<1>15. CASE Refuse(w)
  <2>1. pc[w] = "dispatch" /\ Flawed(c) /\ Retries(w) /\ UNCHANGED sends /\ Charged(w)
    BY <1>0, <1>12, <1>15, RefuseMoves DEF effects
  <2>. QED BY <1>8, <2>1
<1>16. CASE Throttle(w)
  <2>1. /\ pc[w] = "dispatch" /\ Len(s) < Len(Steps[c]) /\ UNCHANGED sends /\ Charged(w)
        /\ \/ Stays(w, "send")
           \/ Retries(w) /\ Pays(w)
           \/ Reports(w, "dispatch", "throttled")
    BY <1>0, <1>16, ThrottleMoves, FreeCharged DEF Charged
  <2>. QED BY <1>8, <1>9, <1>10, <1>11, <1>13, <2>1
<1>17. CASE Send(w)
  <2>1. /\ Len(s) < Len(Steps[c])
        /\ \/ sends' = Count(sends, c, Upcoming(w)) /\ Reports(w, "dispatch", "sent") /\ Free
           \/ /\ sends' = sends \/ sends' = Count(sends, c, Upcoming(w))
              /\ Reports(w, "dispatch", "error") /\ Pays(w)
    BY <1>0, <1>17, SendMoves
  <2>2. Counters(sends)
    BY DEF Types, EffectsOK
  <2>3. Bumped(sends, sends', c, Len(s) + 1)
    BY <1>2, <1>11, <2>1, <2>2, Counted
  <2>4. Charged(w)
    BY <2>1, FreeCharged DEF Charged
  <2>. QED BY <1>9, <1>11, <1>13, <2>1, <2>3, <2>4
<1>18. CASE Conclude(w)
  <2>1. /\ pc[w] = "dispatch" /\ UNCHANGED sends /\ Charged(w)
        /\ \/ HasError(s) /\ Retries(w)
           \/ Stays(w, "record")
    BY <1>0, <1>12, <1>18, ConcludeMoves DEF effects, HasError
  <2>. QED BY <1>8, <1>10, <2>1
<1>. QED BY <1>14, <1>15, <1>16, <1>17, <1>18

(* The recording.                                                          *)
LEMMA RecordRecords ==
  ASSUME Types, Types', Owned, RecordLedger, NEW w \in Worker, Record(w)
  PROVE  RecordLedger'
<1>0. PICK c, s, k : c = cur[w] /\ s = reports[w] /\ k = recorded[w]
  OBVIOUS
<1>1. /\ pc[w] = "record" /\ UNCHANGED queue /\ UNCHANGED sends /\ Handling(w) /\ Charged(w)
      /\ c \in Request /\ s \in Seq(Status) /\ k \in Nat
  BY <1>0, RecordMoves, InHand, Locations, FreeCharged DEF Handling, Charged, Types, LocalOK
<1>2. entry[c] # "done" /\ (\A v \in Worker : v # w => ~Handles(v, c))
  <2>1. owner[c] = w /\ w # None
    BY <1>0, <1>1 DEF Owned, Mine
  <2>. QED BY <1>0, <1>1, <2>1, Exclusive DEF Handles, Types, Pending
<1>3. \A i \in DOMAIN Steps[c] : i \in Nat
  BY <1>1, StepsType
<1>4. ASSUME NEW i \in DOMAIN Steps[c]
      PROVE  /\ sends[c][i] \in Nat /\ records[c][i] \in Nat /\ sends'[c][i] = sends[c][i]
             /\ Flag(w, i) = FlagBy(s, k, i)
             /\ records[c][i] + FlagBy(s, k, i) <= sends[c][i]
             /\ Clean(c) /\ Steps[c][i] = "email" => sends[c][i] = records[c][i] + FlagBy(s, k, i)
  <2>1. Handles(w, c) /\ RecordAt(c, i) /\ Flag(w, i) = FlagBy(s, k, i)
    BY <1>0, <1>1 DEF Handles, RecordLedger, Flag
  <2>2. sends[c][i] \in Nat /\ records[c][i] \in Nat /\ sends'[c][i] = sends[c][i]
    BY <1>1 DEF Types, EffectsOK, Counters
  <2>. QED BY <1>1, <2>1, <2>2 DEF RecordAt, Balanced
<1>5. (Clean(c)' => Clean(c)) /\ (Pays(w) => ~Clean(c)')
  BY <1>0, <1>1, CleanBefore
<1>6. \A r \in Request : entry'[r] = "done" => entry[r] = "done"
  BY <1>1 DEF queue
<1>7. \A i : i \in Due(w) <=> i \in DOMAIN s /\ i > k /\ Steps[c][i] = "email" /\ s[i] = "sent"
  BY <1>0 DEF Due
<1>8. ASSUME Holds(w), Others(w), reports'[w] = s,
             \A i \in DOMAIN Steps[c] :
               /\ records'[c][i] + FlagBy(s, recorded'[w], i) <= sends[c][i]
               /\ Clean(c)' /\ Steps[c][i] = "email" =>
                    sends[c][i] = records'[c][i] + FlagBy(s, recorded'[w], i)
                    /\ (pc'[w] \in {"report", "ack"} => sends[c][i] = records'[c][i]),
             \A r \in Request : \A i \in DOMAIN Steps[r] : r # c => records'[r][i] = records[r][i]
      PROVE  RecordLedger'
  <2>1. cur'[w] = c
    BY <1>0, <1>8 DEF Holds
  <2>2. \A i : Flag(w, i)' = FlagBy(s, recorded'[w], i)
    BY <1>8 DEF Flag
  <2>3. ASSUME NEW i \in DOMAIN Steps[c]
        PROVE  /\ records'[c][i] + Flag(w, i)' <= sends'[c][i]
               /\ Clean(c)' /\ Steps[c][i] = "email" => Balanced(w, c, i)'
    BY <1>4, <1>8, <2>2 DEF Balanced
  <2>4. \A r \in Request : \A i \in DOMAIN Steps[r] :
           r # c => sends'[r][i] = sends[r][i] /\ records'[r][i] = records[r][i]
    BY <1>1, <1>8
  <2>. QED BY <1>1, <1>2, <1>6, <1>8, <2>1, <2>3, <2>4, RecordOnward
<1>9. CASE (Due(w) = {} \/ cur[w] \in Leadless) /\ Stays(w, "report") /\ UNCHANGED records
  <2>1. Holds(w) /\ Others(w) /\ reports'[w] = s /\ recorded'[w] = k
    BY <1>0, <1>9, MoveEffects
  <2>2. ASSUME NEW i \in DOMAIN Steps[c]
        PROVE  /\ records'[c][i] + FlagBy(s, recorded'[w], i) <= sends[c][i]
               /\ Clean(c)' /\ Steps[c][i] = "email" =>
                    sends[c][i] = records'[c][i] + FlagBy(s, recorded'[w], i) /\ sends[c][i] = records'[c][i]
    <3>1. records'[c][i] = records[c][i]
      BY <1>9
    <3>2. Clean(c)' /\ Steps[c][i] = "email" => FlagBy(s, k, i) = 0
      BY <1>0, <1>5, <1>7, <1>9 DEF Clean, FlagBy
    <3>. QED BY <1>4, <1>5, <2>1, <3>1, <3>2
  <2>. QED BY <1>8, <1>9, <2>1, <2>2
<1>10. ASSUME NEW i \in Due(w), \A j \in Due(w) : i <= j, Onward(w, "record", attempt[w], reports[w], i),
              \/ records' = Count(records, cur[w], i)
              \/ records' = records /\ Pays(w)
       PROVE  RecordLedger'
  <2>1. Holds(w) /\ Others(w) /\ reports'[w] = s /\ recorded'[w] = i /\ pc'[w] = "record"
    <3>1. Moved(w, "record", todo[w], cur[w], attempt[w], s, i)
      BY <1>0, <1>10 DEF Onward
    <3>. QED BY <3>1, MovedEffect DEF Types, Holds
  <2>2. i \in DOMAIN s /\ i > k /\ Steps[c][i] = "email" /\ s[i] = "sent" /\ i \in Nat
    <3>1. i \in DOMAIN s /\ i > k /\ Steps[c][i] = "email" /\ s[i] = "sent"
      BY <1>7, <1>10
    <3>2. DOMAIN s \subseteq Nat
      BY <1>1
    <3>. QED BY <3>1, <3>2
  <2>3. ASSUME NEW j \in DOMAIN Steps[c]
        PROVE  /\ records'[c][j] + FlagBy(s, i, j) <= sends[c][j]
               /\ Clean(c)' /\ Steps[c][j] = "email" => sends[c][j] = records'[c][j] + FlagBy(s, i, j)
    <3>. DEFINE f == FlagBy(s, k, j)
                g == FlagBy(s, i, j)
                x == sends[c][j]
                y == records[c][j]
                z == records'[c][j]
    <3>1. /\ x \in Nat /\ y \in Nat /\ y + f <= x
          /\ Clean(c) /\ Steps[c][j] = "email" => x = y + f
      BY <1>4
    <3>2. f \in {0, 1} /\ g \in {0, 1}
      BY FlagType
    <3>3. j \in Nat
      BY <1>3
    <3>4. j = i => f = 1 /\ g = 0
      BY <2>2 DEF FlagBy
    <3>5. j # i => g <= f
      BY <1>1, <2>2, <3>3 DEF FlagBy
    <3>6. j # i /\ Steps[c][j] = "email" => g = f
      <4>1. CASE j < i
        <5>1. Steps[c][j] = "email" => j \notin Due(w)
          BY <1>10, <2>2, <3>3, <4>1
        <5>2. Steps[c][j] = "email" => ~(j \in DOMAIN s /\ j > k /\ s[j] = "sent")
          BY <1>7, <5>1
        <5>3. Steps[c][j] = "email" => f = 0
          BY <5>2 DEF FlagBy
        <5>4. g = 0
          BY <2>2, <3>3, <4>1 DEF FlagBy
        <5>. QED BY <5>3, <5>4
      <4>2. CASE j > i
        BY <1>1, <2>2, <3>3, <4>2 DEF FlagBy
      <4>. QED BY <2>2, <3>3, <4>1, <4>2
    <3>7. /\ j # i => z = y
          /\ j = i => z = y + 1 \/ (z = y /\ Pays(w))
      <4>1. CASE records' = Count(records, cur[w], i)
        BY <1>0, <1>1, <4>1 DEF Types, EffectsOK, Counters, Count
      <4>2. CASE records' = records /\ Pays(w)
        BY <4>2
      <4>. QED BY <1>10, <4>1, <4>2
    <3>8. (Clean(c)' => Clean(c)) /\ (Pays(w) => ~Clean(c)')
      BY <1>5
    <3>. HIDE DEF f, g, x, y, z
    <3>9. z + g <= x
      BY <3>1, <3>2, <3>4, <3>5, <3>7
    <3>10. Clean(c)' /\ Steps[c][j] = "email" => x = z + g
      <4>1. CASE j = i
        BY <3>1, <3>4, <3>7, <3>8, <4>1
      <4>2. CASE j # i
        BY <3>1, <3>6, <3>7, <3>8, <4>2
      <4>. QED BY <4>1, <4>2
    <3>. QED BY <3>9, <3>10 DEF g, x, z
  <2>4. \A r \in Request : \A j \in DOMAIN Steps[r] : r # c => records'[r][j] = records[r][j]
    BY <1>0, <1>1, <1>10 DEF Types, EffectsOK, Counters, Count
  <2>. QED BY <1>8, <2>1, <2>3, <2>4
<1>. QED BY <1>9, <1>10, RecordMoves

LEMMA RecordStep ==
  ASSUME Types, Types', Owned, SendLedger, AllFresh, RecordLedger, [Next]_vars
  PROVE  RecordLedger'
<1>. LocalOK /\ QueueOK
  BY DEF Types
<1>1. CASE UNCHANGED vars \/ Tick \/ \E r \in Request : Submit(r)
  <2>1. UNCHANGED <<loop, progress, sends, records, charged>>
    BY <1>1 DEF vars, Tick, Submit, effects
  <2>2. \A r \in Request : entry'[r] = "done" => entry[r] = "done"
    BY <1>1 DEF vars, queue, Tick, Submit, QueueOK
  <2>. QED
    BY <2>1, <2>2 DEF loop, progress, charged, RecordLedger, RecordAt, Balanced, Flag, Clean, Handles, Handling
<1>2. ASSUME NEW w \in Worker, Others(w), Charged(w), UNCHANGED <<sends, records>>, ~Handling(w)',
             \A r \in Request : entry'[r] = "done" => entry[r] = "done"
      PROVE  RecordLedger'
  BY <1>2, RecordLeft
<1>3. ASSUME NEW w \in Worker, Read(w) \/ Restart(w)
      PROVE  RecordLedger'
  <2>1. \E l \in {"take", "idle"} : \E t : Moved(w, l, t, cur[w], attempt[w], reports[w], recorded[w])
    BY <1>3, ReadMoves, RestartMoves DEF Stays, Onward
  <2>2. Others(w) /\ ~Handling(w)'
    BY <2>1, MovedEffect DEF Handling, Elsewhere
  <2>3. UNCHANGED charged /\ UNCHANGED <<sends, records>>
    BY <1>3, ReadMoves, RestartMoves DEF effects
  <2>4. \A r \in Request : entry'[r] = "done" => entry[r] = "done"
    BY <1>3, ReadMoves, RestartMoves DEF queue
  <2>. QED BY <1>2, <2>2, <2>3, <2>4 DEF charged, Charged
<1>4. ASSUME NEW w \in Worker, Take(w)
      PROVE  RecordLedger'
  <2>1. pc[w] = "take" /\ UNCHANGED <<queue, sends, records, charged>>
    BY <1>4, TakeMoves DEF effects
  <2>2. CASE Moved(w, "idle", {}, None, 0, <<>>, 0)
    <3>1. Others(w) /\ ~Handling(w)'
      BY <2>2, MovedEffect DEF Handling, Elsewhere
    <3>. QED BY <1>2, <2>1, <3>1 DEF queue, charged, Charged
  <2>3. ASSUME NEW r \in todo[w], NEW l \in {"failed", "dispatch"}, Moved(w, l, todo[w] \ {r}, r, 0, <<>>, 0)
        PROVE  RecordLedger'
    BY <2>1, <2>3, RecordTaken DEF queue
  <2>. QED BY <1>4, <2>2, <2>3, TakeMoves
<1>5. ASSUME NEW w \in Worker, PassOver(w) \/ Refuse(w) \/ Throttle(w) \/ Send(w) \/ Conclude(w)
      PROVE  RecordLedger'
  BY <1>5, DispatchRecords
<1>6. ASSUME NEW w \in Worker, Record(w)
      PROVE  RecordLedger'
  BY <1>6, RecordRecords
(* With the request in hand, and nothing of it to record: what was         *)
(* balanced stays so, unless the worker fails, which was paid for.         *)
<1>7. ASSUME NEW w \in Worker, Handling(w), NEW l, Stays(w, l), UNCHANGED <<sends, records>>, Charged(w),
             \/ l = "ack" /\ pc[w] = "report"
             \/ l = "failed" /\ Pays(w)
             \/ l \in {"deadLetter", "ackDead"},
             \A r \in Request : entry'[r] = "done" => entry[r] = "done" \/ ~Clean(r)'
      PROVE  RecordLedger'
  <2>1. PICK c : c = cur[w]
    OBVIOUS
  <2>2. c \in Request
    BY <1>7, <2>1, InHand
  <2>3. pc'[w] = l /\ cur'[w] = c /\ Others(w) /\ reports'[w] = reports[w] /\ recorded'[w] = recorded[w]
    BY <1>7, <2>1, MoveEffects DEF Holds
  <2>4. ASSUME NEW i \in DOMAIN Steps[c]
        PROVE  /\ records'[c][i] + Flag(w, i)' <= sends'[c][i]
               /\ Clean(c)' /\ Steps[c][i] = "email" => Balanced(w, c, i)'
    <3>1. RecordAt(c, i) /\ Handles(w, c)
      BY <1>7, <2>1, <2>2 DEF RecordLedger, Handles
    <3>2. Flag(w, i)' = Flag(w, i) /\ records'[c][i] = records[c][i] /\ sends'[c][i] = sends[c][i]
      BY <1>7, <2>3 DEF Flag
    <3>3. Clean(c)' => Clean(c)
      BY <1>7, <2>2, CleanBefore
    <3>. QED BY <1>7, <2>3, <3>1, <3>2, <3>3 DEF RecordAt, Balanced
  <2>5. /\ \A r \in Request : \A i \in DOMAIN Steps[r] :
             r # c => sends'[r][i] = sends[r][i] /\ records'[r][i] = records[r][i]
        /\ \A i \in DOMAIN Steps[c] : sends'[c][i] = sends[c][i] /\ records'[c][i] = records[c][i]
    BY <1>7
  <2>. QED BY <1>7, <2>2, <2>3, <2>4, <2>5, RecordOnward
<1>8. ASSUME NEW w \in Worker, Answer(w)
      PROVE  RecordLedger'
  <2>1. pc[w] = "report" /\ UNCHANGED queue /\ UNCHANGED <<sends, records>> /\ Handling(w) /\ cur[w] \in Request
    BY <1>8, AnswerMoves, Locations, InHand DEF Handling
  <2>2. Charged(w) /\ ((Stays(w, "ack")) \/ (Stays(w, "failed") /\ Pays(w)))
    BY <1>8, AnswerMoves, FreeCharged DEF Charged
  <2>3. \A r \in Request : entry'[r] = "done" => entry[r] = "done"
    BY <2>1 DEF queue
  <2>. QED BY <1>7, <2>1, <2>2, <2>3
<1>9. ASSUME NEW w \in Worker, Ack(w)
      PROVE  RecordLedger'
  <2>1. PICK c : c = cur[w]
    OBVIOUS
  <2>2. pc[w] = "ack" /\ Handling(w) /\ c \in Request /\ UNCHANGED <<sends, records>>
    BY <1>9, <2>1, AckMoves, InHand, Locations DEF Handling, effects
  <2>3. \A r \in Request : entry'[r] = "done" => entry[r] = "done" \/ r = c
    BY <1>9, <2>1, AckMoves DEF Settle, QueueOK
  <2>4. CASE Stays(w, "take") /\ Free
    <3>1. Others(w) /\ ~Handling(w)' /\ Charged(w)
      BY <2>4, MoveEffects, FreeCharged DEF Handling, Elsewhere
    <3>2. \A i \in DOMAIN Steps[c] : Clean(c) /\ Steps[c][i] = "email" => records[c][i] = sends[c][i]
      BY <2>1, <2>2 DEF RecordLedger, RecordAt, Handles, Balanced
    <3>3. \A r \in Request : entry'[r] = "done" =>
            \/ entry[r] = "done"
            \/ \A i \in DOMAIN Steps[r] : Clean(r) /\ Steps[r][i] = "email" => records[r][i] = sends[r][i]
      BY <2>3, <3>2
    <3>. QED BY <2>2, <3>1, <3>3, RecordLeft
  <2>5. CASE Stays(w, "failed") /\ Pays(w)
    <3>1. Charged(w) /\ ~Clean(c)'
      BY <2>1, <2>2, <2>5, CleanBefore DEF Charged
    <3>2. \A r \in Request : entry'[r] = "done" => entry[r] = "done" \/ ~Clean(r)'
      BY <2>3, <3>1
    <3>. QED BY <1>7, <2>2, <2>5, <3>1, <3>2
  <2>. QED BY <1>9, <2>4, <2>5, AckMoves
<1>10. ASSUME NEW w \in Worker, Die(w), Charged(w), UNCHANGED <<sends, records>>
       PROVE  RecordLedger'
  <2>1. /\ Leaves(w)
        /\ entry' = [r \in Request |-> IF owner[r] = w THEN "stranded" ELSE entry[r]]
    BY <1>10, DieMoved
  <2>2. Others(w) /\ ~Handling(w)'
    BY <2>1, MoveEffects DEF Handling, Elsewhere
  <2>3. \A r \in Request : entry'[r] = "done" => entry[r] = "done"
    BY <2>1
  <2>. QED BY <1>2, <1>10, <2>2, <2>3
<1>11. ASSUME NEW w \in Worker, HandleFailure(w) \/ DeadLetter(w) \/ AckDead(w)
       PROVE  RecordLedger'
  <2>1. Handling(w) /\ UNCHANGED <<sends, records>> /\ Charged(w)
    BY <1>11, GiveUpMoves, Locations, FreeCharged DEF Handling, effects, Charged
  <2>2. CASE Die(w)
    BY <1>10, <2>1, <2>2
  <2>3. \A r \in Request : ~Die(w) /\ entry'[r] = "done" => entry[r] = "done"
    BY <1>11, GiveUpMoves DEF Settle, QueueOK
  <2>4. CASE ~Die(w) /\ Stays(w, "take")
    <3>1. Others(w) /\ ~Handling(w)'
      BY <2>4, MoveEffects DEF Handling, Elsewhere
    <3>. QED BY <1>2, <2>1, <2>3, <2>4, <3>1
  <2>5. CASE ~Die(w) /\ \E l \in {"deadLetter", "ackDead"} : Stays(w, l)
    BY <1>7, <2>1, <2>3, <2>5
  <2>. QED BY <1>11, <2>2, <2>4, <2>5, GiveUpMoves
<1>12. ASSUME NEW w \in Worker, Crash(w)
       PROVE  RecordLedger'
  <2>1. Die(w) /\ UNCHANGED <<sends, records>> /\ Charged(w)
    BY <1>12, CrashMoves DEF effects, Charged
  <2>. QED BY <1>10, <2>1
<1>. QED
  BY <1>1, <1>3, <1>4, <1>5, <1>6, <1>8, <1>9, <1>11, <1>12 DEF Next, Step

LEMMA InitRecords == Init => AllFresh /\ RecordLedger
<1>. SUFFICES ASSUME Init PROVE AllFresh /\ RecordLedger
  OBVIOUS
<1>1. \A w \in Worker : pc[w] = "idle" /\ ~Handling(w)
  BY DEF Init, Handling, Elsewhere
<1>2. ASSUME NEW r \in Request, NEW i \in DOMAIN Steps[r]
      PROVE  RecordAt(r, i)
  <2>1. sends[r][i] = 0 /\ records[r][i] = 0
    BY DEF Init, Zeros
  <2>. QED BY <1>1, <2>1 DEF RecordAt, Handles
<1>. QED BY <1>1, <1>2 DEF AllFresh, Fresh, RecordLedger

(* No email is recorded that was not sent, and an acknowledged request has *)
(* recorded what it sent, as often as it was sent: but for a mishap, a     *)
(* request without a lead, and one that has an incomplete email, whose     *)
(* harness gave up after sending what preceded it.                         *)
THEOREM RecordsAreTrue == Spec => []RecordsMatchSends
<1>1. Types /\ Owned /\ SendLedger /\ AllFresh /\ RecordLedger /\ [Next]_vars
        => Owned' /\ SendLedger' /\ AllFresh' /\ RecordLedger'
  BY StepTypes, OwnedStep, LedgerStep, FreshStep, RecordStep
<1>2. Types /\ RecordLedger => RecordsMatchSends
  <2>. SUFFICES ASSUME Types, RecordLedger, NEW r \in Request, NEW i \in DOMAIN Steps[r]
                PROVE  /\ records[r][i] <= sends[r][i]
                       /\ entry[r] = "done" /\ Steps[r][i] = "email" =>
                            records[r][i] = sends[r][i] \/ spent[r] > 0 \/ r \in Leadless \/ Flawed(r)
    BY DEF RecordsMatchSends
  <2>1. RecordAt(r, i) /\ spent[r] \in Nat
    BY DEF RecordLedger, Types, ChargedOK
  <2>. QED BY <2>1 DEF RecordAt, Clean
<1>. QED BY <1>1, <1>2, InitLedger, InitRecords, AlwaysTypes, PTL DEF Spec
=============================================================================
