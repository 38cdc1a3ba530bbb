---------------------------- MODULE AutoSendProofs ----------------------------
(***************************************************************************)
(* What the automatic sending of replies guarantees, for any finite set of *)
(* consumers, any number of replies, harness attempts and deliveries, and  *)
(* any mishaps.                                                            *)
(***************************************************************************)
EXTENDS AutoSend, FiniteSetTheorems, TLAPS

USE AutoSendAssumption DEF Reply, Copy, None

-----------------------------------------------------------------------------
(* The type invariant by parts, with what it needs to be inductive: every  *)
(* answer and copy in hand is that of a request, and a context is only     *)
(* stored after its request.                                               *)
TaskOK ==
  /\ booking \in [Reply -> Booking]
  /\ tail \in 0 .. NumReplies /\ cursor \in 0 .. tail
  /\ owner \in [Reply -> Worker \cup {NoOne}]
  /\ count \in [Reply -> 0 .. MaxRetries]
RequestsOK == requests \in Seq(Reply) /\ Len(requests) <= MaxCopies
AnswersOK == answers \in Seq(1 .. Len(requests)) /\ answered \in [Copy -> 0 .. MaxAnswers]
ContextOK ==
  /\ context \subseteq registered /\ registered \subseteq 1 .. Len(requests)
  /\ missed \subseteq 1 .. Len(requests)
SendsOK == sends \in [Copy -> Nat]
LocalOK ==
  /\ pc \in [Worker -> Location]
  /\ reply \in [Worker -> Reply \cup {None}]
  /\ answer \in [Worker -> 0 .. Len(requests)]
  /\ copy \in [Worker -> 0 .. Len(requests)]
  /\ tries \in [Worker -> 0 .. HarnessRetries]
  /\ \A w \in Worker : /\ pc[w] \in TaskStep <=> reply[w] # None
                       /\ pc[w] \in AnswerStep => answer[w] # None
                       /\ pc[w] = "register" => copy[w] # None
BudgetOK ==
  /\ faults \in Nat /\ stops \in Nat /\ crashes \in Nat /\ repeats \in Nat
  /\ \A r \in Reply : /\ faults <= MaxMishaps[booking[r]] /\ stops <= MaxMishaps[booking[r]]
                      /\ crashes <= MaxMishaps[booking[r]] /\ repeats <= MaxMishaps[booking[r]]

Types == TaskOK /\ RequestsOK /\ AnswersOK /\ ContextOK /\ SendsOK /\ LocalOK /\ BudgetOK

-----------------------------------------------------------------------------
(* What a worker's part of a step is: where it goes and what it then holds.*)
Moved(w, location, r, a, c, n) ==
  /\ pc' = [pc EXCEPT ![w] = location]
  /\ reply' = [reply EXCEPT ![w] = r]
  /\ answer' = [answer EXCEPT ![w] = a]
  /\ copy' = [copy EXCEPT ![w] = c]
  /\ tries' = [tries EXCEPT ![w] = n]
Others(w) ==
  \A v \in Worker : v # w => /\ pc'[v] = pc[v] /\ reply'[v] = reply[v] /\ answer'[v] = answer[v]
                             /\ tries'[v] = tries[v]

LEMMA MovedEffect ==
  ASSUME LocalOK, NEW w \in Worker, NEW l, NEW r, NEW a, NEW c, NEW n, Moved(w, l, r, a, c, n)
  PROVE  /\ pc'[w] = l /\ reply'[w] = r /\ answer'[w] = a /\ tries'[w] = n
         /\ Others(w)
BY DEF LocalOK, Moved, Others

LEMMA MovedType ==
  ASSUME LocalOK, Len(requests) \in Nat, Len(requests)' \in Nat, Len(requests) <= Len(requests)',
         NEW w \in Worker, NEW l \in Location, NEW r \in Reply \cup {None},
         NEW a \in 0 .. Len(requests)', NEW c \in 0 .. Len(requests)', NEW n \in 0 .. HarnessRetries,
         l \in TaskStep <=> r # None, l \in AnswerStep => a # None, l = "register" => c # None,
         Moved(w, l, r, a, c, n)
  PROVE  LocalOK'
<1>1. pc' \in [Worker -> Location] /\ reply' \in [Worker -> Reply \cup {None}]
  BY DEF LocalOK, Moved
<1>2. tries' \in [Worker -> 0 .. HarnessRetries]
  BY DEF LocalOK, Moved
<1>3. answer' \in [Worker -> 0 .. Len(requests)']
  BY DEF LocalOK, Moved
<1>4. copy' \in [Worker -> 0 .. Len(requests)']
  BY DEF LocalOK, Moved
<1>5. ASSUME NEW v \in Worker
      PROVE  /\ pc'[v] \in TaskStep <=> reply'[v] # None
             /\ pc'[v] \in AnswerStep => answer'[v] # None
             /\ pc'[v] = "register" => copy'[v] # None
  BY DEF LocalOK, Moved
<1>. QED BY <1>1, <1>2, <1>3, <1>4, <1>5 DEF LocalOK

LEMMA GotoMoved ==
  ASSUME LocalOK, NEW w \in Worker, NEW l, Goto(w, l), UNCHANGED local
  PROVE  Moved(w, l, reply[w], answer[w], copy[w], tries[w])
BY DEF LocalOK, Goto, local, Moved

LEMMA EndTaskMoved ==
  ASSUME LocalOK, NEW w \in Worker, EndTask(w)
  PROVE  Moved(w, IF answer[w] # None THEN "lookup" ELSE "idle", None, answer[w], None, tries[w])
BY DEF LocalOK, EndTask, Goto, Moved

LEMMA EndAnswerMoved ==
  ASSUME LocalOK, NEW w \in Worker, EndAnswer(w)
  PROVE  Moved(w, "idle", reply[w], None, copy[w], tries[w])
BY DEF LocalOK, EndAnswer, Goto, Moved

LEMMA FailAttemptMoved ==
  ASSUME LocalOK, NEW w \in Worker, FailAttempt(w)
  PROVE  \/ /\ tries[w] < HarnessRetries
            /\ Moved(w, "enqueue", reply[w], answer[w], None, tries[w] + 1)
         \/ /\ tries[w] = HarnessRetries
            /\ Moved(w, "failed", reply[w], answer[w], None, tries[w])
<1>1. tries[w] \in 0 .. HarnessRetries
  BY DEF LocalOK
<1>. QED BY <1>1 DEF LocalOK, FailAttempt, Goto, Moved

LEMMA BeginMoved ==
  ASSUME LocalOK, NEW w \in Worker, NEW r, NEW c, Begin(w, r, c)
  PROVE  Moved(w, IF r # None THEN "enqueue" ELSE IF c # None THEN "lookup" ELSE "idle",
               r, c, copy[w], 0)
BY DEF LocalOK, Begin, Goto, Moved

LEMMA LeaveMoved ==
  ASSUME LocalOK, NEW w \in Worker, Leave(w)
  PROVE  Moved(w, "down", None, None, None, 0)
BY DEF LocalOK, Leave, Goto, Moved

(* The locations, as facts rather than as enumerated sets.                 *)
LEMMA Locations ==
  /\ \A l \in TaskStep : l \in Location /\ l \notin AnswerStep /\ l \notin {"down", "idle", "history"}
  /\ \A l \in AnswerStep : l \in Location /\ l \notin TaskStep /\ l \notin {"down", "idle", "history"}
  /\ \A l \in {"down", "idle", "history"} : l \in Location /\ l \notin TaskStep /\ l \notin AnswerStep
  /\ \A l \in {"enqueue", "register", "booking", "publish", "ack", "failed", "deadLetter", "ackDead"} :
       l \in TaskStep
  /\ \A l \in {"lookup", "send", "report", "forget", "ackAnswer", "ackError"} : l \in AnswerStep
BY DEF Location, TaskStep, AnswerStep

(* What a call may cost.                                                   *)
LEMMA ChargeEffect ==
  ASSUME Types, NEW call, Charge(call), UNCHANGED <<booking, budget>>
  PROVE  /\ BudgetOK'
         /\ call = "ok" => faults' = faults
         /\ call # "ok" => faults' = faults + 1
<1>1. \A r \in Reply : MaxMishaps[booking[r]] \in Nat
  BY DEF Types, TaskOK
<1>. QED BY <1>1 DEF Types, Charge, Mishap, BudgetOK, budget

-----------------------------------------------------------------------------
(* A worker's own variables, over a step that leaves the requests alone.   *)
Lengths == Len(requests) \in Nat /\ Len(requests)' \in Nat /\ Len(requests) <= Len(requests)'

LEMMA GotoType ==
  ASSUME LocalOK, Lengths, NEW w \in Worker, NEW l \in Location, Goto(w, l), UNCHANGED local,
         l \in TaskStep <=> pc[w] \in TaskStep,
         l \in AnswerStep => answer[w] # None, l = "register" => copy[w] # None
  PROVE  LocalOK'
<1>1. /\ reply[w] \in Reply \cup {None} /\ answer[w] \in 0 .. Len(requests)'
      /\ copy[w] \in 0 .. Len(requests)' /\ tries[w] \in 0 .. HarnessRetries
      /\ l \in TaskStep <=> reply[w] # None
  BY DEF LocalOK, Lengths
<1>. QED BY <1>1, GotoMoved, MovedType DEF Lengths

LEMMA EndTaskType ==
  ASSUME LocalOK, Lengths, NEW w \in Worker, EndTask(w)
  PROVE  LocalOK'
<1>1. /\ answer[w] \in 0 .. Len(requests)' /\ tries[w] \in 0 .. HarnessRetries
      /\ 0 \in 0 .. Len(requests)'
  BY DEF LocalOK, Lengths
<1>2. "lookup" \in Location /\ "idle" \in Location /\ "lookup" \notin TaskStep /\ "idle" \notin TaskStep
      /\ "idle" \notin AnswerStep
  BY Locations
<1>3. CASE answer[w] # None
  <2>1. Moved(w, "lookup", None, answer[w], None, tries[w])
    BY <1>3, EndTaskMoved
  <2>. QED BY <1>1, <1>2, <1>3, <2>1, MovedType DEF Lengths
<1>4. CASE answer[w] = None
  <2>1. Moved(w, "idle", None, answer[w], None, tries[w])
    BY <1>4, EndTaskMoved
  <2>. QED BY <1>1, <1>2, <2>1, MovedType DEF Lengths
<1>. QED BY <1>3, <1>4

LEMMA EndAnswerType ==
  ASSUME LocalOK, Lengths, NEW w \in Worker, pc[w] \notin TaskStep, EndAnswer(w)
  PROVE  LocalOK'
<1>1. /\ copy[w] \in 0 .. Len(requests)' /\ tries[w] \in 0 .. HarnessRetries
      /\ 0 \in 0 .. Len(requests)' /\ reply[w] = None
  BY DEF LocalOK, Lengths
<1>2. "idle" \in Location /\ "idle" \notin TaskStep /\ "idle" \notin AnswerStep
  BY Locations
<1>3. Moved(w, "idle", reply[w], None, copy[w], tries[w])
  BY EndAnswerMoved
<1>. QED BY <1>1, <1>2, <1>3, MovedType DEF Lengths

LEMMA FailAttemptType ==
  ASSUME LocalOK, Lengths, NEW w \in Worker, pc[w] \in TaskStep, FailAttempt(w)
  PROVE  LocalOK'
<1>1. /\ reply[w] \in Reply \cup {None} /\ answer[w] \in 0 .. Len(requests)'
      /\ tries[w] \in 0 .. HarnessRetries /\ 0 \in 0 .. Len(requests)' /\ reply[w] # None
  BY DEF LocalOK, Lengths
<1>2. \A l \in {"enqueue", "failed"} : l \in Location /\ l \in TaskStep /\ l \notin AnswerStep
  BY Locations
<1>3. CASE Moved(w, "enqueue", reply[w], answer[w], None, tries[w] + 1) /\ tries[w] < HarnessRetries
  <2>1. tries[w] + 1 \in 0 .. HarnessRetries
    BY <1>1, <1>3
  <2>. QED BY <1>1, <1>2, <1>3, <2>1, MovedType DEF Lengths
<1>4. CASE Moved(w, "failed", reply[w], answer[w], None, tries[w])
  BY <1>1, <1>2, <1>4, MovedType DEF Lengths
<1>. QED BY <1>3, <1>4, FailAttemptMoved

LEMMA BeginType ==
  ASSUME LocalOK, Lengths, NEW w \in Worker, NEW r \in Reply \cup {None},
         NEW c \in 0 .. Len(requests), Begin(w, r, c)
  PROVE  LocalOK'
<1>1. /\ c \in 0 .. Len(requests)' /\ copy[w] \in 0 .. Len(requests)'
      /\ 0 \in 0 .. HarnessRetries
  BY DEF LocalOK, Lengths
<1>2. CASE r # None
  <2>1. Moved(w, "enqueue", r, c, copy[w], 0)
    BY <1>2, BeginMoved
  <2>. QED BY <1>1, <1>2, <2>1, Locations, MovedType DEF Lengths
<1>3. CASE r = None /\ c # None
  <2>1. Moved(w, "lookup", r, c, copy[w], 0)
    BY <1>3, BeginMoved
  <2>. QED BY <1>1, <1>3, <2>1, Locations, MovedType DEF Lengths
<1>4. CASE r = None /\ c = None
  <2>1. Moved(w, "idle", r, c, copy[w], 0)
    BY <1>4, BeginMoved
  <2>. QED BY <1>1, <1>4, <2>1, Locations, MovedType DEF Lengths
<1>. QED BY <1>2, <1>3, <1>4

LEMMA LeaveType ==
  ASSUME LocalOK, Lengths, NEW w \in Worker, Leave(w)
  PROVE  LocalOK'
<1>1. 0 \in 0 .. Len(requests)' /\ 0 \in 0 .. HarnessRetries
  BY DEF Lengths
<1>. QED BY <1>1, LeaveMoved, Locations, MovedType DEF Lengths

(* The streams of texts.                                                   *)
LEMMA SeqOfMore ==
  ASSUME NEW m \in Nat, NEW n \in Nat, m <= n, NEW s \in Seq(1 .. m)
  PROVE  s \in Seq(1 .. n)
OBVIOUS

LEMMA RemoveType ==
  ASSUME TaskOK, NEW r, NEW call, Remove(r, call), UNCHANGED <<booking, tail, cursor, count>>
  PROVE  TaskOK'
BY DEF TaskOK, Remove

LEMMA DeliverType ==
  ASSUME TaskOK, NEW w \in Worker, NEW r \in Reply, DeliverReply(w, r), UNCHANGED <<booking, tail>>,
         cursor' \in 0 .. tail
  PROVE  TaskOK'
<1>1. CountUp(count[r]) \in 0 .. MaxRetries
  BY DEF TaskOK, CountUp
<1>2. count' \in [Reply -> 0 .. MaxRetries]
  BY <1>1 DEF TaskOK, DeliverReply
<1>. QED BY <1>2 DEF TaskOK, DeliverReply

LEMMA InitTypes == Init => Types
<1>. SUFFICES ASSUME Init PROVE Types
  OBVIOUS
<1>1. RequestsOK /\ AnswersOK /\ ContextOK /\ SendsOK
  BY DEF Init, RequestsOK, AnswersOK, ContextOK, SendsOK
<1>2. TaskOK
  BY DEF Init, TaskOK
<1>3. Len(requests) = 0
  BY DEF Init
<1>4. LocalOK
  BY <1>3, Locations DEF Init, LocalOK
<1>5. BudgetOK
  <2>1. \A r \in Reply : MaxMishaps[booking[r]] \in Nat
    BY DEF Init
  <2>. QED BY <2>1 DEF Init, BudgetOK
<1>. QED BY <1>1, <1>2, <1>4, <1>5 DEF Types

(* A read of new entries, flattened.                                       *)
LEMMA ReadNewMoves ==
  ASSUME Types, NEW w \in Worker, ReadNew(w)
  PROVE  /\ pc[w] = "idle" /\ UNCHANGED <<booking, tail, requests, answered>>
         /\ \/ /\ Goto(w, "history") /\ UNCHANGED <<cursor, owner, count, answers, local, faults>>
            \/ \E call \in Call, r \in Reply \cup {None}, c \in 0 .. Len(requests) :
                 /\ Charge(call)
                 /\ r # None => r = cursor + 1 /\ cursor < tail
                 /\ \/ Applied(call) /\ r # None /\ DeliverReply(w, r) /\ cursor' = r
                    \/ (~Applied(call) \/ r = None) /\ UNCHANGED <<cursor, owner, count>>
                 /\ \/ Applied(call) /\ c # None /\ answers # <<>> /\ c = Head(answers) /\ answers' = Tail(answers)
                    \/ (~Applied(call) \/ c = None) /\ UNCHANGED answers
                 /\ \/ call = "ok" /\ Begin(w, r, c)
                    \/ call # "ok" /\ Begin(w, None, None)
<1>1. CASE Goto(w, "history") /\ UNCHANGED <<cursor, owner, count, answers, local, faults>>
  BY <1>1 DEF ReadNew
<1>. DEFINE r == IF cursor < tail THEN cursor + 1 ELSE None
            c == IF answers # <<>> THEN Head(answers) ELSE None
<1>2. ASSUME NEW call \in Call, Charge(call),
             IF Applied(call) /\ r # None
             THEN DeliverReply(w, r) /\ cursor' = r ELSE UNCHANGED <<cursor, owner, count>>,
             answers' = IF Applied(call) /\ c # None THEN Tail(answers) ELSE answers,
             IF call = "ok" THEN Begin(w, r, c) ELSE Begin(w, None, None)
      PROVE  \E d \in 0 .. Len(requests), q \in Reply \cup {None} :
                 /\ q # None => q = cursor + 1 /\ cursor < tail
                 /\ \/ Applied(call) /\ q # None /\ DeliverReply(w, q) /\ cursor' = q
                    \/ (~Applied(call) \/ q = None) /\ UNCHANGED <<cursor, owner, count>>
                 /\ \/ Applied(call) /\ d # None /\ answers # <<>> /\ d = Head(answers) /\ answers' = Tail(answers)
                    \/ (~Applied(call) \/ d = None) /\ UNCHANGED answers
                 /\ \/ call = "ok" /\ Begin(w, q, d)
                    \/ call # "ok" /\ Begin(w, None, None)
  <2>1. r \in Reply \cup {None} /\ (r # None => r = cursor + 1 /\ cursor < tail)
    BY DEF Types, TaskOK
  <2>2. c \in 0 .. Len(requests) /\ (c # None => answers # <<>> /\ c = Head(answers))
    <3>1. answers \in Seq(1 .. Len(requests)) /\ Len(requests) \in Nat
      BY DEF Types, AnswersOK, RequestsOK
    <3>2. answers # <<>> => Head(answers) \in 1 .. Len(requests)
      BY <3>1
    <3>. QED BY <3>1, <3>2
  <2>. HIDE DEF r, c
  <2>. QED BY <1>2, <2>1, <2>2
<1>3. pc[w] = "idle" /\ UNCHANGED <<booking, tail, requests, answered>>
  BY DEF ReadNew
<1>4. \/ Goto(w, "history") /\ UNCHANGED <<cursor, owner, count, answers, local, faults>>
      \/ \E call \in Call :
           /\ Charge(call)
           /\ IF Applied(call) /\ r # None
              THEN DeliverReply(w, r) /\ cursor' = r ELSE UNCHANGED <<cursor, owner, count>>
           /\ answers' = IF Applied(call) /\ c # None THEN Tail(answers) ELSE answers
           /\ IF call = "ok" THEN Begin(w, r, c) ELSE Begin(w, None, None)
  BY DEF ReadNew
<1>. HIDE DEF r, c
<1>. QED BY <1>1, <1>2, <1>3, <1>4

LEMMA ReadHistoryMoves ==
  ASSUME Types, NEW w \in Worker, ReadHistory(w)
  PROVE  /\ pc[w] = "history" /\ UNCHANGED <<booking, tail, cursor, texts>>
         /\ \/ \E call \in Call, r \in Reply :
                 /\ Charge(call) /\ owner[r] = w
                 /\ \/ Applied(call) /\ DeliverReply(w, r)
                    \/ ~Applied(call) /\ UNCHANGED <<owner, count>>
                 /\ \/ call = "ok" /\ Begin(w, r, None)
                    \/ call # "ok" /\ Begin(w, None, None)
            \/ Begin(w, None, None) /\ UNCHANGED <<owner, count, faults>>
<1>1. ASSUME NEW r \in Backlog(w), NEW call \in Call, Charge(call),
             IF Applied(call) THEN DeliverReply(w, r) ELSE UNCHANGED <<owner, count>>,
             Begin(w, IF call = "ok" THEN r ELSE None, None)
      PROVE  \E d \in Call, q \in Reply :
                 /\ Charge(d) /\ owner[q] = w
                 /\ \/ Applied(d) /\ DeliverReply(w, q)
                    \/ ~Applied(d) /\ UNCHANGED <<owner, count>>
                 /\ \/ d = "ok" /\ Begin(w, q, None)
                    \/ d # "ok" /\ Begin(w, None, None)
  <2>1. r \in Reply /\ owner[r] = w
    BY DEF Backlog
  <2>2. CASE call = "ok"
    BY <1>1, <2>1, <2>2
  <2>3. CASE call # "ok"
    BY <1>1, <2>1, <2>3
  <2>. QED BY <2>2, <2>3
<1>2. pc[w] = "history" /\ UNCHANGED <<booking, tail, cursor, texts>>
  BY DEF ReadHistory
<1>3. \/ \E r \in Backlog(w), call \in Call :
           /\ Charge(call)
           /\ IF Applied(call) THEN DeliverReply(w, r) ELSE UNCHANGED <<owner, count>>
           /\ Begin(w, IF call = "ok" THEN r ELSE None, None)
      \/ Begin(w, None, None) /\ UNCHANGED <<owner, count, faults>>
  BY DEF ReadHistory
<1>. QED BY <1>1, <1>2, <1>3

LEMMA StepTypes ==
  ASSUME Types, [Next]_vars
  PROVE  Types'
<1>. /\ TaskOK /\ RequestsOK /\ AnswersOK /\ ContextOK /\ SendsOK /\ LocalOK /\ BudgetOK
     /\ Len(requests) \in Nat
  BY DEF Types, RequestsOK
<1>a. ASSUME UNCHANGED tasks
      PROVE  TaskOK'
  BY <1>a DEF TaskOK, tasks
<1>b. ASSUME UNCHANGED requests
      PROVE  RequestsOK' /\ Lengths
  BY <1>b DEF RequestsOK, Lengths
<1>c. ASSUME UNCHANGED texts
      PROVE  AnswersOK'
  BY <1>c DEF AnswersOK, texts
<1>d. ASSUME UNCHANGED <<requests, context, registered, missed>>
      PROVE  ContextOK'
  BY <1>d DEF ContextOK
<1>e. ASSUME UNCHANGED sends
      PROVE  SendsOK'
  BY <1>e DEF SendsOK
<1>f. ASSUME NEW call, Charge(call), UNCHANGED <<booking, budget>>
      PROVE  BudgetOK'
  BY <1>f, ChargeEffect
<1>g. ASSUME UNCHANGED <<booking, faults, budget>>
      PROVE  BudgetOK'
  BY <1>g DEF budget, BudgetOK
<1>h. ASSUME UNCHANGED <<requests, pc, local>>
      PROVE  LocalOK'
  BY <1>h DEF LocalOK, local
<1>. USE DEF texts, tasks
<1>1. CASE Submit
  <2>1. TaskOK'
    BY <1>1 DEF Submit, TaskOK
  <2>. QED BY <1>1, <2>1, <1>b, <1>c, <1>d, <1>e, <1>g, <1>h DEF Submit, Types
<1>2. ASSUME NEW c \in Copy, AnswerRequest(c)
      PROVE  Types'
  <2>1. AnswersOK'
    <3>1. c \in 1 .. Len(requests) /\ UNCHANGED requests /\ answers' = Append(answers, c)
      BY <1>2 DEF AnswerRequest
    <3>2. answers' \in Seq(1 .. Len(requests))
      BY <3>1 DEF AnswersOK
    <3>3. answered' \in [Copy -> 0 .. MaxAnswers]
      BY <1>2 DEF AnswerRequest, AnswersOK
    <3>. QED BY <3>1, <3>2, <3>3 DEF AnswersOK
  <2>2. BudgetOK'
    <3>1. \A r \in Reply : MaxMishaps[booking[r]] \in Nat
      BY DEF TaskOK
    <3>. QED BY <1>2, <3>1 DEF AnswerRequest, Mishap, BudgetOK
  <2>. QED BY <1>2, <2>1, <2>2, <1>a, <1>b, <1>d, <1>e, <1>h DEF AnswerRequest, Types
<1>3. ASSUME NEW w \in Worker, ReadNew(w)
      PROVE  Types'
  <2>1. /\ UNCHANGED <<booking, tail, requests, answered, context, registered, missed, sends, budget>>
        /\ pc[w] = "idle"
    BY <1>3 DEF ReadNew
  <2>2. CASE Goto(w, "history") /\ UNCHANGED <<cursor, owner, count, answers, local, faults>>
    <3>1. LocalOK'
      BY <2>1, <2>2, <1>b, GotoType, Locations
    <3>. QED BY <2>1, <2>2, <3>1, <1>a, <1>b, <1>c, <1>d, <1>e, <1>g DEF Types
  <2>3. ASSUME NEW call \in Call, NEW r \in Reply \cup {None}, NEW c \in 0 .. Len(requests),
               Charge(call),
               r # None => r = cursor + 1 /\ cursor < tail,
               \/ Applied(call) /\ r # None /\ DeliverReply(w, r) /\ cursor' = r
               \/ UNCHANGED <<cursor, owner, count>>,
               (answers' = Tail(answers) /\ answers # <<>>) \/ UNCHANGED answers,
               Begin(w, r, c) \/ Begin(w, None, None)
        PROVE  Types'
    <3>1. LocalOK'
      BY <2>1, <2>3, <1>b, BeginType
    <3>2. TaskOK'
      <4>1. CASE r # None /\ DeliverReply(w, r) /\ cursor' = r
        <5>1. cursor' \in 0 .. tail /\ r \in Reply
          BY <2>3, <4>1 DEF TaskOK
        <5>. QED BY <2>1, <4>1, <5>1, DeliverType
      <4>2. CASE UNCHANGED <<cursor, owner, count>>
        BY <2>1, <4>2, <1>a
      <4>. QED BY <2>3, <4>1, <4>2
    <3>3. AnswersOK'
      <4>1. answers \in Seq(1 .. Len(requests)) /\ UNCHANGED <<requests, answered>>
        BY <2>1 DEF AnswersOK
      <4>2. answers # <<>> => Tail(answers) \in Seq(1 .. Len(requests))
        BY <4>1
      <4>3. answers' \in Seq(1 .. Len(requests))
        BY <2>3, <4>1, <4>2
      <4>. QED BY <4>1, <4>3 DEF AnswersOK
    <3>. QED BY <2>1, <2>3, <3>1, <3>2, <3>3, <1>b, <1>d, <1>e, <1>f DEF Types
  <2>4. \/ Goto(w, "history") /\ UNCHANGED <<cursor, owner, count, answers, local, faults>>
        \/ \E call \in Call, r \in Reply \cup {None}, c \in 0 .. Len(requests) :
             /\ Charge(call)
             /\ r # None => r = cursor + 1 /\ cursor < tail
             /\ \/ Applied(call) /\ r # None /\ DeliverReply(w, r) /\ cursor' = r
                \/ UNCHANGED <<cursor, owner, count>>
             /\ (answers' = Tail(answers) /\ answers # <<>>) \/ UNCHANGED answers
             /\ Begin(w, r, c) \/ Begin(w, None, None)
    BY <1>3, ReadNewMoves
  <2>. QED BY <2>2, <2>3, <2>4
<1>4. ASSUME NEW w \in Worker, ReadHistory(w)
      PROVE  Types'
  <2>1. UNCHANGED <<booking, tail, cursor, texts, context, registered, missed, sends, budget>>
    BY <1>4 DEF ReadHistory
  <2>2. 0 \in 0 .. Len(requests)
    OBVIOUS
  <2>3. LocalOK'
    BY <1>4, <2>1, <2>2, <1>b, ReadHistoryMoves, BeginType
  <2>4. TaskOK'
    <3>1. cursor' \in 0 .. tail
      BY <2>1 DEF TaskOK
    <3>2. UNCHANGED <<owner, count>> \/ \E r \in Reply : DeliverReply(w, r)
      BY <1>4, ReadHistoryMoves
    <3>. QED BY <2>1, <3>1, <3>2, <1>a, DeliverType
  <2>5. BudgetOK'
    BY <1>4, <2>1, <1>f, <1>g, ReadHistoryMoves
  <2>. QED BY <2>1, <2>3, <2>4, <2>5, <1>b, <1>c, <1>d, <1>e DEF Types
<1>5. ASSUME NEW w \in Worker, EnqueueCopywriter(w)
      PROVE  Types'
  <2>1. PICK call \in Call :
          /\ Charge(call)
          /\ IF Applied(call)
             THEN Len(requests) < MaxCopies /\ requests' = Append(requests, reply[w])
             ELSE UNCHANGED requests
          /\ IF call = "ok"
             THEN /\ copy' = [copy EXCEPT ![w] = Len(requests) + 1]
                  /\ Goto(w, "register")
                  /\ UNCHANGED <<reply, answer, tries>>
             ELSE FailAttempt(w)
    BY <1>5 DEF EnqueueCopywriter
  <2>2. /\ UNCHANGED <<tasks, answers, answered, context, registered, missed, sends, budget>>
        /\ pc[w] = "enqueue" /\ pc[w] \in TaskStep
    BY <1>5, Locations DEF EnqueueCopywriter
  <2>3. reply[w] \in Reply
    BY <2>2 DEF LocalOK
  <2>4. RequestsOK' /\ Lengths /\ (call = "ok" => Len(requests)' = Len(requests) + 1)
    <3>1. CASE Applied(call)
      <4>1. requests' = Append(requests, reply[w]) /\ Len(requests) < MaxCopies
        BY <2>1, <3>1
      <4>2. requests' \in Seq(Reply) /\ Len(requests') = Len(requests) + 1
        BY <2>3, <4>1 DEF RequestsOK
      <4>. QED BY <4>1, <4>2 DEF RequestsOK, Lengths
    <3>2. CASE ~Applied(call)
      BY <2>1, <3>2, <1>b DEF Applied
    <3>. QED BY <3>1, <3>2
  <2>5. AnswersOK'
    <3>1. answers \in Seq(1 .. Len(requests)')
      BY <2>4, SeqOfMore DEF AnswersOK, Lengths
    <3>. QED BY <2>2, <3>1 DEF AnswersOK
  <2>6. ContextOK'
    <3>1. 1 .. Len(requests) \subseteq 1 .. Len(requests)'
      BY <2>4 DEF Lengths
    <3>. QED BY <2>2, <3>1 DEF ContextOK
  <2>7. LocalOK'
    <3>1. CASE call = "ok"
      <4>1. Moved(w, "register", reply[w], answer[w], Len(requests) + 1, tries[w])
        BY <2>1, <3>1 DEF Moved, Goto, LocalOK
      <4>2. /\ reply[w] # None /\ answer[w] \in 0 .. Len(requests)' /\ tries[w] \in 0 .. HarnessRetries
            /\ Len(requests) + 1 \in 0 .. Len(requests)' /\ Len(requests) + 1 # None
        BY <2>3, <2>4, <3>1 DEF LocalOK, Lengths
      <4>. QED BY <2>3, <2>4, <4>1, <4>2, Locations, MovedType DEF Lengths
    <3>2. CASE FailAttempt(w)
      BY <2>2, <2>4, <3>2, FailAttemptType
    <3>. QED BY <2>1, <3>1, <3>2
  <2>8. BudgetOK'
    BY <2>1, <2>2, <1>f
  <2>. QED BY <2>2, <2>4, <2>5, <2>6, <2>7, <2>8, <1>a, <1>e DEF Types
<1>6. ASSUME NEW w \in Worker, RegisterAutoSend(w)
      PROVE  Types'
  <2>1. ContextOK'
    <3>1. copy[w] \in 1 .. Len(requests) /\ UNCHANGED <<requests, missed>>
      BY <1>6 DEF RegisterAutoSend, LocalOK
    <3>2. \/ context' = context \cup {copy[w]} /\ registered' = registered \cup {copy[w]}
          \/ UNCHANGED <<context, registered>>
      BY <1>6 DEF RegisterAutoSend
    <3>. QED BY <3>1, <3>2 DEF ContextOK
  <2>2. LocalOK'
    <3>1. pc[w] \in TaskStep /\ Lengths /\ (Goto(w, "booking") \/ Goto(w, "publish")) /\ UNCHANGED local
      BY <1>6, <1>b, Locations DEF RegisterAutoSend
    <3>. QED BY <3>1, GotoType, Locations
  <2>3. BudgetOK'
    BY <1>6, <1>f DEF RegisterAutoSend
  <2>. QED BY <1>6, <2>1, <2>2, <2>3, <1>a, <1>b, <1>c, <1>e DEF RegisterAutoSend, Types
<1>7. ASSUME NEW w \in Worker, EnqueueScheduler(w)
      PROVE  Types'
  <2>1. LocalOK'
    <3>1. pc[w] \in TaskStep /\ Lengths
      BY <1>7, <1>b, Locations DEF EnqueueScheduler
    <3>2. FailAttempt(w) \/ (Goto(w, "publish") /\ UNCHANGED local)
      BY <1>7 DEF EnqueueScheduler
    <3>. QED BY <3>1, <3>2, GotoType, FailAttemptType, Locations
  <2>2. BudgetOK'
    BY <1>7, <1>f, <1>g DEF EnqueueScheduler
  <2>. QED BY <1>7, <2>1, <2>2, <1>a, <1>b, <1>c, <1>d, <1>e DEF EnqueueScheduler, Types
<1>8. ASSUME NEW w \in Worker, Refuse(w) \/ Publish(w) \/ HandleFailure(w) \/ DeadLetter(w)
      PROVE  Types'
  <2>1. LocalOK'
    <3>1. pc[w] \in TaskStep /\ Lengths
      BY <1>8, <1>b, Locations DEF Refuse, Publish, HandleFailure, DeadLetter
    <3>2. \/ EndTask(w)
          \/ \E l \in {"ack", "failed", "deadLetter", "ackDead"} : Goto(w, l) /\ UNCHANGED local
      BY <1>8 DEF Refuse, Publish, HandleFailure, DeadLetter
    <3>. QED BY <3>1, <3>2, GotoType, EndTaskType, Locations
  <2>2. BudgetOK'
    BY <1>8, <1>f, <1>g DEF Refuse, Publish, HandleFailure, DeadLetter
  <2>. QED BY <1>8, <2>1, <2>2, <1>a, <1>b, <1>c, <1>d, <1>e DEF Refuse, Publish, HandleFailure, DeadLetter,
       Types
<1>9. ASSUME NEW w \in Worker, Ack(w) \/ AckDead(w)
      PROVE  Types'
  <2>1. LocalOK'
    <3>1. pc[w] \in TaskStep /\ Lengths
      BY <1>9, <1>b, Locations DEF Ack, AckDead
    <3>2. EndTask(w) \/ (Goto(w, "failed") /\ UNCHANGED local)
      BY <1>9 DEF Ack, AckDead
    <3>. QED BY <3>1, <3>2, GotoType, EndTaskType, Locations
  <2>2. BudgetOK'
    BY <1>9, <1>f DEF Ack, AckDead
  <2>3. TaskOK'
    BY <1>9, RemoveType DEF Ack, AckDead
  <2>. QED BY <1>9, <2>1, <2>2, <2>3, <1>b, <1>c, <1>d, <1>e DEF Ack, AckDead, Types
<1>10. ASSUME NEW w \in Worker, Lookup(w)
       PROVE  Types'
  <2>1. pc[w] \in AnswerStep /\ Lengths /\ UNCHANGED local
    BY <1>10, <1>b, Locations DEF Lookup
  <2>2. LocalOK'
    <3>1. \E l \in {"ackError", "ackAnswer", "send"} : Goto(w, l)
      BY <1>10 DEF Lookup
    <3>2. answer[w] # None /\ pc[w] \notin TaskStep
      BY <2>1, Locations DEF LocalOK
    <3>. QED BY <2>1, <3>1, <3>2, GotoType, Locations
  <2>3. ContextOK'
    <3>1. answer[w] \in 1 .. Len(requests) /\ UNCHANGED <<requests, context, registered>>
      BY <1>10, <2>1 DEF LocalOK, Lookup
    <3>2. missed' = missed \cup {answer[w]} \/ missed' = missed
      BY <1>10 DEF Lookup
    <3>. QED BY <3>1, <3>2 DEF ContextOK
  <2>4. BudgetOK'
    BY <1>10, <1>f DEF Lookup
  <2>. QED BY <1>10, <2>2, <2>3, <2>4, <1>a, <1>b, <1>c, <1>e DEF Lookup, Types
<1>11. ASSUME NEW w \in Worker, EnqueueSequencing(w)
       PROVE  Types'
  <2>1. pc[w] \in AnswerStep /\ Lengths /\ UNCHANGED local
    BY <1>11, <1>b, Locations DEF EnqueueSequencing
  <2>2. answer[w] # None /\ pc[w] \notin TaskStep /\ answer[w] \in Copy
    BY <2>1, Locations DEF LocalOK, RequestsOK
  <2>3. LocalOK'
    <3>1. Goto(w, "report") \/ Goto(w, "ackError")
      BY <1>11 DEF EnqueueSequencing
    <3>. QED BY <2>1, <2>2, <3>1, GotoType, Locations
  <2>4. SendsOK'
    <3>1. sends' = [sends EXCEPT ![answer[w]] = @ + 1] \/ sends' = sends
      BY <1>11 DEF EnqueueSequencing
    <3>. QED BY <2>2, <3>1 DEF SendsOK
  <2>5. BudgetOK'
    BY <1>11, <1>f DEF EnqueueSequencing
  <2>. QED BY <1>11, <2>3, <2>4, <2>5, <1>a, <1>b, <1>c, <1>d DEF EnqueueSequencing, Types
<1>12. ASSUME NEW w \in Worker, Report(w) \/ Forget(w) \/ AckAnswer(w)
       PROVE  Types'
  <2>1. pc[w] \in AnswerStep /\ Lengths
    BY <1>12, <1>b, Locations DEF Report, Forget, AckAnswer
  <2>2. answer[w] # None /\ pc[w] \notin TaskStep
    BY <2>1, Locations DEF LocalOK
  <2>3. LocalOK'
    <3>1. \/ EndAnswer(w)
          \/ \E l \in {"forget", "ackError", "ackAnswer"} : Goto(w, l) /\ UNCHANGED local
      BY <1>12 DEF Report, Forget, AckAnswer
    <3>. QED BY <2>1, <2>2, <3>1, GotoType, EndAnswerType, Locations
  <2>4. ContextOK'
    BY <1>12 DEF Report, Forget, AckAnswer, ContextOK
  <2>5. BudgetOK'
    BY <1>12, <1>f DEF Report, Forget, AckAnswer
  <2>. QED BY <1>12, <2>3, <2>4, <2>5, <1>a, <1>b, <1>c, <1>e DEF Report, Forget, AckAnswer, Types
<1>13. ASSUME NEW w \in Worker, Terminate(w) \/ Crash(w)
       PROVE  Types'
  <2>1. Leave(w)
    BY <1>13 DEF Terminate, Crash
  <2>2. UNCHANGED <<tasks, texts, context, registered, missed, sends, faults>>
    BY <2>1 DEF Leave
  <2>3. LocalOK'
    BY <2>1, <2>2, <1>b, LeaveType
  <2>4. BudgetOK'
    <3>1. \A r \in Reply : MaxMishaps[booking[r]] \in Nat
      BY DEF TaskOK
    <3>2. faults \in Nat /\ stops \in Nat /\ crashes \in Nat /\ repeats \in Nat
      BY DEF BudgetOK
    <3>3. \A r \in Reply : /\ faults < MaxMishaps[booking[r]] /\ stops + 1 <= MaxMishaps[booking[r]]
                           /\ crashes + 1 <= MaxMishaps[booking[r]] /\ repeats < MaxMishaps[booking[r]]
      <4>. SUFFICES ASSUME NEW r \in Reply
                    PROVE  /\ faults < MaxMishaps[booking[r]] /\ stops + 1 <= MaxMishaps[booking[r]]
                           /\ crashes + 1 <= MaxMishaps[booking[r]] /\ repeats < MaxMishaps[booking[r]]
        OBVIOUS
      <4>1. faults + stops + crashes + repeats < MaxMishaps[booking[r]]
        BY <1>13 DEF Terminate, Crash, Mishap
      <4>2. MaxMishaps[booking[r]] \in Nat
        BY <3>1
      <4>. QED BY <3>2, <4>1, <4>2
    <3>4. /\ stops' \in {stops, stops + 1} /\ crashes' \in {crashes, crashes + 1}
          /\ UNCHANGED <<booking, faults, repeats>>
      BY <1>13, <2>2 DEF Terminate, Crash, tasks
    <3>. QED BY <3>2, <3>3, <3>4 DEF BudgetOK
  <2>. QED BY <2>2, <2>3, <2>4, <1>a, <1>b, <1>c, <1>d, <1>e DEF Types
<1>14. ASSUME NEW w \in Worker, Restart(w)
       PROVE  Types'
  <2>1. LocalOK'
    BY <1>14, <1>b, GotoType, Locations DEF Restart
  <2>. QED BY <1>14, <2>1, <1>a, <1>b, <1>c, <1>d, <1>e, <1>g DEF Restart, Types
<1>15. CASE UNCHANGED vars
  BY <1>15, <1>a, <1>b, <1>c, <1>d, <1>e, <1>g, <1>h DEF vars, Types
<1>. QED
  BY <1>1, <1>2, <1>3, <1>4, <1>5, <1>6, <1>7, <1>8, <1>9, <1>10, <1>11, <1>12, <1>13, <1>14, <1>15
     DEF Next, Step, HandleReply, HandleAnswer

-----------------------------------------------------------------------------
(* How many entries of a sequence are c, and how that changes at its ends. *)
Occurrences(s, c) == {i \in DOMAIN s : s[i] = c}

LEMMA OccurrencesFinite ==
  ASSUME NEW S, NEW s \in Seq(S), NEW c
  PROVE  IsFiniteSet(Occurrences(s, c)) /\ Cardinality(Occurrences(s, c)) \in Nat
<1>1. DOMAIN s = 1 .. Len(s) /\ Len(s) \in Nat
  OBVIOUS
<1>2. IsFiniteSet(1 .. Len(s))
  BY <1>1, FS_Interval
<1>3. Occurrences(s, c) \in SUBSET (1 .. Len(s))
  BY <1>1 DEF Occurrences
<1>. QED BY <1>2, <1>3, FS_Subset, FS_CardinalityType

LEMMA AppendOccurrence ==
  ASSUME NEW S, NEW s \in Seq(S), NEW d \in S, NEW c
  PROVE  Cardinality(Occurrences(Append(s, d), c)) =
           Cardinality(Occurrences(s, c)) + (IF d = c THEN 1 ELSE 0)
<1>. DEFINE e == Append(s, d)
            n == Len(s) + 1
<1>1. /\ Len(s) \in Nat /\ DOMAIN s = 1 .. Len(s) /\ DOMAIN e = 1 .. n
      /\ e[n] = d /\ \A i \in 1 .. Len(s) : e[i] = s[i]
  OBVIOUS
<1>2. CASE d = c
  <2>1. Occurrences(e, c) = Occurrences(s, c) \cup {n} /\ n \notin Occurrences(s, c)
    BY <1>1, <1>2 DEF Occurrences
  <2>. QED BY <1>2, <2>1, OccurrencesFinite, FS_AddElement
<1>3. CASE d # c
  <2>1. Occurrences(e, c) = Occurrences(s, c)
    BY <1>1, <1>3 DEF Occurrences
  <2>. QED BY <1>3, <2>1, OccurrencesFinite
<1>. QED BY <1>2, <1>3

LEMMA TailOccurrence ==
  ASSUME NEW S, NEW s \in Seq(S), s # <<>>, NEW c
  PROVE  Cardinality(Occurrences(s, c)) =
           Cardinality(Occurrences(Tail(s), c)) + (IF Head(s) = c THEN 1 ELSE 0)
<1>. DEFINE t == Tail(s)
            A == Occurrences(t, c)
            B == Occurrences(s, c) \ {1}
            f == [i \in A |-> i + 1]
<1>1. /\ Len(s) \in Nat /\ Len(s) >= 1 /\ DOMAIN s = 1 .. Len(s) /\ s[1] = Head(s)
      /\ DOMAIN t = 1 .. (Len(s) - 1) /\ \A i \in 1 .. (Len(s) - 1) : t[i] = s[i + 1]
  OBVIOUS
<1>2. IsFiniteSet(A) /\ IsFiniteSet(Occurrences(s, c))
  <2>1. t \in Seq(S)
    OBVIOUS
  <2>. HIDE DEF t
  <2>. QED BY <2>1, OccurrencesFinite
<1>3. f \in Bijection(A, B)
  <2>1. \A i \in A : i \in Nat /\ i + 1 \in B
    BY <1>1 DEF Occurrences
  <2>2. \A j \in B : j - 1 \in A /\ j = (j - 1) + 1
    BY <1>1 DEF Occurrences
  <2>3. f \in Injection(A, B)
    BY <2>1 DEF Injection, IsInjective
  <2>4. f \in Surjection(A, B)
    BY <2>1, <2>2 DEF Surjection
  <2>. QED BY <2>3, <2>4 DEF Bijection
<1>4. Cardinality(B) = Cardinality(A)
  BY <1>2, <1>3, FS_Bijection DEF ExistsBijection
<1>5. 1 \in Occurrences(s, c) <=> Head(s) = c
  BY <1>1 DEF Occurrences
<1>6. Cardinality(A) \in Nat /\ Cardinality(Occurrences(s, c)) \in Nat
  BY <1>2, FS_CardinalityType
<1>7. Cardinality(B) = IF Head(s) = c THEN Cardinality(Occurrences(s, c)) - 1
                                      ELSE Cardinality(Occurrences(s, c))
  BY <1>2, <1>5, FS_RemoveElement
<1>. QED BY <1>4, <1>6, <1>7

-----------------------------------------------------------------------------
(* The workers that may still send the answer to request c that they read. *)
Carries(w, c) == answer[w] = c /\ pc[w] \in TaskStep \cup {"lookup", "send"}
Carrying(c) == {w \in Worker : Carries(w, c)}

(* Each answer waits, is carried, or was read and sent at most once.       *)
SendLedger ==
  \A c \in Copy : sends[c] + Cardinality(Carrying(c)) + Waiting(c) <= answered[c]

(* What has no body is not sent.                                           *)
Bodies ==
  /\ \A c \in Bodiless : sends[c] = 0
  /\ \A w \in Worker : pc[w] = "send" => answer[w] \notin Bodiless

LEMMA WaitingOccurrences == \A c : Waiting(c) = Cardinality(Occurrences(answers, c))
BY DEF Waiting, Occurrences

LEMMA OneLess ==
  ASSUME NEW A, NEW B, IsFiniteSet(A), NEW w, B \ {w} = A \ {w}
  PROVE  /\ IsFiniteSet(B) /\ Cardinality(A) \in Nat /\ Cardinality(B) \in Nat
         /\ (w \in A <=> w \in B) => Cardinality(B) = Cardinality(A)
         /\ w \notin A /\ w \in B => Cardinality(B) = Cardinality(A) + 1
         /\ w \in A /\ w \notin B => Cardinality(B) + 1 = Cardinality(A)
<1>1. CASE w \in A <=> w \in B
  <2>1. A = B
    BY <1>1
  <2>. QED BY <2>1, <1>1, FS_CardinalityType
<1>2. CASE w \notin A /\ w \in B
  <2>1. B = A \cup {w}
    BY <1>2
  <2>2. IsFiniteSet(B) /\ Cardinality(B) = Cardinality(A) + 1
    BY <1>2, <2>1, FS_AddElement
  <2>. QED BY <1>2, <2>2, FS_CardinalityType
<1>3. CASE w \in A /\ w \notin B
  <2>1. B = A \ {w}
    BY <1>3
  <2>2. IsFiniteSet(B) /\ Cardinality(B) = Cardinality(A) - 1 /\ Cardinality(A) \in Nat
    BY <1>3, <2>1, FS_RemoveElement, FS_CardinalityType
  <2>. QED BY <1>3, <2>2, FS_CardinalityType
<1>. QED BY <1>1, <1>2, <1>3

LEMMA CarryingFinite ==
  \A c : IsFiniteSet(Carrying(c)) /\ Cardinality(Carrying(c)) \in Nat
BY FS_Subset, FS_CardinalityType DEF Carrying

(* A step of w changes at most whether w carries an answer to c.           *)
LEMMA CarryingMove ==
  ASSUME NEW w \in Worker, Others(w), NEW c
  PROVE  /\ Cardinality(Carrying(c)) \in Nat /\ Cardinality(Carrying(c))' \in Nat
         /\ (Carries(w, c) <=> Carries(w, c)') => Cardinality(Carrying(c))' = Cardinality(Carrying(c))
         /\ ~Carries(w, c) /\ Carries(w, c)' =>
              Cardinality(Carrying(c))' = Cardinality(Carrying(c)) + 1
         /\ Carries(w, c) /\ ~Carries(w, c)' =>
              Cardinality(Carrying(c))' + 1 = Cardinality(Carrying(c))
<1>1. Carrying(c)' \ {w} = Carrying(c) \ {w}
  BY DEF Others, Carrying, Carries
<1>2. (w \in Carrying(c) <=> Carries(w, c)) /\ (w \in Carrying(c)' <=> Carries(w, c)')
  BY DEF Carrying, Carries
<1>3. IsFiniteSet(Carrying(c))
  BY CarryingFinite
<1>. QED BY <1>1, <1>2, <1>3, OneLess

(* What a worker does with the answer it read, step by step.               *)
LEMMA ReplyMoves ==
  ASSUME Types, NEW w \in Worker, HandleReply(w)
  PROVE  /\ Others(w) /\ pc[w] \in TaskStep /\ answer'[w] = answer[w]
         /\ pc'[w] \in TaskStep \cup {"lookup", "idle"}
         /\ UNCHANGED <<answers, answered, sends>>
<1>. LocalOK
  BY DEF Types
<1>1. pc[w] \in TaskStep /\ UNCHANGED <<answers, answered, sends>>
  BY Locations DEF HandleReply, Refuse, EnqueueCopywriter, RegisterAutoSend, EnqueueScheduler, Publish,
                   Ack, HandleFailure, DeadLetter, AckDead, texts
<1>2. ASSUME NEW l \in TaskStep, Goto(w, l), UNCHANGED local
      PROVE  Others(w) /\ answer'[w] = answer[w] /\ pc'[w] \in TaskStep
  BY <1>2, GotoMoved, MovedEffect
<1>3. ASSUME EndTask(w)
      PROVE  Others(w) /\ answer'[w] = answer[w] /\ pc'[w] \in {"lookup", "idle"}
  BY <1>3, EndTaskMoved, MovedEffect
<1>4. ASSUME FailAttempt(w)
      PROVE  Others(w) /\ answer'[w] = answer[w] /\ pc'[w] \in TaskStep
  BY <1>4, FailAttemptMoved, MovedEffect, Locations
<1>5. ASSUME copy' = [copy EXCEPT ![w] = Len(requests) + 1], Goto(w, "register"),
             UNCHANGED <<reply, answer, tries>>
      PROVE  Others(w) /\ answer'[w] = answer[w] /\ pc'[w] \in TaskStep
  BY <1>5, Locations DEF LocalOK, Goto, Others
<1>6. \/ EndTask(w) \/ FailAttempt(w)
      \/ \E l \in TaskStep : Goto(w, l) /\ UNCHANGED local
      \/ /\ copy' = [copy EXCEPT ![w] = Len(requests) + 1] /\ Goto(w, "register")
         /\ UNCHANGED <<reply, answer, tries>>
  <2>1. \A l \in {"booking", "publish", "ack", "failed", "deadLetter", "ackDead"} : l \in TaskStep
    BY Locations
  <2>2. CASE EnqueueCopywriter(w)
    BY <2>2 DEF EnqueueCopywriter
  <2>3. CASE RegisterAutoSend(w) \/ EnqueueScheduler(w)
    BY <2>1, <2>3 DEF RegisterAutoSend, EnqueueScheduler
  <2>4. CASE Publish(w) \/ Ack(w) \/ HandleFailure(w)
    BY <2>1, <2>4 DEF Publish, Ack, HandleFailure
  <2>5. CASE DeadLetter(w) \/ AckDead(w) \/ Refuse(w)
    BY <2>1, <2>5 DEF DeadLetter, AckDead, Refuse
  <2>. QED BY <2>2, <2>3, <2>4, <2>5 DEF HandleReply
<1>. QED BY <1>1, <1>2, <1>3, <1>4, <1>5, <1>6

LEMMA AnswerMoves ==
  ASSUME Types, NEW w \in Worker, Lookup(w) \/ Report(w) \/ Forget(w) \/ AckAnswer(w)
  PROVE  /\ Others(w) /\ UNCHANGED <<answers, answered, sends>>
         /\ \/ pc[w] = "lookup" /\ pc'[w] = "send" /\ answer'[w] = answer[w] /\ answer[w] \notin Bodiless
            \/ pc'[w] \notin TaskStep \cup {"lookup", "send"}
<1>. LocalOK
  BY DEF Types
<1>1. UNCHANGED <<answers, answered, sends>>
  BY DEF Lookup, Report, Forget, AckAnswer, texts
<1>2. ASSUME NEW l \in {"ackAnswer", "ackError", "forget"}, Goto(w, l), UNCHANGED local
      PROVE  Others(w) /\ pc'[w] \notin TaskStep \cup {"lookup", "send"}
  BY <1>2, GotoMoved, MovedEffect, Locations
<1>3. ASSUME EndAnswer(w)
      PROVE  Others(w) /\ pc'[w] \notin TaskStep \cup {"lookup", "send"}
  BY <1>3, EndAnswerMoved, MovedEffect, Locations
<1>4. ASSUME pc[w] = "lookup", Goto(w, "send"), UNCHANGED local, answer[w] \notin Bodiless
      PROVE  Others(w) /\ pc'[w] = "send" /\ answer'[w] = answer[w]
  BY <1>4, GotoMoved, MovedEffect
<1>5. CASE Lookup(w)
  <2>1. \/ \E l \in {"ackAnswer", "ackError"} : Goto(w, l) /\ UNCHANGED local
        \/ pc[w] = "lookup" /\ Goto(w, "send") /\ UNCHANGED local /\ answer[w] \notin Bodiless
    BY <1>5 DEF Lookup
  <2>. QED BY <1>1, <1>2, <1>4, <2>1
<1>6. CASE Report(w) \/ Forget(w) \/ AckAnswer(w)
  <2>1. EndAnswer(w) \/ \E l \in {"ackAnswer", "ackError", "forget"} : Goto(w, l) /\ UNCHANGED local
    BY <1>6 DEF Report, Forget, AckAnswer
  <2>. QED BY <1>1, <1>2, <1>3, <2>1
<1>. QED BY <1>5, <1>6

LEMMA SequencingMoves ==
  ASSUME Types, NEW w \in Worker, EnqueueSequencing(w)
  PROVE  /\ Others(w) /\ UNCHANGED <<answers, answered>>
         /\ pc[w] = "send" /\ pc'[w] \notin TaskStep \cup {"lookup", "send"} /\ answer[w] \in Copy
         /\ sends' = sends \/ sends' = [sends EXCEPT ![answer[w]] = @ + 1]
<1>. LocalOK
  BY DEF Types
<1>1. \/ Goto(w, "report") /\ UNCHANGED local
      \/ Goto(w, "ackError") /\ UNCHANGED local
  BY DEF EnqueueSequencing
<1>2. Others(w) /\ pc'[w] \notin TaskStep \cup {"lookup", "send"}
  BY <1>1, GotoMoved, MovedEffect, Locations
<1>3. answer[w] \in Copy
  <2>1. pc[w] \in AnswerStep
    BY Locations DEF EnqueueSequencing
  <2>. QED BY <2>1 DEF Types, LocalOK, RequestsOK
<1>. QED BY <1>2, <1>3 DEF EnqueueSequencing, texts

(* Anything else begins with what was read, or with nothing.               *)
LEMMA BeginMoves ==
  ASSUME Types, NEW w \in Worker, NEW r \in Reply \cup {None}, NEW c, Begin(w, r, c)
  PROVE  Others(w) /\ answer'[w] = c /\ pc'[w] \in {"enqueue", "lookup", "idle"} /\ reply'[w] = r
<1>. LocalOK
  BY DEF Types
<1>. QED BY BeginMoved, MovedEffect

LEMMA PauseMoves ==
  ASSUME Types, NEW w \in Worker, Terminate(w) \/ Crash(w) \/ Restart(w)
  PROVE  /\ Others(w) /\ pc'[w] \in {"idle", "down"} /\ UNCHANGED <<answers, answered, sends>>
<1>. LocalOK
  BY DEF Types
<1>1. CASE Leave(w)
  BY <1>1, LeaveMoved, MovedEffect DEF Leave, texts
<1>2. CASE Restart(w)
  BY <1>2, GotoMoved, MovedEffect DEF Restart, texts
<1>. QED BY <1>1, <1>2 DEF Terminate, Crash

LEMMA WaitingMoves ==
  ASSUME NEW S, answers \in Seq(S), NEW c
  PROVE  /\ \A d \in S : answers' = Append(answers, d) =>
              Waiting(c)' = Waiting(c) + (IF d = c THEN 1 ELSE 0)
         /\ answers # <<>> /\ answers' = Tail(answers) =>
              Waiting(c) = Waiting(c)' + (IF Head(answers) = c THEN 1 ELSE 0)
         /\ Waiting(c) \in Nat
<1>1. Waiting(c) = Cardinality(Occurrences(answers, c))
  BY DEF Waiting, Occurrences
<1>2. Waiting(c)' = Cardinality(Occurrences(answers', c))
  BY DEF Waiting, Occurrences
<1>3. ASSUME NEW d \in S, answers' = Append(answers, d)
      PROVE  Waiting(c)' = Waiting(c) + (IF d = c THEN 1 ELSE 0)
  BY <1>1, <1>2, <1>3, AppendOccurrence
<1>4. ASSUME answers # <<>>, answers' = Tail(answers)
      PROVE  Waiting(c) = Waiting(c)' + (IF Head(answers) = c THEN 1 ELSE 0)
  BY <1>1, <1>2, <1>4, TailOccurrence
<1>. QED BY <1>1, <1>3, <1>4, OccurrencesFinite

LEMMA StepSendLedger ==
  ASSUME Types, Types', SendLedger, [Next]_vars, NEW c \in Copy
  PROVE  sends'[c] + Cardinality(Carrying(c))' + Waiting(c)' <= answered'[c]
<1>. DEFINE n == Cardinality(Carrying(c))
            n1 == Cardinality(Carrying(c))'
            q == Waiting(c)
            q1 == Waiting(c)'
<1>0. /\ sends[c] \in Nat /\ answered[c] \in Nat /\ n \in Nat /\ q \in Nat /\ q1 \in Nat
      /\ sends[c] + n + q <= answered[c]
  <2>1. /\ answers \in Seq(1 .. Len(requests)) /\ answers' \in Seq(1 .. Len(requests)')
        /\ sends[c] \in Nat /\ answered[c] \in Nat
    BY DEF Types, SendsOK, AnswersOK
  <2>2. q1 \in Nat
    BY <2>1, OccurrencesFinite DEF Waiting, Occurrences
  <2>. QED BY <2>1, <2>2, CarryingFinite, WaitingMoves DEF SendLedger
<1>a. UNCHANGED answers => q1 = q
  BY DEF Waiting
<1>b. ASSUME NEW w \in Worker, Others(w)
      PROVE  /\ n1 \in Nat
             /\ (Carries(w, c) <=> Carries(w, c)') => n1 = n
             /\ ~Carries(w, c) /\ Carries(w, c)' => n1 = n + 1
             /\ Carries(w, c) /\ ~Carries(w, c)' => n1 + 1 = n
  BY <1>b, CarryingMove
<1>c. ASSUME NEW w \in Worker, Others(w), Carries(w, c)' => Carries(w, c), UNCHANGED <<answers, answered, sends>>
      PROVE  sends'[c] + n1 + q1 <= answered'[c]
  <2>1. n1 \in Nat /\ n1 <= n /\ q1 = q
    BY <1>0, <1>a, <1>b, <1>c
  <2>. HIDE DEF n, n1, q, q1
  <2>. QED BY <1>0, <1>c, <2>1
<1>1. CASE UNCHANGED <<pc, answer, answers, answered, sends>>
  <2>1. n1 = n /\ q1 = q
    BY <1>1, <1>a DEF Carrying, Carries
  <2>2. sends'[c] = sends[c] /\ answered'[c] = answered[c]
    BY <1>1
  <2>3. sends'[c] + n1 + q1 = sends[c] + n + q
    BY <2>1, <2>2
  <2>. QED BY <1>0, <2>2, <2>3
<1>2. ASSUME NEW d \in Copy, AnswerRequest(d)
      PROVE  sends'[c] + n1 + q1 <= answered'[c]
  <2>1. n1 = n /\ UNCHANGED sends
    BY <1>2 DEF AnswerRequest, Carrying, Carries, local
  <2>2. q1 = q + (IF d = c THEN 1 ELSE 0)
    <3>1. answers \in Seq(1 .. Len(requests)) /\ d \in 1 .. Len(requests) /\ answers' = Append(answers, d)
      BY <1>2 DEF AnswerRequest, Types, AnswersOK, RequestsOK
    <3>. HIDE DEF q, q1
    <3>. QED BY <3>1, WaitingMoves DEF q, q1
  <2>3. answered'[c] = answered[c] + (IF d = c THEN 1 ELSE 0)
    BY <1>2 DEF AnswerRequest, Types, AnswersOK
  <2>. HIDE DEF n, n1, q, q1
  <2>. QED BY <1>0, <2>1, <2>2, <2>3
<1>3. ASSUME NEW w \in Worker, ReadNew(w)
      PROVE  sends'[c] + n1 + q1 <= answered'[c]
  <2>1. ~Carries(w, c) /\ UNCHANGED <<answered, sends>>
    BY <1>3, Locations DEF ReadNew, Carries
  <2>2. CASE Goto(w, "history") /\ UNCHANGED <<answers, local>>
    <3>1. Others(w) /\ pc'[w] = "history"
      BY <2>2, GotoMoved, MovedEffect DEF Types
    <3>2. ~Carries(w, c)'
      BY <3>1, Locations DEF Carries
    <3>. QED BY <2>1, <2>2, <3>1, <3>2, <1>c
  <2>3. ASSUME NEW r \in Reply \cup {None}, NEW d,
               d # None /\ answers # <<>> /\ d = Head(answers) /\ answers' = Tail(answers),
               Begin(w, r, d) \/ Begin(w, None, None)
        PROVE  sends'[c] + n1 + q1 <= answered'[c]
    <3>1. Others(w) /\ answer'[w] \in {d, None}
      BY <2>3, BeginMoves
    <3>2. q = q1 + (IF d = c THEN 1 ELSE 0)
      <4>1. answers \in Seq(1 .. Len(requests))
        BY DEF Types, AnswersOK
      <4>. QED BY <2>3, <4>1, WaitingMoves
    <3>3. n1 \in Nat /\ n1 <= n + (IF d = c THEN 1 ELSE 0)
      <4>1. Carries(w, c)' => d = c
        BY <3>1 DEF Carries
      <4>2. n \in Nat
        BY <1>0
      <4>. HIDE DEF n, n1
      <4>. QED BY <2>1, <3>1, <4>1, <4>2, <1>b
    <3>. HIDE DEF n, n1, q, q1
    <3>. QED BY <1>0, <2>1, <3>2, <3>3
  <2>4. ASSUME NEW r \in Reply \cup {None}, UNCHANGED answers,
               Begin(w, r, None) \/ Begin(w, None, None)
        PROVE  sends'[c] + n1 + q1 <= answered'[c]
    <3>1. Others(w) /\ answer'[w] = None
      BY <2>4, BeginMoves
    <3>. QED BY <2>1, <2>4, <3>1, <1>c DEF Carries
  <2>5. ASSUME ~(Goto(w, "history") /\ UNCHANGED <<answers, local>>)
        PROVE  sends'[c] + n1 + q1 <= answered'[c]
    <3>1. PICK call \in Call, r \in Reply \cup {None}, d \in 0 .. Len(requests) :
                 /\ \/ Applied(call) /\ d # None /\ answers # <<>> /\ d = Head(answers) /\ answers' = Tail(answers)
                    \/ (~Applied(call) \/ d = None) /\ UNCHANGED answers
                 /\ \/ call = "ok" /\ Begin(w, r, d)
                    \/ call # "ok" /\ Begin(w, None, None)
      BY <1>3, <2>5, ReadNewMoves
    <3>2. CASE Applied(call) /\ d # None /\ answers # <<>> /\ d = Head(answers) /\ answers' = Tail(answers)
      BY <3>1, <3>2, <2>3
    <3>3. CASE (~Applied(call) \/ d = None) /\ UNCHANGED answers
      <4>1. Begin(w, r, None) \/ Begin(w, None, None)
        BY <3>1, <3>3 DEF Applied
      <4>. QED BY <3>3, <4>1, <2>4
    <3>. QED BY <3>1, <3>2, <3>3
  <2>. QED BY <2>2, <2>5
<1>4. ASSUME NEW w \in Worker, ReadHistory(w)
      PROVE  sends'[c] + n1 + q1 <= answered'[c]
  <2>1. UNCHANGED <<answers, answered, sends>>
    BY <1>4 DEF ReadHistory, texts
  <2>2. \E r \in Reply \cup {None} : Begin(w, r, None)
    BY <1>4, ReadHistoryMoves
  <2>3. Others(w) /\ answer'[w] = None
    BY <2>2, BeginMoves
  <2>. QED BY <2>1, <2>3, <1>c DEF Carries
<1>5. ASSUME NEW w \in Worker, HandleReply(w)
      PROVE  sends'[c] + n1 + q1 <= answered'[c]
  <2>1. Carries(w, c)' => Carries(w, c)
    BY <1>5, ReplyMoves DEF Carries
  <2>. QED BY <1>5, <2>1, <1>c, ReplyMoves
<1>6. ASSUME NEW w \in Worker, Lookup(w) \/ Report(w) \/ Forget(w) \/ AckAnswer(w)
      PROVE  sends'[c] + n1 + q1 <= answered'[c]
  <2>1. Carries(w, c)' => Carries(w, c)
    BY <1>6, AnswerMoves DEF Carries
  <2>. QED BY <1>6, <2>1, <1>c, AnswerMoves
<1>7. ASSUME NEW w \in Worker, EnqueueSequencing(w)
      PROVE  sends'[c] + n1 + q1 <= answered'[c]
  <2>1. /\ Others(w) /\ UNCHANGED <<answers, answered>> /\ answer[w] \in Copy
        /\ sends' = sends \/ sends' = [sends EXCEPT ![answer[w]] = @ + 1]
        /\ ~Carries(w, c)' /\ (answer[w] = c => Carries(w, c))
    BY <1>7, SequencingMoves DEF Carries
  <2>2. CASE answer[w] = c
    <3>1. n1 + 1 = n /\ n1 \in Nat
      BY <2>1, <2>2, <1>b
    <3>2. sends'[c] = sends[c] \/ sends'[c] = sends[c] + 1
      BY <2>1, <2>2 DEF Types, SendsOK
    <3>3. q1 = q
      BY <2>1, <1>a
    <3>. HIDE DEF n, n1, q, q1
    <3>. QED BY <1>0, <2>1, <3>1, <3>2, <3>3
  <2>3. CASE answer[w] # c
    <3>1. n1 = n /\ q1 = q
      BY <2>1, <2>3, <1>a, <1>b DEF Carries
    <3>2. sends'[c] = sends[c]
      BY <2>1, <2>3 DEF Types, SendsOK
    <3>. HIDE DEF n, n1, q, q1
    <3>. QED BY <1>0, <2>1, <3>1, <3>2
  <2>. QED BY <2>2, <2>3
<1>8. ASSUME NEW w \in Worker, Terminate(w) \/ Crash(w) \/ Restart(w)
      PROVE  sends'[c] + n1 + q1 <= answered'[c]
  <2>1. Others(w) /\ pc'[w] \in {"idle", "down"} /\ UNCHANGED <<answers, answered, sends>>
    BY <1>8, PauseMoves
  <2>2. ~Carries(w, c)'
    BY <2>1, Locations DEF Carries
  <2>. QED BY <2>1, <2>2, <1>c
<1>9. ASSUME Submit \/ UNCHANGED vars
      PROVE  UNCHANGED <<pc, answer, answers, answered, sends>>
  BY <1>9 DEF Submit, vars, local, texts
<1>. QED
  BY <1>1, <1>2, <1>3, <1>4, <1>5, <1>6, <1>7, <1>8, <1>9 DEF Next, Step, HandleAnswer

LEMMA StepBodies ==
  ASSUME Types, Bodies, [Next]_vars
  PROVE  Bodies'
<1>1. ASSUME NEW w \in Worker, Others(w), UNCHANGED sends,
             pc'[w] # "send" \/ (answer'[w] = answer[w] /\ answer[w] \notin Bodiless)
      PROVE  Bodies'
  BY <1>1 DEF Others, Bodies
<1>2. CASE UNCHANGED <<pc, answer, sends>>
  BY <1>2 DEF Bodies
<1>3. ASSUME NEW w \in Worker, ReadNew(w) \/ ReadHistory(w)
      PROVE  Bodies'
  <2>1. UNCHANGED sends
    BY <1>3 DEF ReadNew, ReadHistory
  <2>2. \/ Goto(w, "history") /\ UNCHANGED local
        \/ \E r \in Reply \cup {None} : \E c : Begin(w, r, c)
    BY <1>3, ReadNewMoves, ReadHistoryMoves
  <2>3. Others(w) /\ pc'[w] # "send"
    BY <2>2, GotoMoved, MovedEffect, BeginMoves DEF Types
  <2>. QED BY <2>1, <2>3, <1>1
<1>4. ASSUME NEW w \in Worker, HandleReply(w)
      PROVE  Bodies'
  <2>1. pc'[w] # "send"
    BY <1>4, ReplyMoves DEF TaskStep
  <2>. QED BY <1>4, <2>1, <1>1, ReplyMoves
<1>5. ASSUME NEW w \in Worker, Lookup(w) \/ Report(w) \/ Forget(w) \/ AckAnswer(w)
      PROVE  Bodies'
  BY <1>5, <1>1, AnswerMoves
<1>6. ASSUME NEW w \in Worker, EnqueueSequencing(w)
      PROVE  Bodies'
  <2>1. answer[w] \notin Bodiless /\ Others(w) /\ pc'[w] # "send"
    BY <1>6, SequencingMoves DEF Bodies
  <2>2. \A c \in Bodiless : sends'[c] = sends[c]
    BY <1>6, <2>1, SequencingMoves DEF Types, SendsOK
  <2>. QED BY <2>1, <2>2 DEF Bodies, Others
<1>7. ASSUME NEW w \in Worker, Terminate(w) \/ Crash(w) \/ Restart(w)
      PROVE  Bodies'
  BY <1>7, <1>1, PauseMoves
<1>8. ASSUME Submit \/ UNCHANGED vars \/ \E c \in Copy : AnswerRequest(c)
      PROVE  UNCHANGED <<pc, answer, sends>>
  BY <1>8 DEF Submit, vars, local, AnswerRequest
<1>. QED BY <1>2, <1>3, <1>4, <1>5, <1>6, <1>7, <1>8 DEF Next, Step, HandleAnswer

Sending == Types /\ SendLedger /\ Bodies

LEMMA InitSending == Init => Sending
<1>. SUFFICES ASSUME Init PROVE Sending
  OBVIOUS
<1>1. Types
  BY InitTypes
<1>2. Bodies
  BY DEF Init, Bodies
<1>3. ASSUME NEW c \in Copy
      PROVE  sends[c] + Cardinality(Carrying(c)) + Waiting(c) <= answered[c]
  <2>1. sends[c] = 0 /\ answered[c] = 0
    BY DEF Init
  <2>2. Cardinality(Carrying(c)) = 0
    <3>1. Carrying(c) = {}
      BY Locations DEF Init, Carrying, Carries
    <3>. QED BY <3>1, FS_EmptySet
  <2>3. Waiting(c) = 0
    <3>1. {i \in DOMAIN answers : answers[i] = c} = {}
      BY DEF Init
    <3>. QED BY <3>1, FS_EmptySet DEF Waiting
  <2>. QED BY <2>1, <2>2, <2>3
<1>. QED BY <1>1, <1>2, <1>3 DEF Sending, SendLedger

(* An answer of the Copywriter sends at most one email, whatever raises or *)
(* crashes while it is handled: each answer waits in the stream, is        *)
(* carried by one consumer up to _enqueue_sequencing, or was sent at most  *)
(* once (process_copywriter_result).                                       *)
THEOREM AnswersSendOnce == Spec => []OneSendPerAnswer
<1>1. Sending /\ [Next]_vars => Sending'
  BY StepTypes, StepSendLedger, StepBodies DEF Sending, SendLedger
<1>2. Sending => OneSendPerAnswer
  <2>. SUFFICES ASSUME Sending, NEW c \in Copy PROVE sends[c] <= TextsRead(c)
    BY DEF OneSendPerAnswer
  <2>1. /\ sends[c] \in Nat /\ answered[c] \in Nat /\ answers \in Seq(1 .. Len(requests))
        /\ sends[c] + Cardinality(Carrying(c)) + Waiting(c) <= answered[c]
        /\ c \in Bodiless => sends[c] = 0
    BY DEF Sending, Types, SendsOK, AnswersOK, SendLedger, Bodies
  <2>2. Cardinality(Carrying(c)) \in Nat /\ Waiting(c) \in Nat
    BY <2>1, CarryingFinite, WaitingMoves
  <2>. QED BY <2>1, <2>2 DEF TextsRead
<1>. QED BY InitSending, <1>1, <1>2, PTL DEF Spec

-----------------------------------------------------------------------------
(* What a worker does with its reply task, step by step.                   *)
Keeps(w) == reply'[w] = reply[w] /\ tries'[w] = tries[w]
Spends == faults' = faults + 1

LEMMA Handled ==
  ASSUME Types, NEW w \in Worker, pc[w] \in TaskStep
  PROVE  reply[w] \in Reply /\ owner[reply[w]] \in Worker \cup {NoOne} /\ count[reply[w]] \in 0 .. MaxRetries
         /\ tries[w] \in 0 .. HarnessRetries
<1>1. reply[w] \in Reply
  BY DEF Types, LocalOK
<1>. QED BY <1>1 DEF Types, TaskOK, LocalOK

LEMMA GotoMoves ==
  ASSUME Types, NEW w \in Worker, NEW l, Goto(w, l), UNCHANGED local
  PROVE  Others(w) /\ pc'[w] = l /\ Keeps(w)
<1>. LocalOK
  BY DEF Types
<1>. QED BY GotoMoved, MovedEffect DEF Keeps

LEMMA EndTaskMoves ==
  ASSUME Types, NEW w \in Worker, EndTask(w)
  PROVE  Others(w) /\ reply'[w] = None
<1>. LocalOK
  BY DEF Types
<1>. QED BY EndTaskMoved, MovedEffect

LEMMA FailAttemptMoves ==
  ASSUME Types, NEW w \in Worker, FailAttempt(w)
  PROVE  /\ Others(w) /\ reply'[w] = reply[w]
         /\ \/ tries[w] < HarnessRetries /\ pc'[w] = "enqueue" /\ tries'[w] = tries[w] + 1
            \/ tries[w] = HarnessRetries /\ pc'[w] = "failed" /\ tries'[w] = tries[w]
<1>. LocalOK
  BY DEF Types
<1>. QED BY FailAttemptMoved, MovedEffect

LEMMA RefuseMoves ==
  ASSUME Types, NEW w \in Worker, Refuse(w)
  PROVE  /\ pc[w] = "enqueue" /\ pc'[w] = "failed" /\ Others(w) /\ Keeps(w)
         /\ UNCHANGED <<tasks, requests, crashes, faults>>
<1>1. /\ pc[w] = "enqueue" /\ Goto(w, "failed") /\ UNCHANGED <<tasks, requests, crashes, faults, local>>
  BY DEF Refuse, texts, budget
<1>. QED BY <1>1, GotoMoves

LEMMA EnqueueMoves ==
  ASSUME Types, NEW w \in Worker, EnqueueCopywriter(w)
  PROVE  /\ pc[w] = "enqueue" /\ Others(w) /\ reply'[w] = reply[w] /\ UNCHANGED <<tasks, crashes>>
         /\ \/ /\ requests' = Append(requests, reply[w]) /\ UNCHANGED faults
               /\ pc'[w] = "register" /\ tries'[w] = tries[w]
            \/ /\ requests' = Append(requests, reply[w]) \/ UNCHANGED requests
               /\ Spends /\ FailAttempt(w)
<1>1. PICK call \in Call :
        /\ Charge(call)
        /\ IF Applied(call) THEN requests' = Append(requests, reply[w]) ELSE UNCHANGED requests
        /\ IF call = "ok"
           THEN Goto(w, "register") /\ UNCHANGED <<reply, answer, tries>>
           ELSE FailAttempt(w)
  BY DEF EnqueueCopywriter
<1>2. pc[w] = "enqueue" /\ UNCHANGED <<tasks, crashes>>
  BY DEF EnqueueCopywriter, budget
<1>3. CASE call = "ok"
  <2>1. Others(w) /\ pc'[w] = "register" /\ Keeps(w)
    BY <1>1, <1>3 DEF Types, LocalOK, Goto, Others, Keeps
  <2>. QED BY <1>1, <1>2, <1>3, <2>1 DEF Charge, Applied, Keeps
<1>4. CASE call # "ok"
  <2>1. FailAttempt(w) /\ Spends
    BY <1>1, <1>4 DEF Charge, Spends
  <2>2. Others(w) /\ reply'[w] = reply[w]
    BY <2>1, FailAttemptMoves
  <2>. QED BY <1>1, <1>2, <2>1, <2>2
<1>. QED BY <1>3, <1>4

LEMMA RegisterMoves ==
  ASSUME Types, NEW w \in Worker, RegisterAutoSend(w)
  PROVE  /\ pc[w] = "register" /\ Others(w) /\ Keeps(w) /\ UNCHANGED <<tasks, requests, crashes>>
         /\ pc'[w] = (IF booking[reply[w]] # "none" THEN "booking" ELSE "publish")
         /\ UNCHANGED faults \/ Spends
<1>1. UNCHANGED faults \/ Spends
  BY DEF RegisterAutoSend, Charge, Spends
<1>2. /\ pc[w] = "register" /\ UNCHANGED <<tasks, requests, crashes, local>>
      /\ Goto(w, IF booking[reply[w]] # "none" THEN "booking" ELSE "publish")
  BY DEF RegisterAutoSend, texts, budget
<1>. QED BY <1>1, <1>2, GotoMoves

LEMMA SchedulerMoves ==
  ASSUME Types, NEW w \in Worker, EnqueueScheduler(w)
  PROVE  /\ pc[w] = "booking" /\ Others(w) /\ reply'[w] = reply[w] /\ UNCHANGED <<tasks, requests, crashes>>
         /\ \/ booking[reply[w]] = "unparsable" /\ FailAttempt(w) /\ UNCHANGED faults
            \/ booking[reply[w]] = "sound" /\ FailAttempt(w) /\ Spends
            \/ booking[reply[w]] = "sound" /\ pc'[w] = "publish" /\ Keeps(w) /\ UNCHANGED faults
<1>1. pc[w] = "booking" /\ UNCHANGED <<tasks, requests, crashes>>
  BY DEF EnqueueScheduler, texts, budget
<1>2. \/ booking[reply[w]] = "unparsable" /\ FailAttempt(w) /\ UNCHANGED faults
      \/ booking[reply[w]] = "sound" /\ FailAttempt(w) /\ Spends
      \/ booking[reply[w]] = "sound" /\ Goto(w, "publish") /\ UNCHANGED <<local, faults>>
  BY DEF EnqueueScheduler, Charge, Spends
<1>3. ASSUME Goto(w, "publish"), UNCHANGED local
      PROVE  Others(w) /\ pc'[w] = "publish" /\ Keeps(w)
  BY <1>3, GotoMoves
<1>4. ASSUME FailAttempt(w)
      PROVE  Others(w) /\ reply'[w] = reply[w]
  BY <1>4, FailAttemptMoves
<1>. QED BY <1>1, <1>2, <1>3, <1>4 DEF Keeps

LEMMA PublishMoves ==
  ASSUME Types, NEW w \in Worker, Publish(w)
  PROVE  /\ pc[w] = "publish" /\ Others(w) /\ Keeps(w) /\ UNCHANGED <<tasks, requests, crashes>>
         /\ \/ pc'[w] = "ack" /\ UNCHANGED faults
            \/ pc'[w] = "failed" /\ Spends
<1>1. pc[w] = "publish" /\ UNCHANGED <<tasks, requests, crashes, local>>
  BY DEF Publish, texts, budget
<1>2. \/ Goto(w, "ack") /\ UNCHANGED faults
      \/ Goto(w, "failed") /\ Spends
  BY DEF Publish, Charge, Spends
<1>. QED BY <1>1, <1>2, GotoMoves

LEMMA AckMoves ==
  ASSUME Types, NEW w \in Worker, Ack(w)
  PROVE  /\ pc[w] = "ack" /\ Others(w) /\ UNCHANGED <<booking, cursor, count, requests, crashes>>
         /\ \/ owner' = [owner EXCEPT ![reply[w]] = NoOne] /\ reply'[w] = None /\ UNCHANGED faults
            \/ /\ UNCHANGED owner \/ owner' = [owner EXCEPT ![reply[w]] = NoOne]
               /\ pc'[w] = "failed" /\ Keeps(w) /\ Spends
<1>1. PICK call \in Call :
        /\ Charge(call) /\ Remove(reply[w], call)
        /\ IF call = "ok" THEN EndTask(w) ELSE Goto(w, "failed") /\ UNCHANGED local
  BY DEF Ack
<1>2. pc[w] = "ack" /\ UNCHANGED <<booking, cursor, count, requests, crashes>>
  BY DEF Ack, texts, budget
<1>3. UNCHANGED owner \/ owner' = [owner EXCEPT ![reply[w]] = NoOne]
  BY <1>1 DEF Remove
<1>4. CASE call = "ok"
  <2>1. owner' = [owner EXCEPT ![reply[w]] = NoOne] /\ UNCHANGED faults
    BY <1>1, <1>4 DEF Remove, Applied, Charge
  <2>2. Others(w) /\ reply'[w] = None
    BY <1>1, <1>4, EndTaskMoves
  <2>. QED BY <1>2, <2>1, <2>2
<1>5. CASE call # "ok"
  <2>1. Spends
    BY <1>1, <1>5 DEF Charge, Spends
  <2>2. Others(w) /\ pc'[w] = "failed" /\ Keeps(w)
    BY <1>1, <1>5, GotoMoves
  <2>. QED BY <1>2, <1>3, <2>1, <2>2
<1>. QED BY <1>4, <1>5

LEMMA FailureMoves ==
  ASSUME Types, NEW w \in Worker, HandleFailure(w)
  PROVE  /\ pc[w] = "failed" /\ Others(w) /\ UNCHANGED <<tasks, requests, crashes>>
         /\ \/ /\ owner[reply[w]] # NoOne /\ count[reply[w]] >= MaxRetries
               /\ pc'[w] = "deadLetter" /\ Keeps(w) /\ UNCHANGED faults
            \/ reply'[w] = None /\ Spends
            \/ /\ owner[reply[w]] = NoOne \/ ~(count[reply[w]] >= MaxRetries)
               /\ reply'[w] = None /\ UNCHANGED faults
<1>1. pc[w] = "failed" /\ UNCHANGED <<tasks, requests, crashes>>
  BY DEF HandleFailure, texts, budget
<1>2. \/ /\ owner[reply[w]] # NoOne /\ count[reply[w]] >= MaxRetries
         /\ Goto(w, "deadLetter") /\ UNCHANGED <<local, faults>>
      \/ EndTask(w) /\ Spends
      \/ /\ owner[reply[w]] = NoOne \/ ~(count[reply[w]] >= MaxRetries)
         /\ EndTask(w) /\ UNCHANGED faults
  BY DEF HandleFailure, Charge, Spends
<1>. QED BY <1>1, <1>2, GotoMoves, EndTaskMoves

LEMMA DeadLetterMoves ==
  ASSUME Types, NEW w \in Worker, DeadLetter(w)
  PROVE  /\ pc[w] = "deadLetter" /\ pc'[w] = "ackDead" /\ Others(w) /\ Keeps(w)
         /\ UNCHANGED <<tasks, requests, crashes>>
         /\ UNCHANGED faults \/ Spends
<1>1. /\ pc[w] = "deadLetter" /\ UNCHANGED <<tasks, requests, crashes, local>> /\ Goto(w, "ackDead")
  BY DEF DeadLetter, texts, budget
<1>2. UNCHANGED faults \/ Spends
  BY DEF DeadLetter, Charge, Spends
<1>. QED BY <1>1, <1>2, GotoMoves

LEMMA AckDeadMoves ==
  ASSUME Types, NEW w \in Worker, AckDead(w)
  PROVE  /\ pc[w] = "ackDead" /\ Others(w) /\ reply'[w] = None
         /\ UNCHANGED <<booking, cursor, count, requests, crashes>>
         /\ \/ owner' = [owner EXCEPT ![reply[w]] = NoOne] /\ (UNCHANGED faults \/ Spends)
            \/ UNCHANGED owner /\ Spends
<1>1. pc[w] = "ackDead" /\ EndTask(w) /\ UNCHANGED <<booking, cursor, count, requests, crashes>>
  BY DEF AckDead, texts, budget
<1>2. \/ owner' = [owner EXCEPT ![reply[w]] = NoOne] /\ (UNCHANGED faults \/ Spends)
      \/ UNCHANGED owner /\ Spends
  BY DEF AckDead, Remove, Applied, Charge, Spends
<1>. QED BY <1>1, <1>2, EndTaskMoves

(* What it does with its answer, and a process that ends or begins.        *)
LEMMA AnswerStepMoves ==
  ASSUME Types, NEW w \in Worker, HandleAnswer(w)
  PROVE  /\ Others(w) /\ reply[w] = None /\ reply'[w] = None /\ UNCHANGED <<tasks, requests, crashes>>
         /\ UNCHANGED faults \/ Spends
<1>. LocalOK
  BY DEF Types
<1>1. pc[w] \in AnswerStep /\ UNCHANGED <<tasks, requests, crashes>>
  BY Locations DEF HandleAnswer, Lookup, EnqueueSequencing, Report, Forget, AckAnswer, texts, budget
<1>2. reply[w] = None
  BY <1>1, Locations DEF LocalOK
<1>3. Others(w) /\ reply'[w] = reply[w]
  <2>1. EndAnswer(w) \/ \E l \in {"ackAnswer", "ackError", "forget", "send", "report"} : Goto(w, l) /\ UNCHANGED local
    BY DEF HandleAnswer, Lookup, EnqueueSequencing, Report, Forget, AckAnswer
  <2>. QED BY <2>1, EndAnswerMoved, GotoMoved, MovedEffect
<1>4. UNCHANGED faults \/ Spends
  <2>1. \E call \in Call : Charge(call)
    BY DEF HandleAnswer, Lookup, EnqueueSequencing, Report, Forget, AckAnswer, Call
  <2>. QED BY <2>1 DEF Charge, Spends
<1>. QED BY <1>1, <1>2, <1>3, <1>4

LEMMA ProcessMoves ==
  ASSUME Types, NEW w \in Worker, Terminate(w) \/ Crash(w) \/ Restart(w)
  PROVE  /\ Others(w) /\ reply'[w] = None /\ UNCHANGED <<tasks, requests, faults>>
         /\ \/ UNCHANGED crashes /\ (reply[w] = None \/ (pc[w] = "enqueue" /\ tries[w] = 0))
            \/ crashes' = crashes + 1
<1>. LocalOK
  BY DEF Types
<1>1. CASE Terminate(w) \/ Crash(w)
  <2>1. Leave(w)
    BY <1>1 DEF Terminate, Crash
  <2>2. Others(w) /\ reply'[w] = None /\ UNCHANGED <<tasks, requests, faults>>
    <3>1. Others(w) /\ reply'[w] = None
      BY <2>1, LeaveMoved, MovedEffect
    <3>2. UNCHANGED <<tasks, requests, faults>>
      BY <2>1 DEF Leave, texts
    <3>. QED BY <3>1, <3>2
  <2>3. Terminate(w) => UNCHANGED crashes /\ (reply[w] = None \/ (pc[w] = "enqueue" /\ tries[w] = 0))
    BY Locations DEF Terminate, LocalOK
  <2>4. Crash(w) => crashes' = crashes + 1
    BY DEF Crash
  <2>. QED BY <1>1, <2>2, <2>3, <2>4
<1>2. CASE Restart(w)
  <2>1. pc[w] = "down" /\ Goto(w, "idle") /\ UNCHANGED <<local, tasks, requests, faults, crashes>>
    BY <1>2 DEF Restart, texts, budget
  <2>2. reply[w] = None
    BY <2>1, Locations DEF LocalOK
  <2>. QED BY <2>1, <2>2, GotoMoves DEF Keeps
<1>. QED BY <1>1, <1>2

(* A read hands out nothing, or one reply: the next, or one that it owns.  *)
LEMMA ReadMoves ==
  ASSUME Types, NEW w \in Worker, ReadNew(w) \/ ReadHistory(w)
  PROVE  /\ Others(w) /\ reply[w] = None /\ UNCHANGED <<booking, requests, crashes>>
         /\ \/ UNCHANGED <<cursor, owner, count>> /\ reply'[w] = None /\ (UNCHANGED faults \/ Spends)
            \/ \E r \in Reply :
                 /\ DeliverReply(w, r)
                 /\ \/ owner[r] = w /\ UNCHANGED cursor
                    \/ r = cursor + 1 /\ cursor' = r
                 /\ \/ pc'[w] = "enqueue" /\ reply'[w] = r /\ tries'[w] = 0 /\ UNCHANGED faults
                    \/ reply'[w] = None /\ Spends
<1>. LocalOK
  BY DEF Types
<1>1. pc[w] \in {"idle", "history"} /\ UNCHANGED <<booking, requests, crashes>>
  BY DEF ReadNew, ReadHistory, texts, budget
<1>2. reply[w] = None
  BY <1>1, Locations DEF LocalOK
<1>3. ASSUME NEW r \in Reply \cup {None}, NEW c, Begin(w, r, c)
      PROVE  Others(w) /\ reply'[w] = r /\ tries'[w] = 0 /\ (r # None => pc'[w] = "enqueue")
  BY <1>3, BeginMoved, MovedEffect
<1>4. \A call : Charge(call) => (call = "ok" => UNCHANGED faults) /\ (call # "ok" => Spends)
  BY DEF Charge, Spends
<1>5. CASE ReadNew(w)
  <2>1. CASE Goto(w, "history") /\ UNCHANGED <<cursor, owner, count, answers, local, faults>>
    BY <1>1, <1>2, <2>1, GotoMoves DEF Keeps
  <2>2. CASE ~(Goto(w, "history") /\ UNCHANGED <<cursor, owner, count, answers, local, faults>>)
    <3>1. PICK call \in Call, r \in Reply \cup {None}, c \in 0 .. Len(requests) :
                 /\ Charge(call)
                 /\ r # None => r = cursor + 1 /\ cursor < tail
                 /\ \/ Applied(call) /\ r # None /\ DeliverReply(w, r) /\ cursor' = r
                    \/ (~Applied(call) \/ r = None) /\ UNCHANGED <<cursor, owner, count>>
                 /\ \/ call = "ok" /\ Begin(w, r, c)
                    \/ call # "ok" /\ Begin(w, None, None)
      BY <1>5, <2>2, ReadNewMoves
    <3>2. CASE Applied(call) /\ r # None /\ DeliverReply(w, r) /\ cursor' = r
      <4>1. r \in Reply /\ r = cursor + 1
        BY <3>1, <3>2
      <4>2. CASE call = "ok"
        BY <1>1, <1>2, <1>3, <1>4, <3>1, <3>2, <4>1, <4>2
      <4>3. CASE call # "ok"
        BY <1>1, <1>2, <1>3, <1>4, <3>1, <3>2, <4>1, <4>3
      <4>. QED BY <4>2, <4>3
    <3>3. CASE (~Applied(call) \/ r = None) /\ UNCHANGED <<cursor, owner, count>>
      <4>1. Begin(w, None, c) \/ Begin(w, None, None)
        BY <3>1, <3>3 DEF Applied
      <4>2. Others(w) /\ reply'[w] = None
        BY <4>1, <1>3
      <4>. QED BY <1>1, <1>2, <1>4, <3>1, <3>3, <4>2
    <3>. QED BY <3>1, <3>2, <3>3
  <2>. QED BY <2>1, <2>2
<1>6. CASE ReadHistory(w)
  <2>0. UNCHANGED cursor
    BY <1>6, ReadHistoryMoves
  <2>1. CASE Begin(w, None, None) /\ UNCHANGED <<owner, count, faults>>
    BY <1>1, <1>2, <1>3, <2>0, <2>1
  <2>2. CASE ~(Begin(w, None, None) /\ UNCHANGED <<owner, count, faults>>)
    <3>1. PICK call \in Call, r \in Reply :
                 /\ Charge(call) /\ owner[r] = w
                 /\ \/ Applied(call) /\ DeliverReply(w, r)
                    \/ ~Applied(call) /\ UNCHANGED <<owner, count>>
                 /\ \/ call = "ok" /\ Begin(w, r, None)
                    \/ call # "ok" /\ Begin(w, None, None)
      BY <1>6, <2>2, ReadHistoryMoves
    <3>2. CASE Applied(call) /\ DeliverReply(w, r)
      <4>0. r # None
        OBVIOUS
      <4>1. CASE call = "ok"
        BY <1>1, <1>2, <1>3, <1>4, <2>0, <3>1, <3>2, <4>0, <4>1
      <4>2. CASE call # "ok"
        BY <1>1, <1>2, <1>3, <1>4, <2>0, <3>1, <3>2, <4>2
      <4>. QED BY <4>1, <4>2
    <3>3. CASE ~Applied(call) /\ UNCHANGED <<owner, count>>
      <4>1. call # "ok" /\ Begin(w, None, None)
        BY <3>1, <3>3 DEF Applied
      <4>. QED BY <1>1, <1>2, <1>3, <1>4, <2>0, <3>1, <3>3, <4>1
    <3>. QED BY <3>1, <3>2, <3>3
  <2>. QED BY <2>1, <2>2
<1>. QED BY <1>5, <1>6

-----------------------------------------------------------------------------
(* Who owns a reply: a reply in hand was delivered, and is pending under   *)
(* the name of the consumer that has it unless its acknowledgement was     *)
(* torn.                                                                   *)
Gone(r) == r <= cursor /\ owner[r] = NoOne
Owned ==
  /\ \A r \in Reply : r > cursor => owner[r] = NoOne
  /\ \A w \in Worker : reply[w] # None =>
       /\ reply[w] <= cursor
       /\ owner[reply[w]] = w \/ (pc[w] = "failed" /\ owner[reply[w]] = NoOne)

(* No other consumer has a reply that is pending under a name of its own.  *)
LEMMA Sole ==
  ASSUME Types, Owned, NEW r \in Reply, NEW w \in Worker, owner[r] = w
  PROVE  \A v \in Worker : reply[v] = r => v = w
BY DEF Owned

LEMMA InHand ==
  ASSUME Types, Owned, NEW w \in Worker, pc[w] \in TaskStep
  PROVE  /\ reply[w] \in Reply /\ reply[w] # None /\ reply[w] <= cursor
         /\ owner[reply[w]] = w \/ (pc[w] = "failed" /\ owner[reply[w]] = NoOne)
BY Handled DEF Owned

LEMMA StepOwned ==
  ASSUME Types, Types', Owned, [Next]_vars
  PROVE  Owned'
<1>. owner \in [Reply -> Worker \cup {NoOne}] /\ cursor \in Nat
  BY DEF Types, TaskOK
<1>a. ASSUME NEW w \in Worker, Others(w), UNCHANGED <<cursor, owner>>,
             \/ reply'[w] = None
             \/ reply'[w] = reply[w] /\ reply[w] <= cursor /\
                (owner[reply[w]] = w \/ (pc'[w] = "failed" /\ owner[reply[w]] = NoOne))
      PROVE  Owned'
  BY <1>a DEF Others, Owned
<1>b. ASSUME NEW w \in Worker, Others(w), UNCHANGED cursor, pc[w] \in TaskStep, pc[w] # "failed",
             owner' = [owner EXCEPT ![reply[w]] = NoOne],
             reply'[w] = None \/ (reply'[w] = reply[w] /\ pc'[w] = "failed")
      PROVE  Owned'
  <2>1. reply[w] \in Reply /\ owner[reply[w]] = w /\ reply[w] <= cursor
    BY <1>b, InHand
  <2>2. \A v \in Worker : v # w => reply[v] # reply[w]
    BY <2>1, Sole
  <2>. DEFINE r == reply[w]
  <2>3. r \in Reply /\ r <= cursor /\ owner' = [owner EXCEPT ![r] = NoOne] /\ (\A v \in Worker : v # w => reply[v] # r)
        /\ (reply'[w] = None \/ (reply'[w] = r /\ pc'[w] = "failed"))
    BY <1>b, <2>1, <2>2
  <2>. HIDE DEF r
  <2>4. \A q \in Reply : q > cursor => owner'[q] = NoOne
    BY <2>3 DEF Owned
  <2>5. ASSUME NEW v \in Worker, reply'[v] # None
        PROVE  /\ reply'[v] <= cursor
               /\ owner'[reply'[v]] = v \/ (pc'[v] = "failed" /\ owner'[reply'[v]] = NoOne)
    <3>1. CASE v = w
      BY <2>3, <2>5, <3>1
    <3>2. CASE v # w
      <4>1. reply'[v] = reply[v] /\ pc'[v] = pc[v] /\ reply[v] # r
        BY <1>b, <2>3, <3>2 DEF Others
      <4>2. reply[v] \in Reply
        BY <2>5, <4>1 DEF Types, LocalOK
      <4>. QED BY <2>3, <2>5, <4>1, <4>2 DEF Owned
    <3>. QED BY <3>1, <3>2
  <2>. QED BY <1>b, <2>4, <2>5 DEF Owned
<1>1. CASE UNCHANGED <<cursor, owner, pc, reply>>
  BY <1>1 DEF Owned
<1>2. ASSUME NEW w \in Worker, ReadNew(w) \/ ReadHistory(w)
      PROVE  Owned'
  <2>1. CASE UNCHANGED <<cursor, owner, count>> /\ reply'[w] = None
    BY <1>2, <2>1, <1>a, ReadMoves
  <2>2. ASSUME NEW r \in Reply, DeliverReply(w, r),
               \/ owner[r] = w /\ UNCHANGED cursor
               \/ r = cursor + 1 /\ cursor' = r,
               reply'[w] \in {None, r}
        PROVE  Owned'
    <3>1. Others(w) /\ reply[w] = None
      BY <1>2, ReadMoves
    <3>2. cursor <= cursor' /\ r <= cursor' /\ cursor' \in Nat
      <4>1. r > cursor \/ owner[r] # NoOne
        BY <2>2
      <4>. QED BY <2>2, <4>1 DEF Owned
    <3>3. owner' = [owner EXCEPT ![r] = w]
      BY <2>2 DEF DeliverReply
    <3>4. \A v \in Worker : v # w => reply[v] # r
      BY <2>2, Sole DEF Owned
    <3>5. \A q \in Reply : q > cursor' => owner'[q] = NoOne
      BY <3>2, <3>3 DEF Owned
    <3>6. ASSUME NEW v \in Worker, reply'[v] # None
          PROVE  /\ reply'[v] <= cursor'
                 /\ owner'[reply'[v]] = v \/ (pc'[v] = "failed" /\ owner'[reply'[v]] = NoOne)
      <4>1. CASE v = w
        BY <2>2, <3>2, <3>3, <3>6, <4>1
      <4>2. CASE v # w
        <5>1. reply'[v] = reply[v] /\ pc'[v] = pc[v] /\ reply[v] # r
          BY <3>1, <3>4, <4>2 DEF Others
        <5>2. reply[v] \in Reply
          BY <3>6, <5>1 DEF Types, LocalOK
        <5>. QED BY <3>2, <3>3, <3>6, <5>1, <5>2 DEF Owned
      <4>. QED BY <4>1, <4>2
    <3>. QED BY <3>5, <3>6 DEF Owned
  <2>. QED BY <1>2, <2>1, <2>2, ReadMoves
<1>3. ASSUME NEW w \in Worker, HandleReply(w)
      PROVE  Owned'
  <2>0. pc[w] \in TaskStep /\ Others(w)
    BY <1>3, ReplyMoves
  <2>1. /\ reply[w] \in Reply /\ reply[w] <= cursor
        /\ owner[reply[w]] = w \/ (pc[w] = "failed" /\ owner[reply[w]] = NoOne)
    BY <2>0, InHand
  <2>2. CASE EnqueueCopywriter(w)
    BY <2>1, <2>2, <1>a, EnqueueMoves DEF tasks
  <2>3. CASE RegisterAutoSend(w)
    BY <2>1, <2>3, <1>a, RegisterMoves DEF tasks, Keeps
  <2>4. CASE EnqueueScheduler(w)
    BY <2>1, <2>4, <1>a, SchedulerMoves DEF tasks
  <2>5. CASE Publish(w)
    BY <2>1, <2>5, <1>a, PublishMoves DEF tasks, Keeps
  <2>6. CASE Ack(w)
    <3>1. pc[w] = "ack" /\ UNCHANGED cursor
          /\ (UNCHANGED owner \/ owner' = [owner EXCEPT ![reply[w]] = NoOne])
          /\ (reply'[w] = None \/ (reply'[w] = reply[w] /\ pc'[w] = "failed"))
      BY <2>6, AckMoves DEF Keeps
    <3>. QED BY <2>0, <2>1, <3>1, <1>a, <1>b
  <2>7. CASE HandleFailure(w)
    BY <2>0, <2>1, <2>7, <1>a, FailureMoves DEF tasks, Keeps
  <2>8. CASE DeadLetter(w)
    BY <2>1, <2>8, <1>a, DeadLetterMoves DEF tasks, Keeps
  <2>9. CASE AckDead(w)
    <3>1. pc[w] = "ackDead" /\ UNCHANGED cursor /\ reply'[w] = None
          /\ (UNCHANGED owner \/ owner' = [owner EXCEPT ![reply[w]] = NoOne])
      BY <2>9, AckDeadMoves
    <3>. QED BY <2>0, <3>1, <1>a, <1>b
  <2>10. CASE Refuse(w)
    BY <2>1, <2>10, <1>a, RefuseMoves DEF tasks, Keeps
  <2>. QED BY <1>3, <2>2, <2>3, <2>4, <2>5, <2>6, <2>7, <2>8, <2>9, <2>10 DEF HandleReply
<1>4. ASSUME NEW w \in Worker, HandleAnswer(w)
      PROVE  Owned'
  BY <1>4, <1>a, AnswerStepMoves DEF tasks
<1>5. ASSUME NEW w \in Worker, Terminate(w) \/ Crash(w) \/ Restart(w)
      PROVE  Owned'
  BY <1>5, <1>a, ProcessMoves DEF tasks
<1>6. ASSUME Submit \/ UNCHANGED vars \/ \E c \in Copy : AnswerRequest(c)
      PROVE  UNCHANGED <<cursor, owner, pc, reply>>
  BY <1>6 DEF Submit, vars, local, tasks, AnswerRequest
<1>. QED BY <1>1, <1>2, <1>3, <1>4, <1>5, <1>6 DEF Next, Step

(* The refusals of the quota are counted up to the deliveries that make a  *)
(* dead letter.                                                            *)
RefusalsOK == refusals \in [Reply -> 0 .. MaxRetries]

LEMMA StepRefusals ==
  ASSUME Types, RefusalsOK, [Next]_vars
  PROVE  RefusalsOK'
<1>1. ASSUME UNCHANGED refusals
      PROVE  RefusalsOK'
  BY <1>1 DEF RefusalsOK
<1>2. ASSUME NEW w \in Worker, Refuse(w)
      PROVE  RefusalsOK'
  <2>1. reply[w] \in Reply
    BY <1>2, Locations DEF Refuse, Types, LocalOK
  <2>2. CountUp(refusals[reply[w]]) \in 0 .. MaxRetries
    BY <2>1 DEF RefusalsOK, CountUp
  <2>. QED BY <1>2, <2>1, <2>2 DEF Refuse, RefusalsOK
<1>3. ASSUME NEW w \in Worker, HandleReply(w), ~Refuse(w)
      PROVE  UNCHANGED refusals
  BY <1>3 DEF HandleReply, EnqueueCopywriter, RegisterAutoSend, EnqueueScheduler, Publish, Ack,
              HandleFailure, DeadLetter, AckDead
<1>4. ASSUME NEW w \in Worker, ReadNew(w) \/ ReadHistory(w) \/ HandleAnswer(w)
      PROVE  UNCHANGED refusals
  BY <1>4 DEF ReadNew, ReadHistory, HandleAnswer, Lookup, EnqueueSequencing, Report, Forget, AckAnswer
<1>5. ASSUME NEW w \in Worker, Terminate(w) \/ Crash(w) \/ Restart(w)
      PROVE  UNCHANGED refusals
  BY <1>5 DEF Terminate, Crash, Leave, Restart
<1>6. ASSUME Submit \/ UNCHANGED vars \/ \E c \in Copy : AnswerRequest(c)
      PROVE  UNCHANGED refusals
  BY <1>6 DEF Submit, AnswerRequest, vars
<1>. QED BY <1>1, <1>2, <1>3, <1>4, <1>5, <1>6 DEF Next, Step

Typed == Types /\ RefusalsOK /\ Owned

LEMMA TypeParts == Typed => TypeOK
<1>. SUFFICES ASSUME Typed PROVE TypeOK
  OBVIOUS
<1>. Types
  BY DEF Typed
<1>1. DOMAIN requests = 1 .. Len(requests)
  BY DEF Types, RequestsOK
<1>2. \A w \in Worker : /\ pc[w] \in TaskStep <=> reply[w] \in Reply
                        /\ reply[w] \in Reply => owner[reply[w]] \in {w, NoOne}
                        /\ pc[w] \in AnswerStep => answer[w] \in DOMAIN requests
                        /\ copy[w] \in {None} \cup DOMAIN requests
                        /\ tries[w] \in 0 .. HarnessRetries
  <2>. SUFFICES ASSUME NEW w \in Worker
                PROVE  /\ pc[w] \in TaskStep <=> reply[w] \in Reply
                       /\ reply[w] \in Reply => owner[reply[w]] \in {w, NoOne}
                       /\ pc[w] \in AnswerStep => answer[w] \in DOMAIN requests
                       /\ copy[w] \in {None} \cup DOMAIN requests
                       /\ tries[w] \in 0 .. HarnessRetries
    OBVIOUS
  <2>1. /\ Len(requests) \in Nat
        /\ reply[w] \in Reply \cup {None} /\ answer[w] \in 0 .. Len(requests)
        /\ copy[w] \in 0 .. Len(requests) /\ tries[w] \in 0 .. HarnessRetries
        /\ pc[w] \in TaskStep <=> reply[w] # None
        /\ pc[w] \in AnswerStep => answer[w] # None
    BY DEF Types, RequestsOK, LocalOK
  <2>2. reply[w] \in Reply => owner[reply[w]] \in {w, NoOne}
    BY DEF Typed, Owned
  <2>. QED BY <1>1, <2>1, <2>2
<1>3. \A r \in Reply : {faults, stops, crashes, repeats} \subseteq 0 .. MaxMishaps[booking[r]]
  <2>. SUFFICES ASSUME NEW r \in Reply
                PROVE  {faults, stops, crashes, repeats} \subseteq 0 .. MaxMishaps[booking[r]]
    OBVIOUS
  <2>1. booking[r] \in Booking
    BY DEF Types, TaskOK
  <2>2. MaxMishaps[booking[r]] \in Nat
    BY <2>1
  <2>. QED BY <2>2 DEF Types, BudgetOK
<1>. QED
  BY <1>1, <1>2, <1>3 DEF TypeOK, Typed, RefusalsOK, Types, TaskOK, RequestsOK, AnswersOK, ContextOK, SendsOK, LocalOK

(* Every variable keeps its type, a worker has a reply in hand exactly     *)
(* while it is in process_task, one that is pending under its own name or  *)
(* under none, and an answer while it is in process_copywriter_result, and *)
(* contexts are only stored of requests.                                   *)
THEOREM TypeCorrect == Spec => []TypeOK
<1>1. Init => Typed
  BY InitTypes DEF Init, Typed, RefusalsOK, Owned
<1>2. Typed /\ [Next]_vars => Typed'
  BY StepTypes, StepRefusals, StepOwned DEF Typed
<1>. QED BY <1>1, <1>2, TypeParts, PTL DEF Spec

-----------------------------------------------------------------------------
(* A reply with an unparsable booking never gets past its booking, so that *)
(* it is only given up after its last delivery.                            *)
FutileIn(w) ==
  reply[w] # None /\ booking[reply[w]] = "unparsable" =>
    /\ pc[w] \notin {"publish", "ack"} /\ owner[reply[w]] = w
    /\ pc[w] \in {"deadLetter", "ackDead"} => count[reply[w]] = MaxRetries
Futile == \A w \in Worker : FutileIn(w)

LEMMA StepFutile ==
  ASSUME Types, Owned, Futile, [Next]_vars
  PROVE  Futile'
<1>. owner \in [Reply -> Worker \cup {NoOne}] /\ count \in [Reply -> 0 .. MaxRetries] /\ cursor \in Nat
  BY DEF Types, TaskOK
<1>0. \A v \in Worker : reply[v] # None => reply[v] \in Reply
  BY DEF Types, LocalOK
<1>a. ASSUME NEW w \in Worker, Others(w), UNCHANGED <<booking, owner, count>>, FutileIn(w)'
      PROVE  Futile'
  BY <1>a DEF Others, Futile, FutileIn
<1>b. ASSUME NEW w \in Worker, Others(w), UNCHANGED <<booking, owner, count>>, reply'[w] = None
      PROVE  Futile'
  BY <1>a, <1>b DEF FutileIn
<1>c. ASSUME NEW w \in Worker, Others(w), UNCHANGED <<booking, count>>, NEW r \in Reply,
             owner' = [owner EXCEPT ![r] = NoOne],
             owner[r] = w \/ booking[r] # "unparsable",
             reply'[w] = None \/ (reply'[w] = r /\ booking[r] # "unparsable")
      PROVE  Futile'
  <2>1. ASSUME NEW v \in Worker, v # w
        PROVE  FutileIn(v)'
    <3>. SUFFICES ASSUME reply'[v] # None, booking'[reply'[v]] = "unparsable"
                  PROVE  /\ pc'[v] \notin {"publish", "ack"} /\ owner'[reply'[v]] = v
                         /\ pc'[v] \in {"deadLetter", "ackDead"} => count'[reply'[v]] = MaxRetries
      BY DEF FutileIn
    <3>1. reply'[v] = reply[v] /\ pc'[v] = pc[v] /\ booking[reply[v]] = "unparsable" /\ reply[v] \in Reply
      BY <1>0, <1>c, <2>1 DEF Others
    <3>2. /\ pc[v] \notin {"publish", "ack"} /\ owner[reply[v]] = v
          /\ pc[v] \in {"deadLetter", "ackDead"} => count[reply[v]] = MaxRetries
      BY <3>1 DEF Futile, FutileIn
    <3>3. reply[v] # r
      BY <1>c, <2>1, <3>1, <3>2
    <3>. QED BY <1>c, <3>1, <3>2, <3>3
  <2>2. FutileIn(w)'
    BY <1>c DEF FutileIn
  <2>. QED BY <2>1, <2>2 DEF Futile
<1>1. CASE UNCHANGED <<booking, owner, count, pc, reply>>
  BY <1>1 DEF Futile, FutileIn
<1>2. ASSUME NEW w \in Worker, ReadNew(w) \/ ReadHistory(w)
      PROVE  Futile'
  <2>0. Others(w) /\ UNCHANGED booking
    BY <1>2, ReadMoves
  <2>1. CASE UNCHANGED <<cursor, owner, count>> /\ reply'[w] = None
    BY <2>0, <2>1, <1>b
  <2>2. ASSUME NEW r \in Reply, DeliverReply(w, r), owner[r] = w \/ r = cursor + 1,
               \/ pc'[w] = "enqueue" /\ reply'[w] = r
               \/ reply'[w] = None
        PROVE  Futile'
    <3>1. owner[r] = w \/ owner[r] = NoOne
      BY <2>2 DEF Owned
    <3>2. owner' = [owner EXCEPT ![r] = w] /\ \A q \in Reply : q # r => count'[q] = count[q]
      BY <2>2 DEF DeliverReply
    <3>3. ASSUME NEW v \in Worker, v # w
          PROVE  FutileIn(v)'
      <4>. SUFFICES ASSUME reply'[v] # None, booking'[reply'[v]] = "unparsable"
                    PROVE  /\ pc'[v] \notin {"publish", "ack"} /\ owner'[reply'[v]] = v
                           /\ pc'[v] \in {"deadLetter", "ackDead"} => count'[reply'[v]] = MaxRetries
        BY DEF FutileIn
      <4>1. reply'[v] = reply[v] /\ pc'[v] = pc[v] /\ booking[reply[v]] = "unparsable" /\ reply[v] \in Reply
        BY <1>0, <2>0, <3>3 DEF Others
      <4>2. /\ pc[v] \notin {"publish", "ack"} /\ owner[reply[v]] = v
            /\ pc[v] \in {"deadLetter", "ackDead"} => count[reply[v]] = MaxRetries
        BY <4>1 DEF Futile, FutileIn
      <4>3. reply[v] # r
        BY <3>1, <3>3, <4>2
      <4>. QED BY <3>2, <4>1, <4>2, <4>3
    <3>4. FutileIn(w)'
      BY <2>2, <3>2 DEF FutileIn
    <3>. QED BY <3>3, <3>4 DEF Futile
  <2>. QED BY <1>2, <2>1, <2>2, ReadMoves
<1>3. ASSUME NEW w \in Worker, HandleReply(w)
      PROVE  Futile'
  <2>0. pc[w] \in TaskStep /\ Others(w)
    BY <1>3, ReplyMoves
  <2>1. /\ reply[w] \in Reply /\ reply[w] # None
        /\ owner[reply[w]] = w \/ (pc[w] = "failed" /\ owner[reply[w]] = NoOne)
    BY <2>0, InHand
  <2>a. ASSUME UNCHANGED <<booking, owner, count>>, reply'[w] = reply[w],
               booking[reply[w]] = "unparsable" =>
                 /\ pc'[w] \notin {"publish", "ack"}
                 /\ pc'[w] \in {"deadLetter", "ackDead"} => count[reply[w]] = MaxRetries
        PROVE  Futile'
    BY <2>0, <2>1, <2>a, <1>a DEF Futile, FutileIn
  <2>2. CASE EnqueueCopywriter(w)
    <3>1. pc'[w] \in {"register", "enqueue", "failed"} /\ reply'[w] = reply[w] /\ UNCHANGED tasks
      BY <2>2, EnqueueMoves, FailAttemptMoves
    <3>. QED BY <3>1, <2>a DEF tasks
  <2>3. CASE RegisterAutoSend(w)
    BY <2>3, <2>a, RegisterMoves DEF tasks, Keeps
  <2>4. CASE EnqueueScheduler(w)
    <3>1. reply'[w] = reply[w] /\ UNCHANGED tasks
          /\ (pc'[w] \in {"enqueue", "failed"} \/ booking[reply[w]] = "sound")
      BY <2>4, SchedulerMoves, FailAttemptMoves
    <3>. QED BY <3>1, <2>a DEF tasks
  <2>5. CASE Publish(w)
    <3>1. pc[w] = "publish" /\ reply'[w] = reply[w] /\ UNCHANGED tasks
      BY <2>5, PublishMoves DEF Keeps
    <3>. QED BY <2>1, <3>1, <2>a DEF tasks, Futile, FutileIn
  <2>6. CASE Ack(w)
    <3>1. /\ pc[w] = "ack" /\ UNCHANGED <<booking, count>>
          /\ UNCHANGED owner \/ owner' = [owner EXCEPT ![reply[w]] = NoOne]
          /\ reply'[w] = None \/ (reply'[w] = reply[w] /\ pc'[w] = "failed")
      BY <2>6, AckMoves DEF Keeps
    <3>2. booking[reply[w]] # "unparsable"
      BY <2>1, <3>1 DEF Futile, FutileIn
    <3>. QED BY <2>0, <2>1, <3>1, <3>2, <1>b, <1>c, <2>a
  <2>7. CASE HandleFailure(w)
    <3>1. UNCHANGED tasks /\ (reply'[w] = None \/ (/\ reply'[w] = reply[w] /\ pc'[w] = "deadLetter"
                                                  /\ count[reply[w]] >= MaxRetries))
      BY <2>7, FailureMoves DEF Keeps
    <3>2. count[reply[w]] \in 0 .. MaxRetries
      BY <2>1
    <3>. QED BY <2>0, <3>1, <3>2, <1>b, <2>a DEF tasks
  <2>8. CASE DeadLetter(w)
    <3>1. pc[w] = "deadLetter" /\ pc'[w] = "ackDead" /\ reply'[w] = reply[w] /\ UNCHANGED tasks
      BY <2>8, DeadLetterMoves DEF Keeps
    <3>. QED BY <2>1, <3>1, <2>a DEF tasks, Futile, FutileIn
  <2>9. CASE AckDead(w)
    <3>1. pc[w] = "ackDead" /\ UNCHANGED <<booking, count>> /\ reply'[w] = None
          /\ (UNCHANGED owner \/ owner' = [owner EXCEPT ![reply[w]] = NoOne])
      BY <2>9, AckDeadMoves
    <3>. QED BY <2>0, <2>1, <3>1, <1>b, <1>c
  <2>10. CASE Refuse(w)
    BY <2>10, <2>a, RefuseMoves DEF tasks, Keeps
  <2>. QED BY <1>3, <2>2, <2>3, <2>4, <2>5, <2>6, <2>7, <2>8, <2>9, <2>10 DEF HandleReply
<1>4. ASSUME NEW w \in Worker, HandleAnswer(w)
      PROVE  Futile'
  BY <1>4, <1>b, AnswerStepMoves DEF tasks
<1>5. ASSUME NEW w \in Worker, Terminate(w) \/ Crash(w) \/ Restart(w)
      PROVE  Futile'
  BY <1>5, <1>b, ProcessMoves DEF tasks
<1>6. ASSUME Submit \/ UNCHANGED vars \/ \E c \in Copy : AnswerRequest(c)
      PROVE  UNCHANGED <<booking, owner, count, pc, reply>>
  BY <1>6 DEF Submit, vars, local, tasks, AnswerRequest
<1>. QED BY <1>1, <1>2, <1>3, <1>4, <1>5, <1>6 DEF Next, Step

-----------------------------------------------------------------------------
(* How many texts a reply may still cost.  One that is not futile costs    *)
(* one, and one for each incident, until it is done; a futile one costs as *)
(* many as there are attempts left in the deliveries that are left.        *)
Copies(r) == Cardinality(CopiesOf(r))
Done(r) ==
  Gone(r) \/ \E w \in Worker : reply[w] = r /\ pc[w] \in {"register", "booking", "publish", "ack"}
Modest(r) ==
  booking[r] # "unparsable" =>
    /\ Copies(r) <= 1 + Incidents
    /\ Done(r) \/ Copies(r) <= Incidents

Attempts == HarnessRetries + 1
Most == Attempts * (MaxRetries + Incidents)
Later(r) == MaxRetries - count[r]
Due(r) == IF Later(r) = 0 THEN 1 ELSE Later(r)
Rest(w) ==
  IF pc[w] = "enqueue" THEN Attempts - tries[w]
  ELSE IF pc[w] \in {"register", "booking"} THEN HarnessRetries - tries[w] ELSE 0
Wasteful(r) ==
  booking[r] = "unparsable" =>
    /\ Gone(r) => Copies(r) <= Most
    /\ \A w \in Worker : reply[w] = r => Copies(r) + Rest(w) + Attempts * Later(r) <= Most
    /\ Gone(r) \/ (\E w \in Worker : reply[w] = r) \/ Copies(r) + Attempts * Due(r) <= Most
CopyLedger == \A r \in Reply : Modest(r) /\ Wasteful(r)

LEMMA Products ==
  /\ \A x \in Nat : Attempts * x \in Nat /\ Attempts * (x + 1) = Attempts * x + Attempts
  /\ Attempts * 0 = 0 /\ Attempts * 1 = Attempts /\ Attempts \in Nat /\ Attempts >= 1
BY DEF Attempts

(* Every delivery that is left, and one if none is, is a full round of     *)
(* attempts.                                                               *)
LEMMA Deliveries ==
  ASSUME Types, NEW r \in Reply
  PROVE  /\ Later(r) \in Nat /\ Due(r) \in Nat
         /\ Attempts * Later(r) \in Nat /\ Attempts * Due(r) \in Nat
         /\ Later(r) > 0 => Due(r) = Later(r)
         /\ Attempts * Later(r) <= Attempts * Due(r)
         /\ Attempts * Due(r) <= Attempts * Later(r) + Attempts
<1>1. Later(r) \in Nat
  BY DEF Types, TaskOK, Later
<1>2. CASE Later(r) = 0
  BY <1>1, <1>2, Products DEF Due
<1>3. CASE Later(r) > 0
  BY <1>1, <1>3, Products DEF Due
<1>. QED BY <1>1, <1>2, <1>3

LEMMA DeliveryDue ==
  ASSUME Types, NEW w \in Worker, NEW r \in Reply, DeliverReply(w, r)
  PROVE  /\ Attempts * Later(r)' + Attempts = Attempts * Due(r)
         /\ Attempts * Due(r)' <= Attempts * Due(r)
         /\ \A q \in Reply : q # r => Later(q)' = Later(q) /\ Due(q)' = Due(q)
<1>1. count[r] \in 0 .. MaxRetries /\ count' = [count EXCEPT ![r] = CountUp(@)]
      /\ count \in [Reply -> 0 .. MaxRetries]
  BY DEF Types, TaskOK, DeliverReply
<1>2. \A q \in Reply : q # r => Later(q)' = Later(q) /\ Due(q)' = Due(q)
  BY <1>1 DEF Later, Due
<1>3. CASE count[r] = MaxRetries
  <2>1. Later(r) = 0 /\ Later(r)' = 0 /\ Due(r) = 1 /\ Due(r)' = 1
    BY <1>1, <1>3 DEF CountUp, Later, Due
  <2>2. Attempts * Later(r)' = 0 /\ Attempts * Due(r) = Attempts /\ Attempts * Due(r)' = Attempts
    BY <2>1, Products
  <2>. QED BY <1>2, <2>2, Products
<1>4. CASE count[r] < MaxRetries
  <2>1. Later(r)' \in Nat /\ Due(r) = Later(r)' + 1
    BY <1>1, <1>4 DEF CountUp, Later, Due
  <2>2. Attempts * Due(r) = Attempts * Later(r)' + Attempts
    BY <2>1, Products
  <2>3. Attempts * Due(r)' <= Attempts * Later(r)' + Attempts
    <3>1. CASE Later(r)' = 0
      <4>1. Due(r)' = 1
        BY <3>1 DEF Due
      <4>2. Attempts * Due(r)' = Attempts /\ Attempts * Later(r)' = 0
        BY <3>1, <4>1, Products
      <4>. QED BY <4>2, Products
    <3>2. CASE Later(r)' > 0
      <4>1. Due(r)' = Later(r)'
        BY <3>2 DEF Due
      <4>2. Attempts * Due(r)' = Attempts * Later(r)' /\ Attempts * Later(r)' \in Nat
        BY <2>1, <4>1, Products
      <4>. QED BY <4>2, Products
    <3>. QED BY <2>1, <3>1, <3>2
  <2>. QED BY <1>2, <2>2, <2>3
<1>. QED BY <1>1, <1>3, <1>4

LEMMA Allowance ==
  ASSUME Types, Types'
  PROVE  /\ Incidents \in Nat /\ Most \in Nat
         /\ Incidents' = Incidents => Most' = Most
         /\ Incidents' = Incidents + 1 => Most' = Most + Attempts
<1>1. Incidents \in Nat
  BY DEF Types, BudgetOK, Incidents
<1>2. Most \in Nat
  BY <1>1, Products DEF Most
<1>3. Incidents' = Incidents => Most' = Most
  BY DEF Most
<1>4. ASSUME Incidents' = Incidents + 1
      PROVE  Most' = Most + Attempts
  <2>1. MaxRetries + Incidents \in Nat /\ MaxRetries + Incidents' = (MaxRetries + Incidents) + 1
    BY <1>1, <1>4
  <2>. QED BY <2>1, Products DEF Most
<1>. QED BY <1>1, <1>2, <1>3, <1>4

LEMMA CopiesMoves ==
  ASSUME Types, NEW r
  PROVE  /\ Copies(r) \in Nat
         /\ UNCHANGED requests => Copies(r)' = Copies(r)
         /\ \A q \in Reply : requests' = Append(requests, q) => Copies(r)' = Copies(r) + (IF q = r THEN 1 ELSE 0)
<1>1. requests \in Seq(Reply)
  BY DEF Types, RequestsOK
<1>2. Copies(r) = Cardinality(Occurrences(requests, r)) /\ Copies(r)' = Cardinality(Occurrences(requests', r))
  BY DEF Copies, CopiesOf, Occurrences
<1>3. ASSUME NEW q \in Reply, requests' = Append(requests, q)
      PROVE  Copies(r)' = Copies(r) + (IF q = r THEN 1 ELSE 0)
  BY <1>1, <1>2, <1>3, AppendOccurrence
<1>. QED BY <1>1, <1>2, <1>3, OccurrencesFinite

LEMMA ModestStep ==
  ASSUME Types, NEW r \in Reply, Modest(r), UNCHANGED booking, Incidents \in Nat,
         \/ Copies(r)' = Copies(r) /\ (Done(r) => Done(r)') /\ Incidents' \in {Incidents, Incidents + 1}
         \/ Incidents' = Incidents + 1 /\ (Copies(r)' = Copies(r) \/ (Copies(r)' = Copies(r) + 1 /\ ~Done(r)))
         \/ Incidents' = Incidents /\ Copies(r)' = Copies(r) + 1 /\ ~Done(r) /\ Done(r)'
  PROVE  Modest(r)'
<1>. DEFINE c == Copies(r)
            c1 == Copies(r)'
            i == Incidents
            i1 == Incidents'
            d == Done(r)
            d1 == Done(r)'
<1>. SUFFICES ASSUME booking[r] # "unparsable"
              PROVE  c1 <= 1 + i1 /\ (d1 \/ c1 <= i1)
  BY DEF Modest
<1>1. c \in Nat /\ i \in Nat /\ c <= 1 + i /\ (d \/ c <= i)
  BY CopiesMoves DEF Modest
<1>2. \/ c1 = c /\ (d => d1) /\ (i1 = i \/ i1 = i + 1)
      \/ i1 = i + 1 /\ (c1 = c \/ (c1 = c + 1 /\ ~d))
      \/ i1 = i /\ c1 = c + 1 /\ ~d /\ d1
  OBVIOUS
<1>3. d \in BOOLEAN /\ d1 \in BOOLEAN
  BY DEF Done, Gone
<1>. HIDE DEF c, c1, i, i1, d, d1
<1>. QED BY <1>1, <1>2, <1>3

(* A step that leaves reply r alone.                                       *)
LEMMA Bystander ==
  ASSUME Types, Types', NEW r \in Reply, Modest(r), Wasteful(r), UNCHANGED booking,
         Copies(r)' = Copies(r), Gone(r)' <=> Gone(r), count'[r] = count[r],
         Incidents' \in {Incidents, Incidents + 1},
         NEW w \in Worker, Others(w), reply[w] # r, reply'[w] # r
  PROVE  Modest(r)' /\ Wasteful(r)'
<1>1. \A v \in Worker : /\ reply'[v] = r <=> reply[v] = r
                        /\ reply[v] = r => pc'[v] = pc[v] /\ tries'[v] = tries[v]
  BY DEF Others
<1>2. Done(r)' <=> Done(r)
  BY <1>1 DEF Done
<1>3. Modest(r)'
  BY <1>2, Allowance, ModestStep
<1>4. Most <= Most' /\ Most' \in Nat /\ Most \in Nat
  BY Allowance, Products
<1>5. Wasteful(r)'
  <2>. SUFFICES ASSUME booking[r] = "unparsable"
                PROVE  /\ Gone(r)' => Copies(r)' <= Most'
                       /\ \A v \in Worker : reply'[v] = r =>
                            Copies(r)' + Rest(v)' + Attempts * Later(r)' <= Most'
                       /\ Gone(r)' \/ (\E v \in Worker : reply'[v] = r) \/ Copies(r)' + Attempts * Due(r)' <= Most'
    BY DEF Wasteful
  <2>1. Later(r)' = Later(r) /\ Due(r)' = Due(r) /\ Copies(r) \in Nat
    BY CopiesMoves DEF Later, Due
  <2>2. Attempts * Later(r) \in Nat /\ Attempts * Due(r) \in Nat
    BY Deliveries
  <2>3. Gone(r)' => Copies(r)' <= Most'
    BY <1>4, <2>1 DEF Wasteful
  <2>4. ASSUME NEW v \in Worker, reply'[v] = r
        PROVE  Copies(r)' + Rest(v)' + Attempts * Later(r)' <= Most'
    <3>1. Rest(v)' = Rest(v) /\ Rest(v) \in Int /\ reply[v] = r
      <4>1. tries[v] \in 0 .. HarnessRetries
        BY DEF Types, LocalOK
      <4>. QED BY <1>1, <2>4, <4>1 DEF Rest, Attempts
    <3>2. Copies(r) + Rest(v) + Attempts * Later(r) <= Most
      BY <3>1 DEF Wasteful
    <3>3. Attempts * Later(r)' = Attempts * Later(r)
      BY <2>1
    <3>. DEFINE p == Attempts * Later(r)
                p1 == Attempts * Later(r)'
                m == Most
                m1 == Most'
                c == Copies(r)
                c1 == Copies(r)'
                s == Rest(v)
                s1 == Rest(v)'
    <3>4. /\ p \in Nat /\ p1 = p /\ m \in Nat /\ m1 \in Nat /\ m <= m1 /\ c \in Nat /\ c1 = c
          /\ s \in Int /\ s1 = s /\ c + s + p <= m
      BY <1>4, <2>1, <2>2, <3>1, <3>2, <3>3
    <3>. HIDE DEF p, p1, m, m1, c, c1, s, s1
    <3>5. c1 + s1 + p1 <= m1
      BY <3>4
    <3>. QED BY <3>5 DEF p1, m1, c1, s1
  <2>5. ASSUME ~Gone(r)', ~\E v \in Worker : reply'[v] = r
        PROVE  Copies(r)' + Attempts * Due(r)' <= Most'
    <3>1. Copies(r) + Attempts * Due(r) <= Most
      BY <1>1, <2>5 DEF Wasteful
    <3>2. Attempts * Due(r)' = Attempts * Due(r)
      BY <2>1
    <3>. QED BY <1>4, <2>1, <2>2, <3>1, <3>2
  <2>. QED BY <2>3, <2>4, <2>5
<1>. QED BY <1>3, <1>5

(* The consumer that has r goes on with it.                                *)
LEMMA HoldStep ==
  ASSUME Types, Types', NEW r \in Reply, Wasteful(r), UNCHANGED booking, count'[r] = count[r],
         NEW w \in Worker, Others(w), reply[w] = r, reply'[w] = r, owner'[r] = w,
         \A v \in Worker : reply[v] = r => v = w,
         Incidents' \in {Incidents, Incidents + 1},
         Copies(r)' \in Nat, Rest(w) \in Nat, Rest(w)' \in Nat,
         Copies(r)' + Rest(w)' <= Copies(r) + Rest(w)
  PROVE  Wasteful(r)'
<1>1. Most <= Most' /\ Most' \in Nat /\ Most \in Nat
  BY Allowance, Products
<1>2. \A v \in Worker : reply'[v] = r => v = w
  BY DEF Others
<1>3. ~Gone(r)'
  BY DEF Gone
<1>4. ASSUME booking[r] = "unparsable"
      PROVE  Copies(r)' + Rest(w)' + Attempts * Later(r)' <= Most'
  <2>1. Copies(r) + Rest(w) + Attempts * Later(r) <= Most
    BY <1>4 DEF Wasteful
  <2>2. Later(r)' = Later(r)
    BY DEF Later
  <2>. DEFINE p == Attempts * Later(r)
              p1 == Attempts * Later(r)'
              m == Most
              m1 == Most'
              c == Copies(r)
              c1 == Copies(r)'
              s == Rest(w)
              s1 == Rest(w)'
  <2>3. /\ p \in Nat /\ p1 = p /\ m \in Nat /\ m1 \in Nat /\ m <= m1 /\ c \in Nat /\ c1 \in Nat
        /\ s \in Nat /\ s1 \in Nat /\ c + s + p <= m /\ c1 + s1 <= c + s
    BY <1>1, <2>1, <2>2, Deliveries, CopiesMoves
  <2>. HIDE DEF p, p1, m, m1, c, c1, s, s1
  <2>4. c1 + s1 + p1 <= m1
    BY <2>3
  <2>. QED BY <2>4 DEF p1, m1, c1, s1
<1>. QED BY <1>2, <1>3, <1>4 DEF Wasteful

(* The consumer that has r lets go of it.                                  *)
LEMMA ReleaseStep ==
  ASSUME Types, Types', NEW r \in Reply, Wasteful(r), UNCHANGED booking, count'[r] = count[r],
         NEW w \in Worker, Others(w), reply[w] = r, reply'[w] # r, Copies(r)' = Copies(r),
         \A v \in Worker : reply[v] = r => v = w,
         Rest(w) \in Nat,
         \/ Incidents' = Incidents /\ (Gone(r)' \/ Later(r) > 0 \/ Rest(w) = Attempts)
         \/ Incidents' = Incidents + 1
  PROVE  Wasteful(r)'
<1>1. \A v \in Worker : reply'[v] # r
  BY DEF Others
<1>2. Later(r)' = Later(r) /\ Due(r)' = Due(r) /\ Copies(r) \in Nat
  BY CopiesMoves DEF Later, Due
<1>3. ASSUME booking[r] = "unparsable"
      PROVE  Copies(r)' <= Most' /\ (Gone(r)' \/ Copies(r)' + Attempts * Due(r)' <= Most')
  <2>1. Copies(r) + Rest(w) + Attempts * Later(r) <= Most
    BY <1>3 DEF Wasteful
  <2>2. Attempts * Due(r)' = Attempts * Due(r)
    BY <1>2
  <2>3. Later(r) > 0 => Attempts * Due(r) = Attempts * Later(r)
    BY Deliveries
  <2>. DEFINE p == Attempts * Later(r)
              q == Attempts * Due(r)
              q1 == Attempts * Due(r)'
              a == Attempts
              m == Most
              m1 == Most'
              c == Copies(r)
              c1 == Copies(r)'
              s == Rest(w)
              g == Gone(r)'
  <2>4. /\ p \in Nat /\ q \in Nat /\ q <= p + a /\ q1 = q /\ a \in Nat /\ m \in Nat /\ c \in Nat /\ c1 = c
        /\ s \in Nat /\ c + s + p <= m
        /\ (m1 = m /\ (g \/ q = p \/ s = a)) \/ m1 = m + a
    <3>1. (m1 = m /\ (g \/ q = p \/ s = a)) \/ m1 = m + a
      BY <2>3, Allowance
    <3>2. p \in Nat /\ q \in Nat /\ q <= p + a
      BY Deliveries
    <3>. QED BY <1>2, <2>1, <2>2, <3>1, <3>2, Allowance, Products
  <2>5. g \in BOOLEAN
    BY DEF Gone
  <2>. HIDE DEF p, q, q1, a, m, m1, c, c1, s, g
  <2>6. c1 <= m1 /\ (g \/ c1 + q1 <= m1)
    BY <2>4, <2>5
  <2>. QED BY <2>6 DEF q1, m1, c1, g
<1>. QED BY <1>1, <1>3 DEF Wasteful

LEMMA TaskEffects ==
  ASSUME Types, NEW w \in Worker, HandleReply(w)
  PROVE  /\ UNCHANGED <<booking, cursor, count, crashes>> /\ (UNCHANGED faults \/ Spends)
         /\ UNCHANGED requests \/ requests' = Append(requests, reply[w])
         /\ UNCHANGED owner \/ owner' = [owner EXCEPT ![reply[w]] = NoOne]
         /\ reply'[w] = reply[w] \/ reply'[w] = None
<1>1. CASE EnqueueCopywriter(w)
  BY <1>1, EnqueueMoves DEF tasks
<1>2. CASE RegisterAutoSend(w)
  BY <1>2, RegisterMoves DEF tasks, Keeps
<1>3. CASE EnqueueScheduler(w)
  BY <1>3, SchedulerMoves DEF tasks, Keeps
<1>4. CASE Publish(w)
  BY <1>4, PublishMoves DEF tasks, Keeps
<1>5. CASE Ack(w)
  BY <1>5, AckMoves DEF Keeps
<1>6. CASE HandleFailure(w)
  BY <1>6, FailureMoves DEF tasks, Keeps
<1>7. CASE DeadLetter(w)
  BY <1>7, DeadLetterMoves DEF tasks, Keeps
<1>8. CASE AckDead(w)
  BY <1>8, AckDeadMoves
<1>9. CASE Refuse(w)
  BY <1>9, RefuseMoves DEF tasks, Keeps
<1>. QED BY <1>1, <1>2, <1>3, <1>4, <1>5, <1>6, <1>7, <1>8, <1>9 DEF HandleReply

LEMMA SpentOrNot ==
  ASSUME Types, Types', UNCHANGED crashes
  PROVE  /\ UNCHANGED faults => Incidents' = Incidents
         /\ Spends => Incidents' = Incidents + 1
         /\ Incidents \in Nat
BY DEF Incidents, Spends, Types, BudgetOK

(* What handling a reply does to that reply's own ledger.                  *)
LEMMA OwnModest ==
  ASSUME Types, Types', Owned, NEW w \in Worker, HandleReply(w),
         NEW r \in Reply, reply[w] = r, Modest(r), booking[r] # "unparsable"
  PROVE  Modest(r)'
<1>0. pc[w] \in TaskStep /\ Others(w)
  BY ReplyMoves
<1>1. r # None /\ r <= cursor /\ (owner[r] = w \/ (pc[w] = "failed" /\ owner[r] = NoOne))
  BY <1>0, InHand
<1>2. owner[r] = w => \A v \in Worker : reply[v] = r => v = w
  BY Sole
<1>3. UNCHANGED <<booking, cursor, count, crashes>> /\ Incidents \in Nat
  BY TaskEffects, Allowance
<1>4. (UNCHANGED faults => Incidents' = Incidents) /\ (Spends => Incidents' = Incidents + 1)
  BY <1>3, SpentOrNot
<1>5. pc[w] \notin {"register", "booking", "publish", "ack"} => (Done(r) => Gone(r))
  BY <1>1, <1>2 DEF Done, Gone
<1>6. pc[w] # "failed" => ~Gone(r)
  BY <1>1 DEF Gone
<1>7. UNCHANGED owner => Gone(r)' = Gone(r)
  BY <1>3 DEF Gone
<1>8. reply'[w] = r /\ pc'[w] \in {"register", "booking", "publish", "ack"} => Done(r)'
  BY DEF Done
<1>9. owner' = [owner EXCEPT ![r] = NoOne] => Done(r)'
  BY <1>1, <1>3 DEF Types, TaskOK, Done, Gone
<1>a. Gone(r)' => Done(r)'
  BY DEF Done
<1>b. /\ UNCHANGED requests => Copies(r)' = Copies(r)
      /\ requests' = Append(requests, r) => Copies(r)' = Copies(r) + 1
  BY CopiesMoves
<1>c. ASSUME UNCHANGED requests, Done(r) => Done(r)', UNCHANGED faults \/ Spends
      PROVE  Modest(r)'
  BY <1>3, <1>4, <1>b, <1>c, ModestStep
<1>d. ASSUME UNCHANGED requests \/ (requests' = Append(requests, r) /\ ~Done(r)), Spends
      PROVE  Modest(r)'
  BY <1>3, <1>4, <1>b, <1>d, ModestStep
<1>10. CASE EnqueueCopywriter(w)
  <2>1. pc[w] = "enqueue" /\ reply'[w] = r
    BY <1>10, EnqueueMoves
  <2>2. ~Done(r)
    BY <2>1, <1>5, <1>6
  <2>3. CASE requests' = Append(requests, r) /\ UNCHANGED faults /\ pc'[w] = "register"
    <3>1. Done(r)' /\ Copies(r)' = Copies(r) + 1 /\ Incidents' = Incidents
      BY <2>1, <2>3, <1>4, <1>8, <1>b
    <3>. QED BY <1>3, <2>2, <3>1, ModestStep
  <2>4. CASE (requests' = Append(requests, r) \/ UNCHANGED requests) /\ Spends
    BY <2>2, <2>4, <1>d
  <2>. QED BY <1>10, <2>3, <2>4, EnqueueMoves
<1>11. CASE RegisterAutoSend(w)
  <2>1. reply'[w] = r /\ pc'[w] \in {"booking", "publish"} /\ UNCHANGED requests /\ (UNCHANGED faults \/ Spends)
    BY <1>11, RegisterMoves DEF Keeps
  <2>. QED BY <2>1, <1>8, <1>c
<1>12. CASE EnqueueScheduler(w)
  <2>1. reply'[w] = r /\ UNCHANGED requests /\ (Spends \/ (UNCHANGED faults /\ pc'[w] = "publish"))
    BY <1>12, SchedulerMoves
  <2>. QED BY <2>1, <1>8, <1>c, <1>d
<1>13. CASE Publish(w)
  <2>1. reply'[w] = r /\ UNCHANGED requests /\ (Spends \/ (UNCHANGED faults /\ pc'[w] = "ack"))
    BY <1>13, PublishMoves DEF Keeps
  <2>. QED BY <2>1, <1>8, <1>c, <1>d
<1>14. CASE Ack(w)
  <2>1. UNCHANGED requests /\ (Spends \/ (UNCHANGED faults /\ owner' = [owner EXCEPT ![r] = NoOne]))
    BY <1>14, AckMoves
  <2>. QED BY <2>1, <1>9, <1>c, <1>d
<1>15. CASE HandleFailure(w)
  <2>1. pc[w] = "failed" /\ UNCHANGED <<requests, owner>> /\ (UNCHANGED faults \/ Spends)
    BY <1>15, FailureMoves DEF tasks
  <2>2. Done(r) => Done(r)'
    BY <2>1, <1>5, <1>7, <1>a
  <2>. QED BY <2>1, <2>2, <1>c
<1>16. CASE DeadLetter(w) \/ AckDead(w) \/ Refuse(w)
  <2>1. pc[w] \in {"deadLetter", "ackDead", "enqueue"} /\ UNCHANGED requests /\ (UNCHANGED faults \/ Spends)
    BY <1>16, DeadLetterMoves, AckDeadMoves, RefuseMoves
  <2>2. ~Done(r)
    BY <2>1, <1>5, <1>6
  <2>. QED BY <2>1, <2>2, <1>c
<1>. QED BY <1>10, <1>11, <1>12, <1>13, <1>14, <1>15, <1>16 DEF HandleReply

LEMMA OwnWasteful ==
  ASSUME Types, Types', Owned, Futile, NEW w \in Worker, HandleReply(w),
         NEW r \in Reply, reply[w] = r, Wasteful(r), booking[r] = "unparsable"
  PROVE  Wasteful(r)'
<1>0. pc[w] \in TaskStep /\ Others(w)
  BY ReplyMoves
<1>1. /\ r # None /\ r <= cursor /\ owner[r] = w /\ pc[w] \notin {"publish", "ack"}
      /\ pc[w] \in {"deadLetter", "ackDead"} => count[r] = MaxRetries
  BY <1>0, InHand DEF Futile, FutileIn
<1>2. \A v \in Worker : reply[v] = r => v = w
  BY <1>1, Sole
<1>3. /\ UNCHANGED <<booking, cursor, count, crashes>> /\ tries[w] \in 0 .. HarnessRetries
      /\ Incidents' \in {Incidents, Incidents + 1}
  BY <1>0, TaskEffects, SpentOrNot, Handled
<1>4. Spends => Incidents' = Incidents + 1
  BY <1>3, SpentOrNot
<1>5. Copies(r) \in Nat /\ Rest(w) \in Nat
  BY <1>3, CopiesMoves DEF Rest, Attempts
<1>6. /\ UNCHANGED requests => Copies(r)' = Copies(r)
      /\ requests' = Append(requests, r) => Copies(r)' = Copies(r) + 1
  BY CopiesMoves
<1>a. ASSUME UNCHANGED owner, reply'[w] = r, Rest(w)' \in Nat, Copies(r)' \in Nat,
             Copies(r)' + Rest(w)' <= Copies(r) + Rest(w)
      PROVE  Wasteful(r)'
  BY <1>0, <1>1, <1>2, <1>3, <1>5, <1>a, HoldStep
<1>7. CASE EnqueueCopywriter(w)
  <2>1. pc[w] = "enqueue" /\ reply'[w] = r /\ UNCHANGED owner /\ Rest(w) = Attempts - tries[w]
        /\ (UNCHANGED requests \/ requests' = Append(requests, r))
    BY <1>7, EnqueueMoves DEF tasks, Rest
  <2>2. Copies(r)' \in Nat /\ Copies(r)' <= Copies(r) + 1
    BY <2>1, <1>5, <1>6
  <2>3. Rest(w)' \in Nat /\ Rest(w)' + 1 = Rest(w)
    <3>1. CASE pc'[w] = "register" /\ tries'[w] = tries[w]
      BY <1>3, <2>1, <3>1 DEF Rest, Attempts
    <3>2. CASE FailAttempt(w)
      <4>1. \/ tries[w] < HarnessRetries /\ pc'[w] = "enqueue" /\ tries'[w] = tries[w] + 1
            \/ tries[w] = HarnessRetries /\ pc'[w] = "failed" /\ tries'[w] = tries[w]
        BY <3>2, FailAttemptMoves
      <4>2. CASE pc'[w] = "enqueue" /\ tries[w] < HarnessRetries /\ tries'[w] = tries[w] + 1
        <5>1. Rest(w)' = Attempts - (tries[w] + 1)
          BY <4>2 DEF Rest, Attempts
        <5>. QED BY <1>3, <2>1, <4>2, <5>1 DEF Attempts
      <4>3. CASE pc'[w] = "failed" /\ tries[w] = HarnessRetries
        <5>1. Rest(w)' = 0
          BY <4>3 DEF Rest
        <5>. QED BY <1>3, <2>1, <4>3, <5>1 DEF Attempts
      <4>. QED BY <4>1, <4>2, <4>3
    <3>. QED BY <1>7, <3>1, <3>2, EnqueueMoves
  <2>4. Copies(r)' + Rest(w)' <= Copies(r) + Rest(w)
    BY <1>5, <2>2, <2>3
  <2>. QED BY <2>1, <2>2, <2>3, <2>4, <1>a
<1>8. CASE RegisterAutoSend(w)
  <2>1. /\ pc[w] = "register" /\ reply'[w] = r /\ UNCHANGED <<owner, requests>> /\ tries'[w] = tries[w]
        /\ pc'[w] = "booking"
    BY <1>8, RegisterMoves DEF tasks, Keeps
  <2>2. Rest(w)' = Rest(w) /\ Copies(r)' = Copies(r)
    BY <2>1, <1>6 DEF Rest
  <2>. QED BY <2>1, <2>2, <1>5, <1>a
<1>9. CASE EnqueueScheduler(w)
  <2>1. pc[w] = "booking" /\ reply'[w] = r /\ UNCHANGED <<owner, requests>> /\ FailAttempt(w)
    BY <1>9, SchedulerMoves DEF tasks
  <2>2. \/ tries[w] < HarnessRetries /\ pc'[w] = "enqueue" /\ tries'[w] = tries[w] + 1
        \/ tries[w] = HarnessRetries /\ pc'[w] = "failed" /\ tries'[w] = tries[w]
    BY <2>1, FailAttemptMoves
  <2>3. Rest(w)' = Rest(w) /\ Copies(r)' = Copies(r)
    BY <1>3, <2>1, <2>2, <1>6 DEF Rest, Attempts
  <2>. QED BY <2>1, <2>3, <1>5, <1>a
<1>10. CASE Publish(w) \/ Ack(w)
  BY <1>1, <1>10, PublishMoves, AckMoves
<1>11. CASE HandleFailure(w)
  <2>1. pc[w] = "failed" /\ UNCHANGED <<owner, requests>>
    BY <1>11, FailureMoves DEF tasks
  <2>2. CASE pc'[w] = "deadLetter" /\ reply'[w] = r
    <3>1. Rest(w)' = 0 /\ Rest(w) = 0 /\ Copies(r)' = Copies(r)
      BY <2>1, <2>2, <1>6 DEF Rest
    <3>. QED BY <2>1, <2>2, <3>1, <1>5, <1>a
  <2>3. CASE reply'[w] = None /\ (Spends \/ (~(count[r] >= MaxRetries) /\ UNCHANGED faults))
    <3>1. Later(r) > 0 \/ Spends
      <4>1. count[r] \in 0 .. MaxRetries
        BY DEF Types, TaskOK
      <4>. QED BY <2>3, <4>1 DEF Later
    <3>2. UNCHANGED faults => Incidents' = Incidents
      BY <1>3, SpentOrNot
    <3>3. Copies(r)' = Copies(r) /\ reply'[w] # r
      BY <2>1, <2>3, <1>1, <1>6
    <3>. QED BY <1>0, <1>2, <1>3, <1>4, <1>5, <2>3, <3>1, <3>2, <3>3, ReleaseStep
  <2>. QED BY <1>1, <1>11, <2>2, <2>3, FailureMoves DEF Keeps
<1>12. CASE DeadLetter(w)
  <2>1. pc[w] = "deadLetter" /\ pc'[w] = "ackDead" /\ reply'[w] = r /\ UNCHANGED <<owner, requests>>
    BY <1>12, DeadLetterMoves DEF tasks, Keeps
  <2>2. Rest(w)' = 0 /\ Rest(w) = 0 /\ Copies(r)' = Copies(r)
    BY <2>1, <1>6 DEF Rest
  <2>. QED BY <2>1, <2>2, <1>5, <1>a
<1>13. CASE AckDead(w)
  <2>1. reply'[w] = None /\ UNCHANGED requests /\ (Spends \/ owner' = [owner EXCEPT ![r] = NoOne])
    BY <1>13, AckDeadMoves
  <2>2. Gone(r)' \/ Spends
    BY <2>1, <1>1, <1>3 DEF Gone, Types, TaskOK
  <2>3. Copies(r)' = Copies(r) /\ reply'[w] # r
    BY <2>1, <1>1, <1>6
  <2>. QED BY <1>0, <1>2, <1>3, <1>4, <1>5, <2>2, <2>3, ReleaseStep
<1>14. CASE Refuse(w)
  <2>1. pc'[w] = "failed" /\ reply'[w] = r /\ UNCHANGED <<owner, requests>>
    BY <1>14, RefuseMoves DEF tasks, Keeps
  <2>2. Rest(w)' = 0 /\ Copies(r)' = Copies(r)
    BY <2>1, <1>6 DEF Rest
  <2>3. Rest(w)' \in Nat /\ Copies(r)' + Rest(w)' <= Copies(r) + Rest(w)
    BY <2>2, <1>5
  <2>. QED BY <2>1, <2>2, <2>3, <1>5, <1>a
<1>. QED BY <1>7, <1>8, <1>9, <1>10, <1>11, <1>12, <1>13, <1>14 DEF HandleReply

LEMMA StepCopyLedger ==
  ASSUME Types, Types', Owned, Futile, NEW r \in Reply, Modest(r), Wasteful(r), [Next]_vars
  PROVE  Modest(r)' /\ Wasteful(r)'
<1>. r # None
  OBVIOUS
<1>. owner \in [Reply -> Worker \cup {NoOne}] /\ cursor \in Nat
  BY DEF Types, TaskOK
<1>c. UNCHANGED requests => Copies(r)' = Copies(r)
  BY CopiesMoves
<1>a. ASSUME NEW w \in Worker, Others(w), reply[w] # r, reply'[w] # r, UNCHANGED <<tasks, requests>>,
             \/ UNCHANGED crashes /\ (UNCHANGED faults \/ Spends)
             \/ crashes' = crashes + 1 /\ UNCHANGED faults
      PROVE  Modest(r)' /\ Wasteful(r)'
  <2>1. UNCHANGED booking /\ count'[r] = count[r] /\ (Gone(r)' <=> Gone(r))
    BY <1>a DEF tasks, Gone
  <2>2. Incidents' \in {Incidents, Incidents + 1}
    <3>1. faults \in Nat /\ crashes \in Nat
      BY DEF Types, BudgetOK
    <3>. QED BY <1>a, <3>1 DEF Incidents, Spends
  <2>. QED BY <1>a, <1>c, <2>1, <2>2, Bystander
<1>1. CASE UNCHANGED <<booking, cursor, owner, count, requests, pc, reply, tries, faults, crashes>>
  <2>1. Copies(r)' = Copies(r) /\ Incidents' = Incidents /\ Incidents \in Nat
    BY <1>1, <1>c, Allowance DEF Incidents
  <2>2. (Gone(r)' <=> Gone(r)) /\ Most' = Most /\ Later(r)' = Later(r) /\ Due(r)' = Due(r)
    BY <1>1 DEF Gone, Most, Incidents, Later, Due
  <2>3. Done(r)' <=> Done(r)
    BY <1>1, <2>2 DEF Done
  <2>4. \A w \in Worker : Rest(w)' = Rest(w) /\ reply'[w] = reply[w]
    BY <1>1 DEF Rest
  <2>5. Modest(r)'
    BY <1>1, <2>1, <2>3 DEF Modest
  <2>6. Wasteful(r)'
    BY <1>1, <2>1, <2>2, <2>4 DEF Wasteful
  <2>. QED BY <2>5, <2>6
<1>2. ASSUME NEW w \in Worker, ReadNew(w) \/ ReadHistory(w)
      PROVE  Modest(r)' /\ Wasteful(r)'
  <2>0. Others(w) /\ reply[w] = None /\ UNCHANGED <<booking, requests, crashes>>
    BY <1>2, ReadMoves
  <2>1. Copies(r)' = Copies(r) /\ Copies(r) \in Nat
    BY <2>0, CopiesMoves
  <2>2. CASE UNCHANGED <<cursor, owner, count>> /\ reply'[w] = None /\ (UNCHANGED faults \/ Spends)
    <3>1. count'[r] = count[r] /\ (Gone(r)' <=> Gone(r)) /\ Incidents' \in {Incidents, Incidents + 1}
      BY <2>0, <2>2, SpentOrNot DEF Gone
    <3>. QED BY <2>0, <2>1, <2>2, <3>1, Bystander
  <2>3. ASSUME NEW q \in Reply, DeliverReply(w, q),
               \/ owner[q] = w /\ UNCHANGED cursor
               \/ q = cursor + 1 /\ cursor' = q,
               \/ pc'[w] = "enqueue" /\ reply'[w] = q /\ tries'[w] = 0 /\ UNCHANGED faults
               \/ reply'[w] = None /\ Spends
        PROVE  Modest(r)' /\ Wasteful(r)'
    <3>1. owner' = [owner EXCEPT ![q] = w] /\ w # NoOne
      BY <2>3 DEF DeliverReply
    <3>2. Incidents' \in {Incidents, Incidents + 1} /\ (UNCHANGED faults => Incidents' = Incidents)
          /\ (Spends => Incidents' = Incidents + 1) /\ Incidents \in Nat
      BY <2>0, <2>3, SpentOrNot
    <3>3. CASE q # r
      <4>1. count'[r] = count[r]
        BY <2>3, <3>3 DEF DeliverReply
      <4>2. Gone(r)' <=> Gone(r)
        BY <2>3, <3>1, <3>3 DEF Gone
      <4>. QED BY <2>0, <2>1, <2>3, <3>2, <3>3, <4>1, <4>2, Bystander
    <3>4. CASE q = r
      <4>1. ~Gone(r)
        BY <2>3, <3>1, <3>4 DEF Gone
      <4>2. \A v \in Worker : reply[v] # r
        <5>1. CASE owner[r] = w
          BY <5>1, <2>0, Sole
        <5>2. CASE r = cursor + 1
          BY <5>2 DEF Owned
        <5>. QED BY <2>3, <3>4, <5>1, <5>2
      <4>3. ~Gone(r)' /\ ~Done(r)
        BY <3>1, <3>4, <4>1, <4>2 DEF Gone, Done
      <4>4. Modest(r)'
        BY <2>0, <2>1, <3>2, <4>3, ModestStep
      <4>5. \A v \in Worker : reply'[v] = r => v = w
        BY <2>0, <4>2 DEF Others
      <4>6. ASSUME booking[r] = "unparsable"
            PROVE  /\ reply'[w] = r => Copies(r)' + Rest(w)' + Attempts * Later(r)' <= Most'
                   /\ reply'[w] # r => Copies(r)' + Attempts * Due(r)' <= Most'
        <5>1. Copies(r) + Attempts * Due(r) <= Most
          BY <4>1, <4>2, <4>6 DEF Wasteful
        <5>2. /\ Attempts * Later(r)' + Attempts = Attempts * Due(r)
              /\ Attempts * Due(r)' <= Attempts * Due(r)
          BY <2>3, <3>4, DeliveryDue
        <5>3. reply'[w] = r => Rest(w)' = Attempts /\ Most' = Most
          <6>. HAVE reply'[w] = r
          <6>1. pc'[w] = "enqueue" /\ tries'[w] = 0 /\ UNCHANGED faults
            BY <2>3
          <6>2. Rest(w)' = Attempts
            BY <6>1, Products DEF Rest
          <6>. QED BY <3>2, <6>1, <6>2, Allowance
        <5>4. Most <= Most' /\ Most \in Nat /\ Most' \in Nat
          BY <3>2, Allowance, Products
        <5>5. Attempts * Later(r)' \in Nat /\ Attempts * Due(r)' \in Nat
          <6>1. Later(r)' \in Nat /\ Due(r)' \in Nat
            <7>1. count'[r] \in 0 .. MaxRetries /\ MaxRetries \in Nat
              BY DEF Types, TaskOK
            <7>. QED BY <7>1 DEF Later, Due
          <6>. QED BY <6>1, Products
        <5>. DEFINE p == Attempts * Later(r)'
                    q0 == Attempts * Due(r)
                    q1 == Attempts * Due(r)'
                    a == Attempts
                    m == Most
                    m1 == Most'
                    c == Copies(r)
                    c1 == Copies(r)'
                    s1 == Rest(w)'
                    here == reply'[w] = r
        <5>6. /\ p \in Nat /\ q1 \in Nat /\ a \in Nat /\ m \in Nat /\ m1 \in Nat /\ c \in Nat /\ c1 = c
              /\ p + a = q0 /\ q1 <= q0 /\ c + q0 <= m /\ m <= m1
              /\ here => s1 = a /\ m1 = m
          BY <2>1, <5>1, <5>2, <5>3, <5>4, <5>5, Products
        <5>. HIDE DEF p, q0, q1, a, m, m1, c, c1, s1, here
        <5>7. (here => c1 + s1 + p <= m1) /\ (~here => c1 + q1 <= m1)
          BY <5>6
        <5>. QED BY <5>7 DEF p, q1, m1, c1, s1, here
      <4>. QED BY <2>0, <4>3, <4>4, <4>5, <4>6 DEF Wasteful
    <3>. QED BY <3>3, <3>4
  <2>. QED BY <1>2, <2>2, <2>3, ReadMoves
<1>3. ASSUME NEW w \in Worker, HandleReply(w)
      PROVE  Modest(r)' /\ Wasteful(r)'
  <2>0. pc[w] \in TaskStep /\ Others(w)
    BY <1>3, ReplyMoves
  <2>1. reply[w] \in Reply
    BY <2>0, InHand
  <2>2. /\ UNCHANGED <<booking, cursor, count, crashes>> /\ (UNCHANGED faults \/ Spends)
        /\ UNCHANGED requests \/ requests' = Append(requests, reply[w])
        /\ UNCHANGED owner \/ owner' = [owner EXCEPT ![reply[w]] = NoOne]
        /\ reply'[w] = reply[w] \/ reply'[w] = None
    BY <1>3, TaskEffects
  <2>3. CASE reply[w] # r
    <3>1. Copies(r)' = Copies(r)
      BY <2>1, <2>2, <2>3, CopiesMoves
    <3>2. count'[r] = count[r] /\ owner'[r] = owner[r]
      BY <2>1, <2>2, <2>3
    <3>3. Gone(r)' <=> Gone(r)
      BY <2>2, <3>2 DEF Gone
    <3>4. Incidents' \in {Incidents, Incidents + 1}
      BY <2>2, SpentOrNot
    <3>5. reply'[w] # r
      BY <2>2, <2>3
    <3>. QED BY <2>0, <2>2, <2>3, <3>1, <3>2, <3>3, <3>4, <3>5, Bystander
  <2>4. CASE reply[w] = r
    <3>1. booking[r] # "unparsable" => Modest(r)' /\ Wasteful(r)'
      BY <1>3, <2>2, <2>4, OwnModest DEF Wasteful
    <3>2. booking[r] = "unparsable" => Modest(r)' /\ Wasteful(r)'
      BY <1>3, <2>2, <2>4, OwnWasteful DEF Modest
    <3>. QED BY <3>1, <3>2
  <2>. QED BY <2>3, <2>4
<1>4. ASSUME NEW w \in Worker, HandleAnswer(w)
      PROVE  Modest(r)' /\ Wasteful(r)'
  BY <1>4, <1>a, AnswerStepMoves
<1>5. ASSUME NEW w \in Worker, Terminate(w) \/ Crash(w) \/ Restart(w)
      PROVE  Modest(r)' /\ Wasteful(r)'
  <2>1. /\ Others(w) /\ reply'[w] = None /\ UNCHANGED <<tasks, requests, faults>>
        /\ \/ UNCHANGED crashes /\ (reply[w] = None \/ (pc[w] = "enqueue" /\ tries[w] = 0))
           \/ crashes' = crashes + 1
    BY <1>5, ProcessMoves
  <2>2. CASE reply[w] # r
    BY <2>1, <2>2, <1>a
  <2>3. CASE reply[w] = r
    <3>1. UNCHANGED <<booking, cursor, owner, count>>
      BY <2>1 DEF tasks
    <3>2. Copies(r)' = Copies(r) /\ Copies(r) \in Nat
      BY <2>1, CopiesMoves
    <3>3. pc[w] \in TaskStep
      BY <2>3 DEF Types, LocalOK
    <3>4. tries[w] \in 0 .. HarnessRetries
      BY <3>3, Handled
    <3>5. /\ owner[r] = w \/ (pc[w] = "failed" /\ owner[r] = NoOne)
          /\ owner[r] = w => \A v \in Worker : reply[v] = r => v = w
      BY <2>3, <3>3, InHand, Sole
    <3>6. (UNCHANGED crashes => Incidents' = Incidents) /\ (crashes' = crashes + 1 => Incidents' = Incidents + 1)
          /\ Incidents \in Nat
      <4>1. faults \in Nat /\ crashes \in Nat /\ faults' = faults
        BY <2>1 DEF Types, BudgetOK
      <4>2. \A i, j \in Nat : i + (j + 1) = (i + j) + 1 /\ i + j \in Nat
        OBVIOUS
      <4>. QED BY <4>1, <4>2 DEF Incidents
    <3>7. Modest(r)'
      <4>1. CASE crashes' = crashes + 1
        BY <3>1, <3>2, <3>6, <4>1, ModestStep
      <4>2. CASE UNCHANGED crashes /\ pc[w] = "enqueue"
        <5>1. ~Done(r)
          BY <3>5, <4>2 DEF Done, Gone
        <5>. QED BY <3>1, <3>2, <3>6, <4>2, <5>1, ModestStep
      <4>. QED BY <2>1, <2>3, <4>1, <4>2
    <3>8. ASSUME booking[r] = "unparsable"
          PROVE  Wasteful(r)'
      <4>1. owner[r] = w
        BY <2>3, <3>8 DEF Futile, FutileIn
      <4>2. Rest(w) \in Nat /\ (pc[w] = "enqueue" /\ tries[w] = 0 => Rest(w) = Attempts)
        <5>1. Attempts \in Nat /\ HarnessRetries \in Nat /\ Attempts = HarnessRetries + 1
          BY Products DEF Attempts
        <5>2. Attempts - tries[w] \in Nat /\ HarnessRetries - tries[w] \in Nat
          BY <3>4, <5>1
        <5>3. tries[w] = 0 => Attempts - tries[w] = Attempts
          BY <5>1
        <5>. QED BY <5>2, <5>3 DEF Rest
      <4>3. count'[r] = count[r] /\ reply'[w] # r
        BY <2>1, <3>1
      <4>4. \/ Incidents' = Incidents /\ Rest(w) = Attempts
            \/ Incidents' = Incidents + 1
        BY <2>1, <2>3, <3>6, <4>2
      <4>. QED BY <2>1, <2>3, <3>1, <3>2, <3>5, <4>1, <4>2, <4>3, <4>4, ReleaseStep
    <3>. QED BY <3>1, <3>7, <3>8 DEF Wasteful
  <2>. QED BY <2>2, <2>3
<1>6. ASSUME Submit \/ UNCHANGED vars \/ \E c \in Copy : AnswerRequest(c)
      PROVE  UNCHANGED <<booking, cursor, owner, count, requests, pc, reply, tries, faults, crashes>>
  BY <1>6 DEF Submit, vars, local, tasks, texts, budget, AnswerRequest
<1>. QED BY <1>1, <1>2, <1>3, <1>4, <1>5, <1>6 DEF Next, Step

Copying == Types /\ Owned /\ Futile /\ CopyLedger

LEMMA InitCopying == Init => Copying
<1>. SUFFICES ASSUME Init PROVE Copying
  OBVIOUS
<1>1. Types
  BY InitTypes
<1>2. Owned /\ Futile
  BY DEF Init, Owned, Futile, FutileIn
<1>3. ASSUME NEW r \in Reply
      PROVE  Modest(r) /\ Wasteful(r)
  <2>1. Copies(r) = 0
    <3>1. CopiesOf(r) = {}
      BY DEF Init, CopiesOf
    <3>. QED BY <3>1, FS_EmptySet DEF Copies
  <2>2. Incidents = 0 /\ Later(r) = MaxRetries /\ Due(r) = MaxRetries
    BY DEF Init, Incidents, Later, Due
  <2>3. Most = Attempts * Due(r) /\ Most \in Nat
    <3>1. MaxRetries + Incidents = Due(r) /\ Due(r) \in Nat
      BY <2>2
    <3>. QED BY <3>1, Products DEF Most
  <2>4. \A w \in Worker : reply[w] # r
    BY DEF Init
  <2>. QED BY <2>1, <2>2, <2>3, <2>4 DEF Modest, Wasteful
<1>. QED BY <1>1, <1>2, <1>3 DEF Copying, CopyLedger

(* A reply is written again only after a raised call or a crash, once for  *)
(* each, and a reply whose booking time does not parse in every attempt of *)
(* every delivery and no more (_enqueue_copywriter before                  *)
(* _enqueue_scheduler, under the harness and the pending list).            *)
THEOREM RewritingIsPaidFor == Spec => []CopiesPaidFor
<1>1. Copying /\ [Next]_vars => Copying'
  <2>. SUFFICES ASSUME Copying, [Next]_vars PROVE Copying'
    OBVIOUS
  <2>1. Types /\ Types'
    BY StepTypes DEF Copying
  <2>2. Owned' /\ Futile'
    BY <2>1, StepOwned, StepFutile DEF Copying
  <2>3. CopyLedger'
    BY <2>1, StepCopyLedger DEF Copying, CopyLedger
  <2>. QED BY <2>1, <2>2, <2>3 DEF Copying
<1>2. Copying => CopiesPaidFor
  <2>. SUFFICES ASSUME Copying, NEW r \in Reply
                PROVE  Copies(r) <= (IF booking[r] = "unparsable" THEN HarnessRetries + 1 ELSE 1)
                                    * ((IF booking[r] = "unparsable" THEN MaxRetries ELSE 1) + Incidents)
    BY DEF CopiesPaidFor, Copies
  <2>1. /\ Types /\ Modest(r) /\ Wasteful(r) /\ Copies(r) \in Nat
        /\ Attempts * Later(r) \in Nat /\ Attempts * Due(r) \in Nat /\ Incidents \in Nat
    BY CopiesMoves, Deliveries DEF Copying, CopyLedger, Types, BudgetOK, Incidents
  <2>2. CASE booking[r] # "unparsable"
    BY <2>1, <2>2 DEF Modest
  <2>3. CASE booking[r] = "unparsable"
    <3>1. \A w \in Worker : Rest(w) \in Nat
      BY <2>1 DEF Rest, Attempts, Types, LocalOK
    <3>2. Most \in Nat
      BY <2>1, Products DEF Most
    <3>3. Copies(r) <= Most
      <4>1. CASE Gone(r)
        BY <2>1, <2>3, <4>1 DEF Wasteful
      <4>2. ASSUME NEW w \in Worker, reply[w] = r
            PROVE  Copies(r) <= Most
        <5>1. Copies(r) + Rest(w) + Attempts * Later(r) <= Most
          BY <2>1, <2>3, <4>2 DEF Wasteful
        <5>. QED BY <2>1, <3>1, <3>2, <5>1
      <4>3. CASE ~Gone(r) /\ ~\E w \in Worker : reply[w] = r
        <5>1. Copies(r) + Attempts * Due(r) <= Most
          BY <2>1, <2>3, <4>3 DEF Wasteful
        <5>. QED BY <2>1, <3>2, <5>1
      <4>. QED BY <4>1, <4>2, <4>3
    <3>. QED BY <2>3, <3>3 DEF Most, Attempts
  <2>. QED BY <2>2, <2>3
<1>. QED BY InitCopying, <1>1, <1>2, PTL DEF Spec
=============================================================================
