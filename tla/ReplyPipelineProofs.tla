------------------------ MODULE ReplyPipelineProofs ------------------------
(***************************************************************************)
(* What the Manager and the Leads orchestrator make of an inbound email,   *)
(* for any emails, routing maps, windows, deliveries and mishaps: each     *)
(* copy beyond the first was paid for, what is acknowledged was handled,   *)
(* and a known sender is taken for a new one only for a reason.            *)
(*                                                                         *)
(* The argument is a ledger.  Each time the Manager plans, and each time   *)
(* Leads stores an email, an execution is used up; entries that wait, or   *)
(* are in hand before that point, still have theirs to come; a mishap      *)
(* pays for the execution that follows it, and there is one to begin with. *)
(***************************************************************************)
EXTENDS ReplyPipeline, FiniteSetTheorems, TLAPS

Idle == {"read", "take", "down"}

QueueOK == entry \in [Job -> State] /\ tries \in [Job -> Nat] /\ triage \subseteq Task
ResultsOK == results \in [{"inbound", "leads"} -> Seq(Answer)]
AnswersOK == queries \in Nat /\ answers \in Seq(RagAnswer)
WorkOK ==
  outbound \in [Email -> Nat] /\ stored \in [Email -> Nat] /\ promoted \in [Email -> Nat]
Fit(c) ==
  /\ cur[c] = NoJob <=> pc[c] \in Idle
  /\ \A j \in todo[c] \cup ({cur[c]} \ {NoJob}) : Owner(j) = c
LoopOK ==
  /\ pc \in [Service -> Location] /\ todo \in [Service -> SUBSET Job]
  /\ cur \in [Service -> Job \cup {NoJob}]
  /\ \A c \in Service : Fit(c)
WaitOK == packing \in BOOLEAN /\ context \in Place /\ dollar \in BOOLEAN /\ from \in Nat
HistoryOK ==
  /\ gaveUp \subseteq Task
  /\ unheard \subseteq Email /\ late \subseteq Email /\ misled \subseteq Email
  /\ dropped \subseteq Email /\ strays \subseteq Email
ChargedOK == spent \in [Email -> Nat] /\ mishaps \in 0 .. MaxMishaps
Types ==
  /\ routing \in Routing /\ runs \in [Email -> Nat] /\ foreign \in Nat
  /\ QueueOK /\ ResultsOK /\ AnswersOK /\ WorkOK /\ LoopOK /\ WaitOK /\ HistoryOK /\ ChargedOK

LEMMA TypeParts == Types => TypeOK
BY DEF Types, QueueOK, ResultsOK, AnswersOK, WorkOK, LoopOK, Fit, WaitOK, HistoryOK, ChargedOK, TypeOK, Idle

(* Jobs are pairs of an email and a number.                                *)
LEMMA Jobs ==
  /\ \A e \in Email : \A n \in Run : <<e, n>> \in Job /\ <<e, n>>[1] = e /\ <<e, n>>[2] = n
  /\ \A j \in Job : j[1] \in Email /\ j[2] \in Run /\ j = <<j[1], j[2]>> /\ j # NoJob
  /\ \A t \in Task : t \in Job /\ t[2] # 0
  /\ \A e \in Email : \A n \in Run \ {0} : <<e, n>> \in Task
  /\ 0 \in Run /\ Run \subseteq Nat /\ 0 \in Nat
BY PipelineAssumption DEF Job, Task, Run

LEMMA Services == "manager" \in Service /\ "leads" \in Service /\ \A c \in Service : c = "manager" \/ c = "leads"
BY DEF Service

-----------------------------------------------------------------------------
(* What a step does to the loops, and what it charges.                     *)
Goes(c, l) == pc' = [pc EXCEPT ![c] = l] /\ UNCHANGED <<todo, cur>>
Lets(c) == pc' = [pc EXCEPT ![c] = "take"] /\ cur' = [cur EXCEPT ![c] = NoJob] /\ UNCHANGED todo
Free == UNCHANGED charged
Blames(e) ==
  spent' = [spent EXCEPT ![e] = @ + 1] /\ mishaps' = mishaps + 1 /\ mishaps' <= MaxMishaps

LEMMA ChargeEffect ==
  ASSUME ChargedOK, NEW e, NEW call, Charge(call, e)
  PROVE  /\ call = "ok" => Free
         /\ call # "ok" => Blames(e)
<1>1. CASE call = "ok"
  BY <1>1 DEF Charge, Free
<1>2. CASE call # "ok"
  <2>1. /\ spent' = [spent EXCEPT ![e] = @ + 1] /\ mishaps' = mishaps + 1
        /\ MayCome(mishaps + 1, foreign, Entered)
    BY <1>2 DEF Charge, Blame, Mishap
  <2>2. \A limit \in Allowed : limit[1] \in 0 .. MaxMishaps
    BY PipelineAssumption
  <2>3. mishaps + 1 <= MaxMishaps
    BY <2>1, <2>2, PipelineAssumption DEF MayCome, ChargedOK
  <2>. QED BY <1>2, <2>1, <2>3 DEF Blames
<1>. QED BY <1>1, <1>2

LEMMA MishapEffect ==
  ASSUME ChargedOK, Mishap
  PROVE  mishaps' = mishaps + 1 /\ mishaps' <= MaxMishaps
<1>1. \A limit \in Allowed : limit[1] \in 0 .. MaxMishaps
  BY PipelineAssumption
<1>. QED BY <1>1, PipelineAssumption DEF Mishap, MayCome, ChargedOK

(* A charge keeps the types and never falls.                               *)
LEMMA ChargeType ==
  ASSUME ChargedOK, NEW e, Free \/ Blames(e)
  PROVE  /\ ChargedOK' /\ mishaps <= mishaps'
         /\ \A x \in Email : spent[x] \in Nat /\ spent'[x] \in Nat /\ spent[x] <= spent'[x]
         /\ \A x \in Email : spent'[x] - spent[x] <= mishaps' - mishaps
         /\ Free => \A x \in Email : spent'[x] = spent[x]
         /\ Blames(e) => \A x \in Email : spent'[x] = IF x = e THEN spent[x] + 1 ELSE spent[x]
<1>1. CASE Free
  BY <1>1 DEF Free, charged, ChargedOK, Blames
<1>2. CASE Blames(e)
  <2>1. mishaps \in Nat /\ mishaps' = mishaps + 1 /\ mishaps' <= MaxMishaps /\ MaxMishaps \in Nat
    BY <1>2, PipelineAssumption DEF ChargedOK, Blames
  <2>2. /\ spent' \in [Email -> Nat]
        /\ \A x \in Email : spent[x] \in Nat /\ spent'[x] = IF x = e THEN spent[x] + 1 ELSE spent[x]
    <3>1. \A x \in Email : spent[x] \in Nat
      BY DEF ChargedOK
    <3>2. spent' = [x \in Email |-> IF x = e THEN spent[x] + 1 ELSE spent[x]]
      BY <1>2 DEF ChargedOK, Blames
    <3>. QED BY <3>1, <3>2
  <2>3. mishaps' \in 0 .. MaxMishaps
    BY <2>1
  <2>4. ~Free
    BY <2>1 DEF Free, charged
  <2>5. \A x \in Email : spent'[x] - spent[x] <= mishaps' - mishaps
    BY <2>1, <2>2
  <2>. QED BY <2>1, <2>2, <2>3, <2>4, <2>5 DEF ChargedOK
<1>. QED BY <1>1, <1>2

(* Whoever is at work has a job of its own in hand.                        *)
LEMMA InHand ==
  ASSUME LoopOK, NEW c \in Service, pc[c] \notin Idle
  PROVE  /\ cur[c] \in Job /\ cur[c] # NoJob /\ Owner(cur[c]) = c /\ Subject(c) \in Email
         /\ c = "manager" => cur[c] = <<Subject(c), 0>>
         /\ c = "leads" => cur[c][2] \in Run \ {0} /\ cur[c] = <<Subject(c), cur[c][2]>>
<1>1. cur[c] \in Job /\ cur[c] # NoJob
  BY DEF LoopOK, Fit
<1>2. Owner(cur[c]) = c
  BY <1>1 DEF LoopOK, Fit
<1>. QED BY <1>1, <1>2, Jobs DEF Owner, Subject

-----------------------------------------------------------------------------
(* What each action does, without its calls.                               *)
Opened(t) == entry' = [entry EXCEPT ![t] = "new"]

LEMMA InboundMoves ==
  ASSUME Types, NEW t \in Task, InboundAnswers(t)
  PROVE  /\ t \in triage /\ pc["manager"] = "awaitInbound" /\ t = Waited /\ triage' = triage \ {t}
         /\ UNCHANGED <<routing, entry, tries, queries, answers, work, loop, runs, waiting, gaveUp,
                        unheard, late, misled, strays, foreign>>
         /\ \/ results' = AppendTo("inbound", t, TRUE) /\ dropped' = dropped /\ Free
            \/ results' = AppendTo("inbound", t, FALSE) /\ dropped' = dropped \cup {t[1]} /\ Free
            \/ results' = AppendTo("inbound", t, FALSE) /\ dropped' = dropped /\ Blames(t[1])
<1>. ChargedOK
  BY DEF Types
<1>1. PICK answer \in {"delegate", "drop", "error"} :
        /\ Charge(IF answer = "error" THEN "lost" ELSE "ok", t[1])
        /\ results' = AppendTo("inbound", t, answer = "delegate")
        /\ dropped' = IF answer = "drop" THEN dropped \cup {t[1]} ELSE dropped
  BY DEF InboundAnswers
<1>2. CASE answer = "delegate"
  <2>1. Charge("ok", t[1]) /\ results' = AppendTo("inbound", t, TRUE) /\ dropped' = dropped
    BY <1>1, <1>2
  <2>. QED BY <2>1, ChargeEffect DEF InboundAnswers
<1>3. CASE answer = "drop"
  <2>1. Charge("ok", t[1]) /\ results' = AppendTo("inbound", t, FALSE) /\ dropped' = dropped \cup {t[1]}
    BY <1>1, <1>3
  <2>. QED BY <2>1, ChargeEffect DEF InboundAnswers
<1>4. CASE answer = "error"
  <2>1. Charge("lost", t[1]) /\ results' = AppendTo("inbound", t, FALSE) /\ dropped' = dropped
    BY <1>1, <1>4
  <2>2. Blames(t[1])
    BY <2>1, ChargeEffect, "lost" # "ok"
  <2>. QED BY <2>1, <2>2 DEF InboundAnswers
<1>. QED BY <1>2, <1>3, <1>4

LEMMA DeliverMoves ==
  ASSUME NEW c \in Service, Read(c) \/ Reread(c)
  PROVE  /\ pc[c] = "read" /\ pc' = [pc EXCEPT ![c] = "take"]
         /\ UNCHANGED <<routing, triage, streams, work, cur, runs, waiting, history, charged, foreign>>
         /\ \E batch \in SUBSET Job :
              /\ \A j \in batch : Owner(j) = c /\ entry[j] \in {"new", "pending"}
              /\ todo' = [todo EXCEPT ![c] = batch]
              /\ entry' = [j \in Job |-> IF j \in batch THEN "pending" ELSE entry[j]]
              /\ tries' = [j \in Job |-> IF j \in batch THEN tries[j] + 1 ELSE tries[j]]
<1>1. PICK batch : /\ batch \subseteq Mine(c, "new") \/ batch \subseteq Mine(c, "pending")
                   /\ Deliver(c, batch)
  <2>1. CASE Read(c)
    BY <2>1 DEF Read
  <2>2. CASE Reread(c)
    BY <2>2 DEF Reread
  <2>. QED BY <2>1, <2>2
<1>2. batch \in SUBSET Job /\ \A j \in batch : Owner(j) = c /\ entry[j] \in {"new", "pending"}
  BY <1>1 DEF Mine
<1>3. pc[c] = "read"
  BY DEF Read, Reread
<1>. QED BY <1>1, <1>2, <1>3 DEF Deliver, Goto

LEMMA PlanMoves ==
  ASSUME Types, NEW e, e = Subject("manager"), NEW t, t = <<e, runs[e] + 1>>, Plan
  PROVE  /\ pc["manager"] = "plan" /\ runs' = Increase(runs, e)
         /\ UNCHANGED <<routing, tries, streams, work, waiting, history, foreign>>
         /\ \/ /\ routing = "leads" /\ Opened(t) /\ UNCHANGED triage
               /\ (Free /\ Goes("manager", "awaitLeads")) \/ (Blames(e) /\ Goes("manager", "report"))
            \/ /\ routing # "leads" /\ triage' = triage \cup {t} /\ UNCHANGED entry
               /\ (Free /\ Goes("manager", "awaitInbound")) \/ (Blames(e) /\ Goes("manager", "report"))
            \/ UNCHANGED <<entry, triage>> /\ Blames(e) /\ Goes("manager", "report")
<1>. ChargedOK
  BY DEF Types
<1>1. PICK call \in Call :
        /\ Charge(call, e)
        /\ runs' = Increase(runs, e)
        /\ IF Applied(call)
           THEN IF routing = "leads"
                THEN Opened(t) /\ UNCHANGED triage
                ELSE triage' = triage \cup {t} /\ UNCHANGED entry
           ELSE UNCHANGED <<entry, triage>>
        /\ Goto("manager", IF call # "ok" THEN "report"
                           ELSE IF routing = "leads" THEN "awaitLeads" ELSE "awaitInbound")
  BY DEF Plan, Opened
<1>2. /\ pc["manager"] = "plan" /\ UNCHANGED <<todo, cur>>
      /\ UNCHANGED <<routing, tries, streams, work, waiting, history, foreign>>
  BY DEF Plan
<1>3. CASE call = "ok"
  <2>1. Free
    BY <1>1, <1>3, ChargeEffect
  <2>. QED BY <1>1, <1>2, <1>3, <2>1 DEF Applied, Goto, Goes
<1>4. CASE call # "ok"
  <2>1. Blames(e)
    BY <1>1, <1>4, ChargeEffect
  <2>. QED BY <1>1, <1>2, <1>4, <2>1 DEF Applied, Goto, Goes
<1>. QED BY <1>3, <1>4

LEMMA DelegateMoves ==
  ASSUME Types, NEW e, e = Subject("manager"), Delegate
  PROVE  /\ pc["manager"] = "delegate" /\ Goes("manager", "report")
         /\ UNCHANGED <<routing, tries, triage, streams, work, runs, waiting, history, foreign>>
         /\ \/ Opened(Waited) /\ (Free \/ Blames(e))
            \/ UNCHANGED entry /\ Blames(e)
<1>. ChargedOK
  BY DEF Types
<1>1. PICK call \in Call :
        /\ Charge(call, e)
        /\ entry' = IF Applied(call) THEN [entry EXCEPT ![Waited] = "new"] ELSE entry
  BY DEF Delegate
<1>2. /\ pc["manager"] = "delegate" /\ Goes("manager", "report")
      /\ UNCHANGED <<routing, tries, triage, streams, work, runs, waiting, history, foreign>>
  BY DEF Delegate, Goes, Goto
<1>. QED BY <1>1, <1>2, ChargeEffect DEF Applied, Opened

LEMMA HandoverMoves ==
  ASSUME Types, NEW e, e = Subject("manager"), Handover
  PROVE  /\ pc["manager"] = "handover" /\ Goes("manager", "report")
         /\ UNCHANGED <<routing, queues, streams, stored, promoted, runs, waiting, history, foreign>>
         /\ \/ outbound' = Increase(outbound, e) /\ (Free \/ Blames(e))
            \/ UNCHANGED outbound /\ Blames(e)
<1>. ChargedOK
  BY DEF Types
<1>1. PICK call \in Call :
        /\ Charge(call, e)
        /\ outbound' = IF Applied(call) THEN Increase(outbound, e) ELSE outbound
  BY DEF Handover
<1>2. /\ pc["manager"] = "handover" /\ Goes("manager", "report")
      /\ UNCHANGED <<routing, queues, streams, stored, promoted, runs, waiting, history, foreign>>
  BY DEF Handover, Goes, Goto
<1>. QED BY <1>1, <1>2, ChargeEffect DEF Applied

LEMMA AskMoves ==
  ASSUME Types, NEW e, e = Subject("leads"), Ask
  PROVE  /\ pc["leads"] = "ask" /\ context' = "new"
         /\ UNCHANGED <<routing, queues, results, answers, work, runs, dollar, from, history, foreign>>
         /\ \/ Goes("leads", "tail") /\ Free /\ queries' = queries + 1 /\ packing' = TRUE
            \/ Goes("leads", "store") /\ Blames(e) /\ queries' \in {queries, queries + 1} /\ packing' = FALSE
<1>. ChargedOK
  BY DEF Types
<1>1. PICK call \in Call :
        /\ Charge(call, e)
        /\ queries' = IF Applied(call) THEN queries + 1 ELSE queries
        /\ packing' = (call = "ok")
        /\ Goto("leads", IF call = "ok" THEN "tail" ELSE "store")
  BY DEF Ask
<1>2. /\ pc["leads"] = "ask" /\ context' = "new" /\ UNCHANGED <<todo, cur>>
      /\ UNCHANGED <<routing, queues, results, answers, work, runs, dollar, from, history, foreign>>
  BY DEF Ask
<1>3. CASE call = "ok"
  <2>1. Free
    BY <1>1, <1>3, ChargeEffect
  <2>. QED BY <1>1, <1>2, <1>3, <2>1 DEF Applied, Goto, Goes
<1>4. CASE call # "ok"
  <2>1. Blames(e)
    BY <1>1, <1>4, ChargeEffect
  <2>. QED BY <1>1, <1>2, <1>4, <2>1 DEF Goto, Goes
<1>. QED BY <1>3, <1>4

LEMMA FindTailMoves ==
  ASSUME Types, NEW e, e = Subject("leads"), FindTail
  PROVE  /\ pc["leads"] = "tail" /\ Goes("leads", "wait") /\ from' = Len(answers) /\ dollar' \in BOOLEAN
         /\ Free \/ Blames(e)
         /\ UNCHANGED <<routing, queues, streams, work, runs, packing, context, history, foreign>>
<1>. ChargedOK
  BY DEF Types
<1>1. PICK call \in {"ok", "lost"} : Charge(call, e) /\ dollar' = (call # "ok" \/ answers = <<>>)
  BY DEF FindTail
<1>2. Free \/ Blames(e)
  BY <1>1, ChargeEffect
<1>. QED BY <1>1, <1>2 DEF FindTail, Goes, Goto

LEMMA StoreMoves ==
  ASSUME Types, NEW e, e = Subject("leads"), Store
  PROVE  /\ pc["leads"] = "store" /\ promoted' = promoted
         /\ UNCHANGED <<routing, queues, streams, outbound, runs, waiting, gaveUp, unheard, late, misled,
                        dropped, foreign>>
         /\ \/ Unpacks(e) /\ (Goes("leads", "promote") \/ Goes("leads", "report")) /\ (Free \/ Blames(e))
               /\ stored' = Increase(stored, e)
               /\ strays' = IF context # Source[e] THEN strays \cup {e} ELSE strays
            \/ Unpacks(e) /\ (Goes("leads", "promote") \/ Goes("leads", "report")) /\ Blames(e)
               /\ UNCHANGED <<stored, strays>>
            \/ ~Unpacks(e) /\ Goes("leads", "report") /\ Free /\ UNCHANGED <<stored, strays>>
<1>. ChargedOK
  BY DEF Types
<1>1. /\ pc["leads"] = "store" /\ promoted' = promoted /\ UNCHANGED <<todo, cur>>
      /\ UNCHANGED <<routing, queues, streams, outbound, runs, waiting, gaveUp, unheard, late, misled,
                     dropped, foreign>>
  BY DEF Store
<1>2. CASE Unpacks(e)
  <2>1. PICK call \in Call :
          /\ Charge(call, e)
          /\ stored' = IF Applied(call) THEN Increase(stored, e) ELSE stored
          /\ strays' = IF Applied(call) /\ context # Source[e] THEN strays \cup {e} ELSE strays
          /\ Goto("leads", IF Promotes(e) THEN "promote" ELSE "report")
    BY <1>2 DEF Store
  <2>2. Goes("leads", "promote") \/ Goes("leads", "report")
    BY <1>1, <2>1 DEF Goto, Goes
  <2>3. (call = "ok" => Free) /\ (call # "ok" => Blames(e))
    BY <2>1, ChargeEffect
  <2>4. CASE Applied(call)
    BY <1>1, <1>2, <2>1, <2>2, <2>3, <2>4
  <2>5. CASE ~Applied(call)
    BY <1>1, <1>2, <2>1, <2>2, <2>3, <2>5 DEF Applied
  <2>. QED BY <2>4, <2>5
<1>3. CASE ~Unpacks(e)
  BY <1>1, <1>3 DEF Store, Goto, Goes, Free
<1>. QED BY <1>2, <1>3

LEMMA PromoteMoves ==
  ASSUME Types, NEW e, e = Subject("leads"), Promote
  PROVE  /\ pc["leads"] = "promote" /\ Goes("leads", "report")
         /\ UNCHANGED <<routing, queues, streams, outbound, stored, runs, waiting, history, foreign>>
         /\ \/ promoted' = Increase(promoted, e) /\ (Free \/ Blames(e))
            \/ UNCHANGED promoted /\ Blames(e)
<1>. ChargedOK
  BY DEF Types
<1>1. PICK call \in Call :
        /\ Charge(call, e)
        /\ promoted' = IF Applied(call) THEN Increase(promoted, e) ELSE promoted
  BY DEF Promote
<1>2. /\ pc["leads"] = "promote" /\ Goes("leads", "report")
      /\ UNCHANGED <<routing, queues, streams, outbound, stored, runs, waiting, history, foreign>>
  BY DEF Promote, Goes, Goto
<1>. QED BY <1>1, <1>2, ChargeEffect DEF Applied

Closes(j, s) == entry' = [entry EXCEPT ![j] = s]
Fails(c) == Lets(c) /\ Blames(Subject(c)) /\ (UNCHANGED entry \/ Closes(cur[c], "dead"))

LEMMA FailMoves ==
  ASSUME Types, NEW c \in Service, NEW call, call # "ok", Charge(call, Subject(c)), Fail(c), UNCHANGED todo
  PROVE  Fails(c)
<1>. ChargedOK
  BY DEF Types
<1>1. Blames(Subject(c))
  BY ChargeEffect
<1>. QED BY <1>1 DEF Fails, Fail, Lets, Closes, Goto

LEMMA ReportMoves ==
  ASSUME Types, NEW c \in Service, Report(c)
  PROVE  /\ pc[c] = "report"
         /\ UNCHANGED <<routing, tries, triage, queries, answers, work, runs, history, foreign>>
         /\ EndExecution(c) /\ \E packet, error \in BOOLEAN : Published(c, packet, error)
         /\ (Goes(c, "ack") /\ Free /\ UNCHANGED entry) \/ Fails(c)
<1>. ChargedOK
  BY DEF Types
<1>1. PICK call \in Call :
        /\ Charge(call, Subject(c))
        /\ Published(c, Applied(call), call # "ok" /\ Spoilt(cur[c]))
        /\ IF call = "ok" THEN Goto(c, "ack") /\ UNCHANGED <<entry, cur>> ELSE Fail(c)
  BY DEF Report
<1>2. Applied(call) \in BOOLEAN /\ (call # "ok" /\ Spoilt(cur[c])) \in BOOLEAN
  BY DEF Applied, Spoilt
<1>3. /\ pc[c] = "report" /\ UNCHANGED todo /\ EndExecution(c)
      /\ UNCHANGED <<routing, tries, triage, queries, answers, work, runs, history, foreign>>
  BY DEF Report
<1>4. CASE call = "ok"
  <2>1. Free
    BY <1>1, <1>4, ChargeEffect
  <2>2. Goes(c, "ack") /\ UNCHANGED entry
    BY <1>1, <1>3, <1>4 DEF Goes, Goto
  <2>. QED BY <1>1, <1>2, <1>3, <2>1, <2>2
<1>5. CASE call # "ok"
  <2>1. Fail(c)
    BY <1>1, <1>5
  <2>2. Fails(c)
    BY <1>1, <1>3, <1>5, <2>1, FailMoves
  <2>. QED BY <1>1, <1>2, <1>3, <2>2
<1>. QED BY <1>4, <1>5

LEMMA AckMoves ==
  ASSUME Types, NEW c \in Service, Ack(c)
  PROVE  /\ pc[c] = "ack"
         /\ UNCHANGED <<routing, tries, triage, queries, answers, work, runs, waiting, history, foreign>>
         /\ \E packet, error \in BOOLEAN : Published(c, packet, error)
         /\ \/ Lets(c) /\ Closes(cur[c], "done") /\ (Free \/ Blames(Subject(c)))
            \/ Fails(c)
<1>. ChargedOK
  BY DEF Types
<1>1. PICK call \in Call :
        /\ Charge(call, Subject(c))
        /\ Published(c, FALSE, call = "lost" /\ Spoilt(cur[c]))
        /\ IF Applied(call) THEN Acknowledge(c) ELSE Fail(c)
  BY DEF Ack
<1>2. (call = "lost" /\ Spoilt(cur[c])) \in BOOLEAN
  BY DEF Spoilt
<1>3. /\ pc[c] = "ack" /\ UNCHANGED todo
      /\ UNCHANGED <<routing, tries, triage, queries, answers, work, runs, waiting, history, foreign>>
  BY DEF Ack
<1>4. CASE Applied(call)
  <2>1. Free \/ Blames(Subject(c))
    BY <1>1, ChargeEffect
  <2>2. Lets(c) /\ Closes(cur[c], "done")
    BY <1>1, <1>3, <1>4 DEF Acknowledge, Lets, Closes, Goto
  <2>. QED BY <1>1, <1>2, <1>3, <2>1, <2>2
<1>5. CASE ~Applied(call)
  <2>1. Fail(c) /\ call # "ok"
    BY <1>1, <1>5 DEF Applied
  <2>2. Fails(c)
    BY <1>1, <1>3, <2>1, FailMoves
  <2>. QED BY <1>1, <1>2, <1>3, <2>2
<1>. QED BY <1>4, <1>5

LEMMA CrashMoves ==
  ASSUME Types, NEW c \in Service, Crash(c)
  PROVE  /\ pc' = [pc EXCEPT ![c] = "down"] /\ todo' = [todo EXCEPT ![c] = {}]
         /\ cur' = [cur EXCEPT ![c] = NoJob] /\ EndExecution(c)
         /\ UNCHANGED <<routing, queues, streams, work, runs, history, foreign>>
         /\ IF cur[c] = NoJob
            THEN mishaps' = mishaps + 1 /\ mishaps' <= MaxMishaps /\ UNCHANGED spent
            ELSE Blames(Subject(c))
<1>. ChargedOK
  BY DEF Types
<1>1. CASE cur[c] = NoJob
  BY <1>1, MishapEffect DEF Crash, Goto
<1>2. CASE cur[c] # NoJob
  <2>1. Mishap /\ spent' = [spent EXCEPT ![Subject(c)] = @ + 1]
    BY <1>2 DEF Crash, Blame
  <2>2. Blames(Subject(c))
    BY <2>1, MishapEffect DEF Blames
  <2>. QED BY <1>2, <2>2 DEF Crash, Goto
<1>. QED BY <1>1, <1>2

LEMMA TakeMoves ==
  ASSUME NEW c \in Service, Take(c)
  PROVE  /\ pc[c] = "take"
         /\ UNCHANGED <<routing, queues, streams, work, runs, waiting, history, charged, foreign>>
         /\ \/ Goes(c, "read")
            \/ \E j \in todo[c] :
                 /\ todo' = [todo EXCEPT ![c] = todo[c] \ {j}] /\ cur' = [cur EXCEPT ![c] = j]
                 /\ pc' = [pc EXCEPT ![c] = IF c = "manager" THEN "plan" ELSE "ask"]
BY DEF Take, Goto, Goes

-----------------------------------------------------------------------------
(* What the parts say when nothing of theirs changes.                      *)
LEMMA Unmoved ==
  ASSUME Types
  PROVE  /\ UNCHANGED queues => QueueOK'
         /\ UNCHANGED results => ResultsOK'
         /\ UNCHANGED <<queries, answers>> => AnswersOK'
         /\ UNCHANGED work => WorkOK'
         /\ UNCHANGED loop => LoopOK'
         /\ UNCHANGED waiting => WaitOK'
         /\ UNCHANGED history => HistoryOK'
         /\ UNCHANGED charged => ChargedOK'
         /\ UNCHANGED routing => routing' \in Routing
         /\ UNCHANGED runs => runs' \in [Email -> Nat]
         /\ UNCHANGED foreign => foreign' \in Nat
<1>1. UNCHANGED queues => QueueOK'
  BY DEF Types, queues, QueueOK
<1>2. UNCHANGED results => ResultsOK'
  BY DEF Types, ResultsOK
<1>3. UNCHANGED <<queries, answers>> => AnswersOK'
  BY DEF Types, AnswersOK
<1>4. UNCHANGED work => WorkOK'
  BY DEF Types, work, WorkOK
<1>5. UNCHANGED loop => LoopOK'
  BY DEF Types, loop, LoopOK, Fit
<1>6. UNCHANGED waiting => WaitOK'
  BY DEF Types, waiting, WaitOK
<1>7. UNCHANGED history => HistoryOK'
  BY DEF Types, history, HistoryOK
<1>8. UNCHANGED charged => ChargedOK'
  BY DEF Types, charged, ChargedOK
<1>9. UNCHANGED routing => routing' \in Routing
  BY DEF Types
<1>10. UNCHANGED runs => runs' \in [Email -> Nat]
  BY DEF Types
<1>11. UNCHANGED foreign => foreign' \in Nat
  BY DEF Types
<1>. QED BY <1>1, <1>2, <1>3, <1>4, <1>5, <1>6, <1>7, <1>8, <1>9, <1>10, <1>11

(* The frames of the actions, by part.                                     *)
LEMMA Frames ==
  /\ UNCHANGED streams => UNCHANGED results /\ UNCHANGED <<queries, answers>> /\ UNCHANGED queries /\ UNCHANGED answers
  /\ Free => UNCHANGED charged
  /\ UNCHANGED <<pc, todo, cur>> => UNCHANGED loop
BY DEF streams, Free, loop

LEMMA LoopGoes ==
  ASSUME LoopOK, NEW c \in Service, NEW l \in Location, Goes(c, l), pc[c] \in Idle <=> l \in Idle
  PROVE  LoopOK'
<1>1. pc' = [x \in Service |-> IF x = c THEN l ELSE pc[x]]
  BY DEF LoopOK, Goes
<1>2. todo' = todo /\ cur' = cur
  BY DEF Goes
<1>3. \A x \in Service : Fit(x)'
  BY <1>1, <1>2 DEF LoopOK, Fit
<1>4. pc' \in [Service -> Location]
  BY <1>1 DEF LoopOK
<1>. QED BY <1>2, <1>3, <1>4 DEF LoopOK

LEMMA LoopLets ==
  ASSUME LoopOK, NEW c \in Service, NEW l \in Idle,
         pc' = [pc EXCEPT ![c] = l], cur' = [cur EXCEPT ![c] = NoJob],
         UNCHANGED todo \/ todo' = [todo EXCEPT ![c] = {}]
  PROVE  LoopOK'
<1>0. l \in Location
  BY DEF Idle, Location
<1>1. pc' = [x \in Service |-> IF x = c THEN l ELSE pc[x]]
  BY DEF LoopOK
<1>2. cur' = [x \in Service |-> IF x = c THEN NoJob ELSE cur[x]]
  BY DEF LoopOK
<1>3. /\ \A x \in Service : todo'[x] \subseteq todo[x]
      /\ todo' \in [Service -> SUBSET Job]
  BY DEF LoopOK
<1>4. \A x \in Service : Fit(x)'
  BY <1>1, <1>2, <1>3 DEF LoopOK, Fit
<1>5. pc' \in [Service -> Location] /\ cur' \in [Service -> Job \cup {NoJob}]
  BY <1>0, <1>1, <1>2 DEF LoopOK
<1>. QED BY <1>3, <1>4, <1>5 DEF LoopOK

LEMMA LoopTakes ==
  ASSUME LoopOK, NEW c \in Service, NEW j \in todo[c], NEW l \in Location \ Idle,
         pc' = [pc EXCEPT ![c] = l], cur' = [cur EXCEPT ![c] = j], todo' = [todo EXCEPT ![c] = todo[c] \ {j}]
  PROVE  LoopOK'
<1>0. j \in Job /\ Owner(j) = c /\ j # NoJob
  BY Jobs DEF LoopOK, Fit
<1>1. pc' = [x \in Service |-> IF x = c THEN l ELSE pc[x]]
  BY DEF LoopOK
<1>2. cur' = [x \in Service |-> IF x = c THEN j ELSE cur[x]]
  BY DEF LoopOK
<1>3. todo' = [x \in Service |-> IF x = c THEN todo[c] \ {j} ELSE todo[x]]
  BY DEF LoopOK
<1>4. \A x \in Service : Fit(x)'
  BY <1>0, <1>1, <1>2, <1>3 DEF LoopOK, Fit
<1>5. /\ pc' \in [Service -> Location] /\ cur' \in [Service -> Job \cup {NoJob}]
      /\ todo' \in [Service -> SUBSET Job]
  BY <1>0, <1>1, <1>2, <1>3 DEF LoopOK
<1>. QED BY <1>4, <1>5 DEF LoopOK

LEMMA LoopReads ==
  ASSUME LoopOK, NEW c \in Service, NEW batch \in SUBSET Job, \A j \in batch : Owner(j) = c,
         pc[c] = "read", pc' = [pc EXCEPT ![c] = "take"], UNCHANGED cur, todo' = [todo EXCEPT ![c] = batch]
  PROVE  LoopOK'
<1>1. pc' = [x \in Service |-> IF x = c THEN "take" ELSE pc[x]]
  BY DEF LoopOK
<1>2. todo' = [x \in Service |-> IF x = c THEN batch ELSE todo[x]]
  BY DEF LoopOK
<1>3. cur[c] = NoJob
  BY DEF LoopOK, Fit, Idle
<1>4. \A x \in Service : Fit(x)'
  BY <1>1, <1>2, <1>3 DEF LoopOK, Fit, Idle
<1>5. /\ pc' \in [Service -> Location] /\ cur' \in [Service -> Job \cup {NoJob}]
      /\ todo' \in [Service -> SUBSET Job]
  BY <1>1, <1>2 DEF LoopOK, Location
<1>. QED BY <1>4, <1>5 DEF LoopOK

LEMMA Places ==
  /\ {"plan", "awaitInbound", "delegate", "awaitLeads", "handover", "report", "ack",
      "ask", "tail", "wait", "stuck", "store", "promote"} \subseteq Location \ Idle
  /\ {"read", "take", "down"} \subseteq Location /\ {"read", "take", "down"} \subseteq Idle
BY DEF Location, Idle

-----------------------------------------------------------------------------
(* Executions are numbered, and an entry that the Manager has not          *)
(* acknowledged has one to come, unless it is past its beginning.          *)
Credit(b) == IF b THEN 1 ELSE 0
Unsettled(j) == entry[j] \in {"absent", "new", "pending"}
Manages(e) == cur["manager"] = <<e, 0>>
Fresh(e) == Unsettled(<<e, 0>>) /\ (Manages(e) => pc["manager"] = "plan")
RunsPaid(e) == runs[e] + Credit(Fresh(e)) <= 1 + spent[e] /\ spent[e] <= mishaps
Numbered(e) ==
  /\ \A n \in Run \ {0} : n > runs[e] => entry[<<e, n>>] = "absent"
  /\ Manages(e) /\ pc["manager"] # "plan" => runs[e] > 0
  /\ Manages(e) /\ pc["manager"] \in {"awaitInbound", "delegate"} => entry[<<e, runs[e]>>] = "absent"

(* What is in a batch or in hand is pending, and only once there.          *)
Held ==
  \A c \in Service :
    /\ \A j \in todo[c] : entry[j] = "pending" /\ j # cur[c]
    /\ cur[c] # NoJob => entry[cur[c]] = "pending"

Base == Types /\ Held /\ \A e \in Email : RunsPaid(e) /\ Numbered(e)

LEMMA PlanTask ==
  ASSUME Base, pc["manager"] = "plan", NEW e, e = Subject("manager")
  PROVE  /\ e \in Email /\ Manages(e) /\ Fresh(e) /\ runs[e] \in Run /\ runs[e] + 1 \in Run \ {0}
         /\ <<e, runs[e] + 1>> \in Task /\ entry[<<e, runs[e] + 1>>] = "absent"
<1>1. LoopOK /\ "plan" \notin Idle /\ Types
  BY DEF Base, Types, Idle
<1>2. e \in Email /\ Manages(e) /\ cur["manager"] # NoJob
  BY <1>1, InHand, Services DEF Manages
<1>3. entry[<<e, 0>>] = "pending"
  BY <1>2, Services DEF Base, Held, Manages
<1>4. Fresh(e)
  BY <1>3 DEF Fresh, Unsettled
<1>5. runs[e] \in Nat /\ spent[e] \in Nat /\ mishaps \in 0 .. MaxMishaps /\ MaxMishaps \in Nat
  BY <1>1, <1>2, PipelineAssumption DEF Types, ChargedOK
<1>6. runs[e] + 1 <= 1 + spent[e] /\ spent[e] <= mishaps
  BY <1>2, <1>4 DEF Base, RunsPaid, Credit
<1>7. runs[e] \in Run /\ runs[e] + 1 \in Run \ {0}
  BY <1>5, <1>6 DEF Run
<1>8. entry[<<e, runs[e] + 1>>] = "absent"
  BY <1>2, <1>5, <1>7 DEF Base, Numbered
<1>. QED BY <1>2, <1>4, <1>7, <1>8, Jobs

LEMMA WaitedTask ==
  ASSUME Base, pc["manager"] \notin Idle \cup {"plan"}, NEW e, e = Subject("manager")
  PROVE  /\ e \in Email /\ Manages(e) /\ ~Fresh(e) /\ runs[e] \in Run \ {0}
         /\ Waited = <<e, runs[e]>> /\ Waited \in Task
         /\ pc["manager"] \in {"awaitInbound", "delegate"} => entry[Waited] = "absent"
<1>1. LoopOK /\ Types
  BY DEF Base, Types
<1>2. e \in Email /\ Manages(e) /\ cur["manager"] # NoJob
  BY <1>1, InHand, Services DEF Manages
<1>4. ~Fresh(e)
  BY <1>2 DEF Fresh
<1>5. runs[e] \in Nat /\ spent[e] \in Nat /\ mishaps \in 0 .. MaxMishaps /\ MaxMishaps \in Nat
  BY <1>1, <1>2, PipelineAssumption DEF Types, ChargedOK
<1>6. runs[e] <= 1 + spent[e] /\ spent[e] <= mishaps
  BY <1>2, <1>4, <1>5 DEF Base, RunsPaid, Credit
<1>7. runs[e] > 0
  BY <1>2 DEF Base, Numbered
<1>8. runs[e] \in Run \ {0}
  BY <1>5, <1>6, <1>7 DEF Run
<1>9. Waited = <<e, runs[e]>>
  BY DEF Waited
<1>10. pc["manager"] \in {"awaitInbound", "delegate"} => entry[Waited] = "absent"
  BY <1>2, <1>9 DEF Base, Numbered
<1>. QED BY <1>2, <1>4, <1>8, <1>9, <1>10, Jobs

-----------------------------------------------------------------------------
(* Types, action by action.                                                *)
LEMMA OpenedType ==
  ASSUME QueueOK, NEW t \in Job, Opened(t), UNCHANGED tries, triage' \subseteq Task
  PROVE  QueueOK'
BY DEF QueueOK, Opened, State

LEMMA ClosedType ==
  ASSUME QueueOK, NEW t \in Job, NEW s \in {"done", "dead"}, Closes(t, s), UNCHANGED <<tries, triage>>
  PROVE  QueueOK'
BY DEF QueueOK, Closes, State

LEMMA AppendedType ==
  ASSUME ResultsOK, NEW s \in {"inbound", "leads"}, NEW t \in Task \cup {NoJob}, NEW has \in BOOLEAN,
         results' = AppendTo(s, t, has)
  PROVE  ResultsOK'
<1>1. [task |-> t, has |-> has] \in Answer
  BY DEF Answer
<1>2. results' = [x \in {"inbound", "leads"} |-> IF x = s THEN Append(results[s], [task |-> t, has |-> has])
                                                        ELSE results[x]]
  BY DEF ResultsOK, AppendTo
<1>3. results[s] \in Seq(Answer)
  BY DEF ResultsOK
<1>4. Append(results[s], [task |-> t, has |-> has]) \in Seq(Answer)
  BY <1>1, <1>3
<1>. QED BY <1>2, <1>4 DEF ResultsOK

LEMMA PublishedType ==
  ASSUME Types, NEW c \in Service, pc[c] \notin Idle, NEW packet \in BOOLEAN, NEW error \in BOOLEAN,
         Published(c, packet, error)
  PROVE  ResultsOK'
<1>1. CASE c = "leads"
  <2>1. cur[c] \in Task
    BY <1>1, InHand, Jobs DEF Types
  <2>2. /\ [task |-> cur[c], has |-> FALSE] \in Answer /\ [task |-> cur[c], has |-> packing] \in Answer
        /\ results["leads"] \in Seq(Answer)
    BY <2>1 DEF Types, ResultsOK, WaitOK, Answer
  <2> DEFINE reply == IF packet THEN Append(results["leads"], [task |-> cur[c], has |-> packing])
                                ELSE results["leads"]
             all == IF error THEN Append(reply, [task |-> cur[c], has |-> FALSE]) ELSE reply
  <2>3. reply \in Seq(Answer)
    BY <2>2
  <2>4. all \in Seq(Answer)
    BY <2>2, <2>3
  <2>5. results' = [results EXCEPT !["leads"] = all]
    BY <1>1 DEF Published
  <2> HIDE DEF all
  <2>. QED BY <2>4, <2>5 DEF Types, ResultsOK
<1>2. CASE c # "leads"
  BY <1>2 DEF Published, Types, ResultsOK
<1>. QED BY <1>1, <1>2

LEMMA IncreasedType ==
  ASSUME NEW count \in [Email -> Nat], NEW e \in Email
  PROVE  /\ Increase(count, e) \in [Email -> Nat]
         /\ \A x \in Email : count[x] \in Nat /\ Increase(count, e)[x] = IF x = e THEN count[x] + 1 ELSE count[x]
<1>1. Increase(count, e) = [x \in Email |-> IF x = e THEN count[x] + 1 ELSE count[x]]
  BY DEF Increase
<1>. QED BY <1>1

LEMMA EndType == ASSUME Types, NEW c, EndExecution(c) PROVE WaitOK'
<1>1. CASE c = "leads"
  BY <1>1, 0 \in Nat DEF WaitOK, EndExecution, Place
<1>2. CASE c # "leads"
  BY <1>2, Unmoved DEF EndExecution
<1>. QED BY <1>1, <1>2

(* A step adds to what was charged, and to no email more than in all.      *)
Grows ==
  /\ ChargedOK' /\ mishaps <= mishaps'
  /\ \A x \in Email : /\ spent[x] \in Nat /\ spent'[x] \in Nat /\ spent[x] <= spent'[x]
                      /\ spent'[x] - spent[x] <= mishaps' - mishaps

LEMMA ChargeGrows == ASSUME Types, NEW e, Free \/ Blames(e) PROVE Grows
BY ChargeType DEF Types, Grows

LEMMA TypesOfExternal ==
  ASSUME Base, External
  PROVE  Types' /\ Grows
<1>0. Types
  BY DEF Base
<1>1. ASSUME NEW e \in Email, Submit(e) PROVE Types' /\ Grows
  <2>1. /\ Opened(<<e, 0>>) /\ UNCHANGED charged
        /\ UNCHANGED <<routing, tries, triage, streams, work, loop, runs, waiting, history, foreign>>
    BY <1>1 DEF Submit, Opened
  <2>2. <<e, 0>> \in Job
    BY Jobs
  <2>3. QueueOK'
    BY <1>0, <2>1, <2>2, OpenedType DEF Types, QueueOK
  <2>4. Grows
    BY <1>0, <2>1, ChargeGrows DEF Free
  <2>. QED BY <1>0, <2>1, <2>3, <2>4, Unmoved, Frames DEF Types
<1>2. ASSUME NEW t \in Task, InboundAnswers(t) PROVE Types' /\ Grows
  <2>1. /\ triage' = triage \ {t} /\ t \in Task /\ t[1] \in Email
        /\ UNCHANGED <<routing, entry, tries, queries, answers, work, loop, runs, waiting, gaveUp,
                       unheard, late, misled, strays, foreign>>
    BY <1>0, <1>2, InboundMoves, Jobs
  <2>2. /\ results' = AppendTo("inbound", t, TRUE) \/ results' = AppendTo("inbound", t, FALSE)
        /\ dropped' = dropped \/ dropped' = dropped \cup {t[1]}
        /\ Free \/ Blames(t[1])
    BY <1>0, <1>2, InboundMoves
  <2>3. QueueOK'
    BY <1>0, <2>1 DEF Types, QueueOK
  <2>4. ResultsOK'
    BY <1>0, <2>2, AppendedType, TRUE \in BOOLEAN, FALSE \in BOOLEAN DEF Types
  <2>5. HistoryOK'
    BY <1>0, <2>1, <2>2 DEF Types, HistoryOK
  <2>6. Grows
    BY <1>0, <2>2, ChargeGrows
  <2>. QED BY <1>0, <2>1, <2>3, <2>4, <2>5, <2>6, Unmoved, Frames DEF Types, Grows
<1>3. ASSUME RagAnswers PROVE Types' /\ Grows
  <2>1. PICK place \in PlacesOf(Subject("leads")) :
          /\ Added([query |-> queries, place |-> place])
          /\ misled' = misled \/ misled' = misled \cup {Subject("leads")}
    BY <1>3 DEF RagAnswers
  <2>7. /\ answers' = Append(answers, [query |-> queries, place |-> place]) /\ (from' = from \/ from' = from + 1)
        /\ pc["leads"] \in {"tail", "wait", "stuck"} /\ (unheard' = unheard \/ unheard' = unheard \cup {Subject("leads")})
        /\ UNCHANGED <<routing, queues, results, queries, work, loop, runs, packing, context, dollar,
                       gaveUp, late, dropped, strays, charged, foreign>>
    BY <1>3, <2>1 DEF RagAnswers, Added, Reading
  <2>2. Subject("leads") \in Email
    BY <1>0, <2>1, <2>7, InHand, Services DEF Types, Idle
  <2>8. place \in Place
    BY <2>1, <2>2, PipelineAssumption DEF PlacesOf, Place
  <2>3. AnswersOK'
    <3>1. [query |-> queries, place |-> place] \in RagAnswer
      BY <1>0, <2>8 DEF Types, AnswersOK, RagAnswer
    <3>. QED BY <1>0, <2>7, <3>1 DEF Types, AnswersOK
  <2>4. WaitOK'
    BY <1>0, <2>1, <2>7 DEF Types, WaitOK
  <2>5. HistoryOK'
    BY <1>0, <2>1, <2>7, <2>2 DEF Types, HistoryOK
  <2>6. Grows
    BY <1>0, <2>1, <2>7, ChargeGrows DEF Free
  <2>. QED BY <1>0, <2>1, <2>7, <2>3, <2>4, <2>5, <2>6, Unmoved, Frames DEF Types
<1>4. ASSUME NEW s \in {"inbound", "leads", "rag"}, Foreign(s) PROVE Types' /\ Grows
  <2>1. /\ foreign' = foreign + 1
        /\ UNCHANGED <<routing, queues, queries, work, loop, runs, packing, context, dollar, history, charged>>
    BY <1>4 DEF Foreign
  <2>2. ResultsOK' /\ AnswersOK' /\ from' \in Nat
    <3>1. CASE s = "rag"
      <4>1. /\ answers' = Append(answers, [query |-> 0, place |-> "new"])
            /\ UNCHANGED results /\ (from' = from \/ from' = from + 1)
        BY <1>4, <3>1 DEF Foreign, Added
      <4>2. [query |-> 0, place |-> "new"] \in RagAnswer
        BY DEF RagAnswer, Place
      <4>. QED BY <1>0, <2>1, <4>1, <4>2 DEF Types, AnswersOK, ResultsOK, WaitOK
    <3>2. CASE s # "rag"
      <4>1. results' = AppendTo(s, NoJob, FALSE) /\ UNCHANGED <<answers, from>> /\ s \in {"inbound", "leads"}
        BY <1>4, <3>2 DEF Foreign
      <4>2. ResultsOK'
        BY <1>0, <4>1, AppendedType, FALSE \in BOOLEAN DEF Types
      <4>. QED BY <1>0, <2>1, <4>1, <4>2 DEF Types, AnswersOK, WaitOK
    <3>. QED BY <3>1, <3>2
  <2>3. WaitOK'
    BY <1>0, <2>1, <2>2 DEF Types, WaitOK
  <2>4. foreign' \in Nat
    BY <1>0, <2>1 DEF Types
  <2>6. Grows
    BY <1>0, <2>1, ChargeGrows DEF Free
  <2>. QED BY <1>0, <2>1, <2>2, <2>3, <2>4, <2>6, Unmoved, Frames DEF Types
<1>. QED BY <1>1, <1>2, <1>3, <1>4 DEF External

LEMMA TypesOfLoop ==
  ASSUME Base, NEW c \in Service,
         Read(c) \/ Reread(c) \/ Take(c) \/ Report(c) \/ Ack(c) \/ Crash(c) \/ Restart(c)
  PROVE  Types' /\ Grows
<1>0. Types /\ LoopOK
  BY DEF Base, Types
<1>1. ASSUME Read(c) \/ Reread(c) PROVE Types' /\ Grows
  <2>1. /\ pc[c] = "read" /\ pc' = [pc EXCEPT ![c] = "take"]
        /\ UNCHANGED <<routing, triage, streams, work, cur, runs, waiting, history, charged, foreign>>
    BY <1>1, DeliverMoves
  <2>2. PICK batch \in SUBSET Job :
              /\ \A j \in batch : Owner(j) = c /\ entry[j] \in {"new", "pending"}
              /\ todo' = [todo EXCEPT ![c] = batch]
              /\ entry' = [j \in Job |-> IF j \in batch THEN "pending" ELSE entry[j]]
              /\ tries' = [j \in Job |-> IF j \in batch THEN tries[j] + 1 ELSE tries[j]]
    BY <1>1, DeliverMoves
  <2>3. LoopOK'
    BY <1>0, <2>1, <2>2, LoopReads
  <2>4. QueueOK'
    BY <1>0, <2>1, <2>2 DEF Types, QueueOK, State
  <2>5. Grows
    BY <1>0, <2>1, ChargeGrows DEF Free
  <2>. QED BY <1>0, <2>1, <2>3, <2>4, <2>5, Unmoved, Frames DEF Types
<1>2. ASSUME Take(c) PROVE Types' /\ Grows
  <2>1. /\ pc[c] = "take"
        /\ UNCHANGED <<routing, queues, streams, work, runs, waiting, history, charged, foreign>>
    BY <1>2, TakeMoves
  <2>2. Grows
    BY <1>0, <2>1, ChargeGrows DEF Free
  <2>3. LoopOK'
    <3>1. CASE Goes(c, "read")
      BY <1>0, <2>1, <3>1, LoopGoes, Places
    <3>2. ASSUME NEW j \in todo[c], todo' = [todo EXCEPT ![c] = todo[c] \ {j}], cur' = [cur EXCEPT ![c] = j],
                 pc' = [pc EXCEPT ![c] = IF c = "manager" THEN "plan" ELSE "ask"]
          PROVE  LoopOK'
      <4>1. (IF c = "manager" THEN "plan" ELSE "ask") \in Location \ Idle
        BY Places
      <4>. QED BY <1>0, <3>2, <4>1, LoopTakes
    <3>. QED BY <1>2, <3>1, <3>2, TakeMoves
  <2>. QED BY <1>0, <2>1, <2>2, <2>3, Unmoved, Frames DEF Types
<1>3. ASSUME Fails(c), pc[c] \notin Idle, UNCHANGED <<tries, triage>> PROVE LoopOK' /\ QueueOK' /\ Grows
  <2>1. Lets(c) /\ Blames(Subject(c)) /\ (UNCHANGED entry \/ Closes(cur[c], "dead"))
    BY <1>3 DEF Fails
  <2>2. cur[c] \in Job
    BY <1>0, <1>3, InHand
  <2>3. LoopOK'
    BY <1>0, <2>1, LoopLets, Places DEF Lets
  <2>4. QueueOK'
    <3>1. CASE UNCHANGED entry
      BY <1>0, <1>3, <3>1, Unmoved DEF queues
    <3>2. CASE Closes(cur[c], "dead")
      BY <1>0, <1>3, <2>2, <3>2, ClosedType DEF Types
    <3>. QED BY <2>1, <3>1, <3>2
  <2>5. Grows
    BY <1>0, <2>1, ChargeGrows
  <2>. QED BY <2>3, <2>4, <2>5
<1>4. ASSUME Report(c) PROVE Types' /\ Grows
  <2>1. /\ pc[c] = "report" /\ pc[c] \notin Idle
        /\ UNCHANGED <<routing, tries, triage, queries, answers, work, runs, history, foreign>>
        /\ EndExecution(c)
        /\ (Goes(c, "ack") /\ Free /\ UNCHANGED entry) \/ Fails(c)
    BY <1>0, <1>4, ReportMoves, Places
  <2>2. ResultsOK'
    BY <1>0, <1>4, <2>1, ReportMoves, PublishedType
  <2>3. WaitOK'
    BY <1>0, <2>1, EndType
  <2>4. LoopOK' /\ QueueOK' /\ Grows
    <3>1. CASE Goes(c, "ack") /\ Free /\ UNCHANGED entry
      BY <1>0, <2>1, <3>1, LoopGoes, Places, Unmoved, ChargeGrows DEF queues
    <3>2. CASE Fails(c)
      BY <1>3, <2>1, <3>2
    <3>. QED BY <2>1, <3>1, <3>2
  <2>. QED BY <1>0, <2>1, <2>2, <2>3, <2>4, Unmoved, Frames DEF Types, Grows
<1>5. ASSUME Ack(c) PROVE Types' /\ Grows
  <2>1. /\ pc[c] = "ack" /\ pc[c] \notin Idle
        /\ UNCHANGED <<routing, tries, triage, queries, answers, work, runs, waiting, history, foreign>>
        /\ \/ Lets(c) /\ Closes(cur[c], "done") /\ (Free \/ Blames(Subject(c)))
           \/ Fails(c)
    BY <1>0, <1>5, AckMoves, Places
  <2>2. ResultsOK'
    BY <1>0, <1>5, <2>1, AckMoves, PublishedType
  <2>4. LoopOK' /\ QueueOK' /\ Grows
    <3>1. CASE Lets(c) /\ Closes(cur[c], "done") /\ (Free \/ Blames(Subject(c)))
      <4>1. cur[c] \in Job
        BY <1>0, <2>1, InHand
      <4>2. QueueOK'
        BY <1>0, <2>1, <3>1, <4>1, ClosedType DEF Types
      <4>3. LoopOK'
        BY <1>0, <3>1, LoopLets, Places DEF Lets
      <4>4. Grows
        BY <1>0, <3>1, ChargeGrows
      <4>. QED BY <4>2, <4>3, <4>4
    <3>2. CASE Fails(c)
      BY <1>3, <2>1, <3>2
    <3>. QED BY <2>1, <3>1, <3>2
  <2>. QED BY <1>0, <2>1, <2>2, <2>4, Unmoved, Frames DEF Types, Grows
<1>6. ASSUME Crash(c) PROVE Types' /\ Grows
  <2>1. /\ pc' = [pc EXCEPT ![c] = "down"] /\ todo' = [todo EXCEPT ![c] = {}]
        /\ cur' = [cur EXCEPT ![c] = NoJob] /\ EndExecution(c)
        /\ UNCHANGED <<routing, queues, streams, work, runs, history, foreign>>
    BY <1>0, <1>6, CrashMoves
  <2>2. Grows
    <3>1. CASE cur[c] = NoJob
      <4>1. mishaps' = mishaps + 1 /\ mishaps' <= MaxMishaps /\ UNCHANGED spent
        BY <1>0, <1>6, <3>1, CrashMoves
      <4>2. spent \in [Email -> Nat] /\ mishaps \in Nat /\ mishaps' \in 0 .. MaxMishaps
        BY <1>0, <4>1, PipelineAssumption DEF Types, ChargedOK
      <4>3. \A x \in Email : spent[x] \in Nat
        BY <4>2
      <4>. QED BY <4>1, <4>2, <4>3 DEF Grows, ChargedOK
    <3>2. CASE cur[c] # NoJob
      BY <1>0, <1>6, <3>2, CrashMoves, ChargeGrows
    <3>. QED BY <3>1, <3>2
  <2>3. LoopOK'
    BY <1>0, <2>1, LoopLets, Places
  <2>4. WaitOK'
    BY <1>0, <2>1, EndType
  <2>. QED BY <1>0, <2>1, <2>2, <2>3, <2>4, Unmoved, Frames DEF Types, Grows
<1>7. ASSUME Restart(c) PROVE Types' /\ Grows
  <2>1. /\ pc[c] = "down" /\ Goes(c, "read")
        /\ UNCHANGED <<routing, queues, streams, work, runs, waiting, history, charged, foreign>>
    BY <1>7 DEF Restart, Goes, Goto
  <2>2. Grows
    BY <1>0, <2>1, ChargeGrows DEF Free
  <2>3. LoopOK'
    BY <1>0, <2>1, LoopGoes, Places
  <2>. QED BY <1>0, <2>1, <2>2, <2>3, Unmoved, Frames DEF Types
<1>. QED BY <1>1, <1>2, <1>4, <1>5, <1>6, <1>7

LEMMA TypesOfManager ==
  ASSUME Base, Plan \/ PollInbound \/ Delegate \/ PollLeads \/ Handover \/ Deadline
  PROVE  Types' /\ Grows
<1>0. Types /\ LoopOK /\ QueueOK /\ "manager" \in Service
  BY Services DEF Base, Types
<1>1. ASSUME NEW l \in Location \ Idle, Goes("manager", l), pc["manager"] \notin Idle PROVE LoopOK'
  BY <1>0, <1>1, LoopGoes
<1>2. ASSUME NEW e, Free \/ Blames(e) PROVE Grows
  BY <1>0, <1>2, ChargeGrows
<1> DEFINE e == Subject("manager")
<1>3. ASSUME Plan PROVE Types' /\ Grows
  <2> DEFINE t == <<e, runs[e] + 1>>
  <2>1. /\ pc["manager"] = "plan" /\ runs' = Increase(runs, e)
        /\ UNCHANGED <<routing, tries, streams, work, waiting, history, foreign>>
        /\ \/ Opened(t) /\ UNCHANGED triage
           \/ triage' = triage \cup {t} /\ UNCHANGED entry
           \/ UNCHANGED <<entry, triage>>
        /\ Free \/ Blames(e)
        /\ Goes("manager", "awaitLeads") \/ Goes("manager", "awaitInbound") \/ Goes("manager", "report")
    BY <1>0, <1>3, PlanMoves
  <2>2. e \in Email /\ t \in Task /\ t \in Job
    BY <2>1, PlanTask, Jobs
  <2>3. QueueOK'
    <3>1. CASE Opened(t) /\ UNCHANGED triage
      BY <1>0, <2>1, <2>2, <3>1, OpenedType DEF QueueOK
    <3>2. CASE UNCHANGED entry /\ (triage' = triage \cup {t} \/ UNCHANGED triage)
      BY <1>0, <2>1, <2>2, <3>2 DEF QueueOK
    <3>. QED BY <2>1, <3>1, <3>2
  <2>4. LoopOK'
    BY <1>1, <2>1, Places
  <2>5. Grows
    BY <1>2, <2>1
  <2>6. runs' \in [Email -> Nat]
    BY <1>0, <2>1, <2>2, IncreasedType DEF Types
  <2>. QED BY <1>0, <2>1, <2>3, <2>4, <2>5, <2>6, Unmoved, Frames DEF Types, Grows
<1>4. ASSUME PollInbound \/ PollLeads \/ Deadline PROVE Types' /\ Grows
  <2>1. /\ pc["manager"] \in {"awaitInbound", "awaitLeads"}
        /\ Goes("manager", "delegate") \/ Goes("manager", "handover") \/ Goes("manager", "report")
        /\ UNCHANGED <<routing, queues, streams, work, runs, waiting, unheard, late, misled, dropped, strays, charged, foreign>>
        /\ gaveUp' = gaveUp \/ gaveUp' = gaveUp \cup {Waited}
    <3>1. CASE PollInbound
      BY <3>1 DEF PollInbound, Goes, Goto, history
    <3>2. CASE PollLeads
      BY <3>2 DEF PollLeads, Goes, Goto, history
    <3>3. CASE Deadline
      BY <3>3 DEF Deadline, Goes, Goto
    <3>. QED BY <1>4, <3>1, <3>2, <3>3
  <2>2. Waited \in Task
    BY <2>1, WaitedTask DEF Idle
  <2>3. HistoryOK'
    BY <1>0, <2>1, <2>2 DEF Types, HistoryOK
  <2>4. LoopOK'
    BY <1>1, <2>1, Places
  <2>5. Grows
    BY <1>2, <2>1 DEF Free
  <2>. QED BY <1>0, <2>1, <2>3, <2>4, <2>5, Unmoved, Frames DEF Types
<1>5. ASSUME Delegate PROVE Types' /\ Grows
  <2>1. /\ pc["manager"] = "delegate" /\ Goes("manager", "report")
        /\ UNCHANGED <<routing, tries, triage, streams, work, runs, waiting, history, foreign>>
        /\ Opened(Waited) \/ UNCHANGED entry
        /\ Free \/ Blames(e)
    BY <1>0, <1>5, DelegateMoves
  <2>2. Waited \in Job
    BY <2>1, WaitedTask, Jobs DEF Idle
  <2>3. QueueOK'
    <3>1. CASE Opened(Waited)
      BY <1>0, <2>1, <2>2, <3>1, OpenedType DEF QueueOK
    <3>2. CASE UNCHANGED entry
      BY <1>0, <2>1, <3>2 DEF QueueOK
    <3>. QED BY <2>1, <3>1, <3>2
  <2>4. LoopOK'
    BY <1>1, <2>1, Places
  <2>5. Grows
    BY <1>2, <2>1
  <2>. QED BY <1>0, <2>1, <2>3, <2>4, <2>5, Unmoved, Frames DEF Types, Grows
<1>6. ASSUME Handover PROVE Types' /\ Grows
  <2>1. /\ pc["manager"] = "handover" /\ Goes("manager", "report")
        /\ UNCHANGED <<routing, queues, streams, stored, promoted, runs, waiting, history, foreign>>
        /\ outbound' = Increase(outbound, e) \/ UNCHANGED outbound
        /\ Free \/ Blames(e)
    BY <1>0, <1>6, HandoverMoves
  <2>2. e \in Email
    BY <2>1, WaitedTask DEF Idle
  <2>3. WorkOK'
    BY <1>0, <2>1, <2>2, IncreasedType DEF Types, WorkOK
  <2>4. LoopOK'
    BY <1>1, <2>1, Places
  <2>5. Grows
    BY <1>2, <2>1
  <2>. QED BY <1>0, <2>1, <2>3, <2>4, <2>5, Unmoved, Frames DEF Types, Grows
<1>. QED BY <1>3, <1>4, <1>5, <1>6

(* What an answer says is a table.                                         *)
LEMMA Learned ==
  ASSUME Types, Learn
  PROVE  context' \in Place
<1>1. CASE Heard = {} /\ context' = "new"
  BY <1>1 DEF Place
<1>2. CASE \E i \in Heard : context' = answers[i].place
  <2>1. PICK i \in Heard : context' = answers[i].place
    BY <1>2
  <2>2. answers \in Seq(RagAnswer) /\ from \in Nat
    BY DEF Types, AnswersOK, WaitOK
  <2>3. answers[i] \in RagAnswer
    BY <2>1, <2>2 DEF Heard
  <2>. QED BY <2>1, <2>3 DEF RagAnswer
<1>. QED BY <1>1, <1>2 DEF Learn

LEMMA TypesOfLeads ==
  ASSUME Base, Ask \/ FindTail \/ Hear \/ BlockForever \/ GiveUp \/ Store \/ Promote
  PROVE  Types' /\ Grows
<1>0. Types /\ LoopOK /\ "leads" \in Service
  BY Services DEF Base, Types
<1>1. ASSUME NEW l \in Location \ Idle, Goes("leads", l), pc["leads"] \notin Idle PROVE LoopOK'
  BY <1>0, <1>1, LoopGoes
<1>2. ASSUME NEW e, Free \/ Blames(e) PROVE Grows
  BY <1>0, <1>2, ChargeGrows
<1> DEFINE e == Subject("leads")
<1>3. pc["leads"] \notin Idle => e \in Email
  BY <1>0, InHand
<1>4. ASSUME Ask PROVE Types' /\ Grows
  <2>1. /\ pc["leads"] = "ask" /\ context' = "new" /\ packing' \in BOOLEAN
        /\ UNCHANGED <<routing, queues, results, answers, work, runs, dollar, from, history, foreign>>
        /\ Goes("leads", "tail") \/ Goes("leads", "store")
        /\ queries' \in {queries, queries + 1}
        /\ Free \/ Blames(e)
    BY <1>0, <1>4, AskMoves
  <2>2. AnswersOK' /\ WaitOK'
    <3>1. queries' \in Nat /\ answers' \in Seq(RagAnswer)
      BY <1>0, <2>1 DEF Types, AnswersOK
    <3>2. dollar' \in BOOLEAN /\ from' \in Nat /\ context' \in Place
      BY <1>0, <2>1 DEF Types, WaitOK, Place
    <3>. QED BY <2>1, <3>1, <3>2 DEF AnswersOK, WaitOK
  <2>3. LoopOK'
    BY <1>1, <2>1, Places
  <2>4. Grows
    BY <1>2, <2>1
  <2>. QED BY <1>0, <2>1, <2>2, <2>3, <2>4, Unmoved, Frames DEF Types, Grows
<1>5. ASSUME FindTail PROVE Types' /\ Grows
  <2>1. /\ pc["leads"] = "tail" /\ Goes("leads", "wait") /\ from' = Len(answers) /\ dollar' \in BOOLEAN
        /\ Free \/ Blames(e)
        /\ UNCHANGED <<routing, queues, streams, work, runs, packing, context, history, foreign>>
    BY <1>0, <1>5, FindTailMoves
  <2>2. WaitOK'
    BY <1>0, <2>1 DEF Types, AnswersOK, WaitOK
  <2>3. LoopOK'
    BY <1>1, <2>1, Places
  <2>4. Grows
    BY <1>2, <2>1
  <2>. QED BY <1>0, <2>1, <2>2, <2>3, <2>4, Unmoved, Frames DEF Types, Grows
<1>6. ASSUME Hear \/ BlockForever \/ GiveUp PROVE Types' /\ Grows
  <2>1. /\ pc["leads"] \in {"wait", "stuck"}
        /\ Goes("leads", "store") \/ Goes("leads", "stuck") \/ UNCHANGED <<pc, todo, cur>>
        /\ UNCHANGED <<routing, queues, streams, work, runs, packing, gaveUp, unheard, misled, dropped, strays, charged, foreign>>
        /\ late' = late \/ late' = late \cup {e}
        /\ context' \in Place /\ dollar' \in {FALSE, dollar} /\ from' \in {0, from, Len(answers)}
    <3>0. context \in Place
      BY <1>0 DEF Types, WaitOK
    <3>1. CASE Hear
      <4>1. /\ pc["leads"] \in {"wait", "stuck"}
            /\ UNCHANGED <<routing, queues, streams, work, todo, cur, runs, packing, gaveUp, unheard, misled, dropped,
                           strays, charged, foreign>>
            /\ Learn /\ dollar' = FALSE
            /\ \/ Goto("leads", "store") /\ from' = 0
               \/ UNCHANGED pc /\ from' = Len(answers)
            /\ late' = late \/ late' = late \cup {Subject("leads")}
        BY <3>1 DEF Hear, Reading
      <4>2. context' \in Place
        BY <1>0, <4>1, Learned
      <4>. QED BY <4>1, <4>2 DEF Goes, Goto
    <3>2. CASE BlockForever
      BY <3>0, <3>2 DEF BlockForever, Goes, Goto, waiting, history
    <3>3. CASE GiveUp
      BY <3>0, <3>3 DEF GiveUp, Goes, Goto
    <3>. QED BY <1>6, <3>1, <3>2, <3>3
  <2>2. WaitOK'
    <3>1. Len(answers) \in Nat /\ from \in Nat /\ 0 \in Nat
      BY <1>0 DEF Types, AnswersOK, WaitOK
    <3>2. from' \in Nat
      BY <2>1, <3>1
    <3>3. packing \in BOOLEAN /\ context \in Place /\ dollar \in BOOLEAN
      BY <1>0 DEF Types, WaitOK
    <3>4. context' \in Place /\ dollar' \in BOOLEAN /\ packing' \in BOOLEAN
      BY <2>1, <3>3
    <3>. QED BY <3>2, <3>4 DEF WaitOK
  <2>3. HistoryOK'
    BY <1>0, <1>3, <2>1, Places DEF Types, HistoryOK
  <2>4. LoopOK'
    BY <1>0, <1>1, <2>1, Places, Unmoved DEF loop
  <2>5. Grows
    BY <1>2, <2>1 DEF Free
  <2>. QED BY <1>0, <2>1, <2>2, <2>3, <2>4, <2>5, Unmoved, Frames DEF Types
<1>7. ASSUME Store PROVE Types' /\ Grows
  <2>1. /\ pc["leads"] = "store" /\ promoted' = promoted
        /\ UNCHANGED <<routing, queues, streams, outbound, runs, waiting, gaveUp, unheard, late, misled, dropped, foreign>>
        /\ Goes("leads", "promote") \/ Goes("leads", "report")
        /\ Free \/ Blames(e)
        /\ stored' = Increase(stored, e) \/ UNCHANGED stored
        /\ strays' = strays \/ strays' = strays \cup {e}
    BY <1>0, <1>7, StoreMoves
  <2>2. e \in Email
    BY <1>3, <2>1, Places
  <2>3. WorkOK'
    BY <1>0, <2>1, <2>2, IncreasedType DEF Types, WorkOK
  <2>4. HistoryOK'
    BY <1>0, <2>1, <2>2 DEF Types, HistoryOK
  <2>5. LoopOK'
    BY <1>1, <2>1, Places
  <2>6. Grows
    BY <1>2, <2>1
  <2>. QED BY <1>0, <2>1, <2>3, <2>4, <2>5, <2>6, Unmoved, Frames DEF Types, Grows
<1>8. ASSUME Promote PROVE Types' /\ Grows
  <2>1. /\ pc["leads"] = "promote" /\ Goes("leads", "report")
        /\ UNCHANGED <<routing, queues, streams, outbound, stored, runs, waiting, history, foreign>>
        /\ promoted' = Increase(promoted, e) \/ UNCHANGED promoted
        /\ Free \/ Blames(e)
    BY <1>0, <1>8, PromoteMoves
  <2>2. e \in Email
    BY <1>3, <2>1, Places
  <2>3. WorkOK'
    BY <1>0, <2>1, <2>2, IncreasedType DEF Types, WorkOK
  <2>5. LoopOK'
    BY <1>1, <2>1, Places
  <2>6. Grows
    BY <1>2, <2>1
  <2>. QED BY <1>0, <2>1, <2>3, <2>5, <2>6, Unmoved, Frames DEF Types, Grows
<1>. QED BY <1>4, <1>5, <1>6, <1>7, <1>8

LEMMA TypesKept ==
  ASSUME Base, [Next]_vars
  PROVE  Types' /\ Grows
<1>0. Types
  BY DEF Base
<1>1. CASE Next
  BY <1>1, TypesOfExternal, TypesOfLoop, TypesOfManager, TypesOfLeads DEF Next, Step
<1>2. CASE UNCHANGED vars
  <2>1. Grows
    BY <1>0, <1>2, ChargeGrows DEF vars, Free
  <2>2. UNCHANGED <<routing, queues, streams, work, loop, runs, waiting, history, charged, foreign>>
    BY <1>2 DEF vars
  <2>. QED BY <1>0, <2>1, <2>2, Unmoved, Frames DEF Types
<1>. QED BY <1>1, <1>2

-----------------------------------------------------------------------------
(* The kinds of steps, by what they do to entries, loops and executions.   *)
Working == Location \ (Idle \cup {"plan"})
Stands == UNCHANGED <<entry, pc, todo, cur, runs>>
Enters(e) == entry[<<e, 0>>] = "absent" /\ Opened(<<e, 0>>) /\ UNCHANGED <<pc, todo, cur, runs>>
Plans(e) ==
  LET t == <<e, runs[e] + 1>> IN
  /\ pc["manager"] = "plan" /\ runs' = Increase(runs, e)
  /\ \/ Opened(t) /\ Free /\ Goes("manager", "awaitLeads")
     \/ UNCHANGED entry /\ Free /\ Goes("manager", "awaitInbound")
     \/ (Opened(t) \/ UNCHANGED entry) /\ Blames(e) /\ Goes("manager", "report")
Delegates ==
  pc["manager"] = "delegate" /\ Opened(Waited) /\ Goes("manager", "report") /\ UNCHANGED runs
Advances(c, l) ==
  /\ pc[c] \in Working /\ l \in Working /\ Goes(c, l) /\ UNCHANGED <<entry, runs>>
  /\ l \in {"awaitInbound", "delegate"} => pc[c] = "awaitInbound"
  /\ l \in {"awaitLeads", "handover"} => pc[c] = "awaitLeads"
  /\ l = "ack" => pc[c] = "report"
  /\ pc[c] \in {"promote", "report", "ack"} => l \in {"report", "ack"}
Delivers(c) ==
  /\ pc[c] = "read" /\ pc' = [pc EXCEPT ![c] = "take"] /\ UNCHANGED <<cur, runs>>
  /\ \E batch \in SUBSET Job :
       /\ \A j \in batch : Owner(j) = c /\ entry[j] \in {"new", "pending"}
       /\ todo' = [todo EXCEPT ![c] = batch]
       /\ entry' = [j \in Job |-> IF j \in batch THEN "pending" ELSE entry[j]]
Takes(c, j) ==
  /\ pc[c] = "take" /\ j \in todo[c] /\ UNCHANGED <<entry, runs>>
  /\ todo' = [todo EXCEPT ![c] = todo[c] \ {j}] /\ cur' = [cur EXCEPT ![c] = j]
  /\ pc' = [pc EXCEPT ![c] = IF c = "manager" THEN "plan" ELSE "ask"]
Idles(c) == pc[c] \in Idle /\ Goes(c, "read") /\ UNCHANGED <<entry, runs>>
Finishes(c) ==
  /\ pc[c] \in {"report", "ack"} /\ Lets(c) /\ UNCHANGED runs
  /\ \/ \E s \in {"done", "dead"} : Closes(cur[c], s)
     \/ UNCHANGED entry /\ Blames(Subject(c))
Crashes(c) ==
  /\ pc' = [pc EXCEPT ![c] = "down"] /\ todo' = [todo EXCEPT ![c] = {}]
  /\ cur' = [cur EXCEPT ![c] = NoJob] /\ UNCHANGED <<entry, runs>>
  /\ cur[c] # NoJob => Blames(Subject(c))

KindOfExternal == Stands \/ \E e \in Email : Enters(e)
KindOfManager ==
  Plans(Subject("manager")) \/ Delegates \/ \E l \in Working : Advances("manager", l)
KindOfLeads == Stands \/ \E l \in Working : Advances("leads", l)
KindOfLoop(c) ==
  \/ Delivers(c) \/ (\E j \in todo[c] : Takes(c, j)) \/ Idles(c) \/ Finishes(c) \/ Crashes(c)
  \/ Advances(c, "ack")

LEMMA Workplaces ==
  {"awaitInbound", "delegate", "awaitLeads", "handover", "report", "ack",
   "ask", "tail", "wait", "stuck", "store", "promote"} \subseteq Working
BY DEF Working, Location, Idle

LEMMA ExternalKinds == ASSUME Types, External PROVE KindOfExternal
<1>1. ASSUME NEW e \in Email, Submit(e) PROVE Enters(e)
  BY <1>1 DEF Submit, Enters, Opened, loop
<1>2. ASSUME NEW t \in Task, InboundAnswers(t) PROVE Stands
  BY <1>2, InboundMoves DEF Stands, loop
<1>3. ASSUME RagAnswers PROVE Stands
  BY <1>3 DEF RagAnswers, Stands, loop, queues
<1>4. ASSUME NEW s \in {"inbound", "leads", "rag"}, Foreign(s) PROVE Stands
  BY <1>4 DEF Foreign, Stands, loop, queues
<1>. QED BY <1>1, <1>2, <1>3, <1>4 DEF External, KindOfExternal

LEMMA ManagerKinds ==
  ASSUME Types, Plan \/ PollInbound \/ Delegate \/ PollLeads \/ Handover \/ Deadline
  PROVE  KindOfManager
<1>1. ASSUME Plan PROVE Plans(Subject("manager"))
  BY <1>1, PlanMoves DEF Plans
<1>2. ASSUME PollInbound \/ PollLeads \/ Deadline PROVE \E l \in Working : Advances("manager", l)
  <2>1. CASE PollInbound
    BY <2>1, Workplaces DEF PollInbound, Advances, Goes, Goto, queues
  <2>2. CASE PollLeads
    BY <2>2, Workplaces DEF PollLeads, Advances, Goes, Goto, queues
  <2>3. CASE Deadline
    <3>1. pc["manager"] \in Working /\ Goes("manager", "report") /\ UNCHANGED <<entry, runs>>
      BY <2>3, Workplaces DEF Deadline, Goes, Goto, queues
    <3>2. Advances("manager", "report")
      BY <3>1, Workplaces DEF Advances
    <3>. QED BY <3>2, Workplaces
  <2>. QED BY <1>2, <2>1, <2>2, <2>3
<1>3. ASSUME Delegate PROVE Delegates \/ Advances("manager", "report")
  BY <1>3, DelegateMoves, Workplaces DEF Delegates, Advances
<1>4. ASSUME Handover PROVE Advances("manager", "report")
  BY <1>4, HandoverMoves, Workplaces DEF Advances, queues
<1>. QED BY <1>1, <1>2, <1>3, <1>4, Workplaces DEF KindOfManager

LEMMA LeadsKinds ==
  ASSUME Types, Ask \/ FindTail \/ Hear \/ BlockForever \/ GiveUp \/ Store \/ Promote
  PROVE  KindOfLeads
<1> DEFINE Moves(l) == /\ pc["leads"] \in Working /\ Goes("leads", l) /\ UNCHANGED <<entry, runs>>
                       /\ pc["leads"] \notin {"report", "ack"} /\ (pc["leads"] = "promote" => l = "report")
<1>0. ASSUME NEW l \in {"tail", "wait", "stuck", "store", "promote", "report"}, Moves(l) PROVE KindOfLeads
  <2>1. l \in Working /\ Advances("leads", l)
    BY <1>0, Workplaces DEF Advances
  <2>. QED BY <2>1 DEF KindOfLeads
<1>1. CASE Ask
  <2>1. pc["leads"] = "ask" /\ UNCHANGED <<queues, runs>> /\ (Goes("leads", "tail") \/ Goes("leads", "store"))
    BY <1>1, AskMoves
  <2>2. Moves("tail") \/ Moves("store")
    BY <2>1, Workplaces DEF queues
  <2>. QED BY <2>2, <1>0
<1>2. CASE FindTail
  <2>1. Moves("wait")
    BY <1>2, FindTailMoves, Workplaces DEF queues
  <2>. QED BY <2>1, <1>0
<1>3. CASE Hear
  <2>1. Stands \/ Moves("store")
    BY <1>3, Workplaces DEF Hear, Stands, Goes, Goto, queues, Reading
  <2>. QED BY <2>1, <1>0 DEF KindOfLeads
<1>4. CASE BlockForever
  <2>1. Moves("stuck")
    BY <1>4, Workplaces DEF BlockForever, Goes, Goto, queues
  <2>. QED BY <2>1, <1>0
<1>5. CASE GiveUp
  <2>1. Moves("store")
    BY <1>5, Workplaces DEF GiveUp, Goes, Goto, queues
  <2>. QED BY <2>1, <1>0
<1>6. CASE Store
  <2>1. pc["leads"] = "store" /\ UNCHANGED <<queues, runs>> /\ (Goes("leads", "promote") \/ Goes("leads", "report"))
    BY <1>6, StoreMoves
  <2>2. Moves("promote") \/ Moves("report")
    BY <2>1, Workplaces DEF queues
  <2>. QED BY <2>2, <1>0
<1>7. CASE Promote
  <2>1. Moves("report")
    BY <1>7, PromoteMoves, Workplaces DEF queues
  <2>. QED BY <2>1, <1>0
<1>. QED BY <1>1, <1>2, <1>3, <1>4, <1>5, <1>6, <1>7

LEMMA LoopKinds ==
  ASSUME Types, NEW c \in Service,
         Read(c) \/ Reread(c) \/ Take(c) \/ Report(c) \/ Ack(c) \/ Crash(c) \/ Restart(c)
  PROVE  KindOfLoop(c)
<1>1. ASSUME Read(c) \/ Reread(c) PROVE Delivers(c)
  BY <1>1, DeliverMoves DEF Delivers
<1>2. ASSUME Take(c) PROVE Idles(c) \/ \E j \in todo[c] : Takes(c, j)
  <2>1. pc[c] = "take" /\ UNCHANGED <<entry, runs>>
    BY <1>2, TakeMoves DEF queues
  <2>. QED BY <1>2, <2>1, TakeMoves, Places DEF Idles, Takes
<1>3. ASSUME Report(c) PROVE Finishes(c) \/ Advances(c, "ack")
  BY <1>3, ReportMoves, Workplaces DEF Finishes, Advances, Fails
<1>4. ASSUME Ack(c) PROVE Finishes(c)
  BY <1>4, AckMoves DEF Finishes, Fails
<1>5. ASSUME Crash(c) PROVE Crashes(c)
  BY <1>5, CrashMoves DEF Crashes, queues
<1>6. ASSUME Restart(c) PROVE Idles(c)
  BY <1>6, Places DEF Restart, Idles, Goes, Goto, queues
<1>. QED BY <1>1, <1>2, <1>3, <1>4, <1>5, <1>6 DEF KindOfLoop

LEMMA Kinds ==
  ASSUME Types, [Next]_vars
  PROVE  KindOfExternal \/ KindOfManager \/ KindOfLeads \/ \E c \in Service : KindOfLoop(c)
<1>1. CASE Next
  BY <1>1, ExternalKinds, ManagerKinds, LeadsKinds, LoopKinds DEF Next, Step
<1>2. CASE UNCHANGED vars
  BY <1>2 DEF vars, queues, loop, KindOfExternal, Stands
<1>. QED BY <1>1, <1>2

-----------------------------------------------------------------------------
(* What is held stays pending.                                             *)
LEMMA HeldStays ==
  ASSUME Types, Types', Held,
         \A j \in Job : entry[j] = "pending" => entry'[j] = "pending",
         \A c \in Service : todo'[c] \subseteq todo[c] /\ cur'[c] \in {cur[c], NoJob}
  PROVE  Held'
<1>. SUFFICES ASSUME NEW c \in Service
              PROVE  /\ \A j \in todo'[c] : entry'[j] = "pending" /\ j # cur'[c]
                     /\ cur'[c] # NoJob => entry'[cur'[c]] = "pending"
  BY DEF Held
<1>1. todo[c] \subseteq Job /\ cur[c] \in Job \cup {NoJob} /\ NoJob \notin Job
  BY PipelineAssumption DEF Types, LoopOK
<1>2. \A j \in todo'[c] : entry'[j] = "pending" /\ j # cur'[c]
  BY <1>1 DEF Held
<1>3. cur'[c] # NoJob => entry'[cur'[c]] = "pending"
  BY <1>1 DEF Held
<1>. QED BY <1>2, <1>3

LEMMA HeldOpened ==
  ASSUME Types, Types', Held, NEW t \in Job, entry[t] = "absent", Opened(t), UNCHANGED <<todo, cur>>
  PROVE  Held'
<1>1. \A j \in Job : entry[j] = "pending" => entry'[j] = "pending"
  BY DEF Opened, Types, QueueOK
<1>. QED BY <1>1, HeldStays

LEMMA HeldClosed ==
  ASSUME Types, Types', Held, NEW c \in Service, cur[c] # NoJob, NEW s, Closes(cur[c], s), Lets(c)
  PROVE  Held'
<1>1. \A j \in Job : entry'[j] = IF j = cur[c] THEN s ELSE entry[j]
  BY DEF Closes, Types, QueueOK
<1>2. cur' = [x \in Service |-> IF x = c THEN NoJob ELSE cur[x]] /\ todo' = todo
  BY DEF Lets, Types, LoopOK
<1>3. Owner(cur[c]) = c
  BY DEF Types, LoopOK, Fit
<1>. SUFFICES ASSUME NEW x \in Service
              PROVE  /\ \A j \in todo'[x] : entry'[j] = "pending" /\ j # cur'[x]
                     /\ cur'[x] # NoJob => entry'[cur'[x]] = "pending"
  BY DEF Held
<1>4. todo[x] \subseteq Job /\ cur[x] \in Job \cup {NoJob} /\ NoJob \notin Job
  BY PipelineAssumption DEF Types, LoopOK
<1>5. x # c => \A j \in todo[x] \cup ({cur[x]} \ {NoJob}) : j # cur[c]
  BY <1>3 DEF Types, LoopOK, Fit
<1>6. \A j \in todo[x] : entry[j] = "pending" /\ j # cur[x] /\ j \in Job
  BY <1>4 DEF Held
<1>7. cur[x] # NoJob => entry[cur[x]] = "pending" /\ cur[x] \in Job
  BY <1>4 DEF Held
<1>8. \A j \in todo'[x] : entry'[j] = "pending" /\ j # cur'[x]
  BY <1>1, <1>2, <1>4, <1>5, <1>6
<1>9. cur'[x] # NoJob => entry'[cur'[x]] = "pending"
  BY <1>1, <1>2, <1>4, <1>5, <1>7
<1>. QED BY <1>8, <1>9

LEMMA HeldDelivered ==
  ASSUME Types, Types', Held, NEW c \in Service, Delivers(c)
  PROVE  Held'
<1>1. PICK batch \in SUBSET Job :
        /\ todo' = [todo EXCEPT ![c] = batch]
        /\ entry' = [j \in Job |-> IF j \in batch THEN "pending" ELSE entry[j]]
  BY DEF Delivers
<1>2. todo' = [x \in Service |-> IF x = c THEN batch ELSE todo[x]] /\ cur' = cur /\ cur[c] = NoJob
  BY <1>1 DEF Types, LoopOK, Fit, Delivers, Idle
<1>. SUFFICES ASSUME NEW x \in Service
              PROVE  /\ \A j \in todo'[x] : entry'[j] = "pending" /\ j # cur'[x]
                     /\ cur'[x] # NoJob => entry'[cur'[x]] = "pending"
  BY DEF Held
<1>3. todo[x] \subseteq Job /\ cur[x] \in Job \cup {NoJob} /\ NoJob \notin Job
  BY PipelineAssumption DEF Types, LoopOK
<1>4. \A j \in todo[x] : entry[j] = "pending" /\ j # cur[x] /\ j \in Job
  BY <1>3 DEF Held
<1>5. cur[x] # NoJob => entry[cur[x]] = "pending" /\ cur[x] \in Job
  BY <1>3 DEF Held
<1>6. \A j \in todo'[x] : entry'[j] = "pending" /\ j # cur'[x]
  BY <1>1, <1>2, <1>3, <1>4
<1>. QED BY <1>1, <1>2, <1>5, <1>6

LEMMA HeldTaken ==
  ASSUME Types, Types', Held, NEW c \in Service, NEW j \in todo[c], Takes(c, j)
  PROVE  Held'
<1>1. /\ todo' = [x \in Service |-> IF x = c THEN todo[c] \ {j} ELSE todo[x]]
      /\ cur' = [x \in Service |-> IF x = c THEN j ELSE cur[x]]
      /\ entry' = entry
  BY DEF Types, LoopOK, Takes
<1>. SUFFICES ASSUME NEW x \in Service
              PROVE  /\ \A k \in todo'[x] : entry'[k] = "pending" /\ k # cur'[x]
                     /\ cur'[x] # NoJob => entry'[cur'[x]] = "pending"
  BY DEF Held
<1>2. \A k \in todo[x] : entry[k] = "pending" /\ k # cur[x]
  BY DEF Held
<1>3. cur[x] # NoJob => entry[cur[x]] = "pending"
  BY DEF Held
<1>4. entry[j] = "pending"
  BY DEF Held
<1>. QED BY <1>1, <1>2, <1>3, <1>4

LEMMA HeldKept ==
  ASSUME Base, [Next]_vars
  PROVE  Held'
<1>1. Types /\ Types' /\ Held
  BY TypesKept DEF Base
<1>2. ASSUME UNCHANGED <<entry, todo, cur>> PROVE Held'
  <2>1. \A c \in Service : todo'[c] \subseteq todo[c] /\ cur'[c] \in {cur[c], NoJob}
    BY <1>2
  <2>2. \A j \in Job : entry[j] = "pending" => entry'[j] = "pending"
    BY <1>2
  <2>. QED BY <1>1, <2>1, <2>2, HeldStays
<1>3. CASE KindOfExternal
  <2>1. CASE Stands
    BY <1>2, <2>1 DEF Stands
  <2>2. ASSUME NEW e \in Email, Enters(e) PROVE Held'
    BY <1>1, <2>2, HeldOpened, Jobs DEF Enters
  <2>. QED BY <1>3, <2>1, <2>2 DEF KindOfExternal
<1>4. CASE KindOfManager
  <2>1. CASE Plans(Subject("manager"))
    <3> DEFINE e == Subject("manager")  t == <<e, runs[e] + 1>>
    <3>1. pc["manager"] = "plan" /\ UNCHANGED <<todo, cur>> /\ (Opened(t) \/ UNCHANGED entry)
      BY <2>1 DEF Plans, Goes
    <3>2. t \in Job /\ entry[t] = "absent"
      BY <3>1, PlanTask, Jobs DEF Base
    <3>. QED BY <1>1, <1>2, <3>1, <3>2, HeldOpened
  <2>2. CASE Delegates
    <3>1. pc["manager"] = "delegate" /\ UNCHANGED <<todo, cur>> /\ Opened(Waited)
      BY <2>2 DEF Delegates, Goes
    <3>2. Waited \in Job /\ entry[Waited] = "absent"
      BY <3>1, WaitedTask, Jobs DEF Idle
    <3>. QED BY <1>1, <3>1, <3>2, HeldOpened
  <2>3. ASSUME NEW l \in Working, Advances("manager", l) PROVE Held'
    BY <1>2, <2>3 DEF Advances, Goes
  <2>. QED BY <1>4, <2>1, <2>2, <2>3 DEF KindOfManager
<1>5. CASE KindOfLeads
  BY <1>2, <1>5 DEF KindOfLeads, Stands, Advances, Goes
<1>6. ASSUME NEW c \in Service, KindOfLoop(c) PROVE Held'
  <2>1. CASE Delivers(c)
    BY <1>1, <2>1, HeldDelivered
  <2>2. ASSUME NEW j \in todo[c], Takes(c, j) PROVE Held'
    BY <1>1, <2>2, HeldTaken
  <2>3. CASE Idles(c) \/ Advances(c, "ack")
    BY <1>2, <2>3 DEF Idles, Advances, Goes
  <2>4. CASE Finishes(c)
    <3>1. Lets(c) /\ pc[c] \in {"report", "ack"}
      BY <2>4 DEF Finishes
    <3>2. cur[c] # NoJob
      BY <1>1, <3>1, InHand, Places DEF Types
    <3>3. CASE UNCHANGED entry
      <4>1. \A x \in Service : todo'[x] \subseteq todo[x] /\ cur'[x] \in {cur[x], NoJob}
        BY <1>1, <3>1 DEF Lets, Types, LoopOK
      <4>. QED BY <1>1, <3>3, <4>1, HeldStays
    <3>. QED BY <1>1, <2>4, <3>1, <3>2, <3>3, HeldClosed DEF Finishes
  <2>5. CASE Crashes(c)
    <3>1. \A x \in Service : todo'[x] \subseteq todo[x] /\ cur'[x] \in {cur[x], NoJob}
      BY <1>1, <2>5 DEF Crashes, Types, LoopOK
    <3>2. \A j \in Job : entry[j] = "pending" => entry'[j] = "pending"
      BY <2>5 DEF Crashes
    <3>. QED BY <1>1, <3>1, <3>2, HeldStays
  <2>. QED BY <1>6, <2>1, <2>2, <2>3, <2>4, <2>5 DEF KindOfLoop
<1>. QED BY <1>1, <1>3, <1>4, <1>5, <1>6, Kinds

-----------------------------------------------------------------------------
(* The ledger of executions, email by email.  For most steps nothing of it *)
(* moves.                                                                  *)
Rests(e) ==
  /\ runs'[e] = runs[e]
  /\ Manages(e)' <=> Manages(e)
  /\ Manages(e) => pc'["manager"] = pc["manager"]
  /\ Unsettled(<<e, 0>>)' => Unsettled(<<e, 0>>)
  /\ \A n \in Run \ {0} : entry[<<e, n>>] = "absent" => entry'[<<e, n>>] = "absent"

Numbers(e) ==
  /\ runs[e] \in Nat /\ runs'[e] \in Nat /\ spent[e] \in Nat /\ spent'[e] \in Nat
  /\ mishaps \in Nat /\ mishaps' \in Nat /\ spent[e] <= spent'[e] /\ spent'[e] <= mishaps'

LEMMA NumbersOf ==
  ASSUME Types, Types', Grows, NEW e \in Email, spent[e] <= mishaps
  PROVE  Numbers(e)
<1>1. /\ spent[e] \in Nat /\ spent'[e] \in Nat /\ spent[e] <= spent'[e] /\ spent'[e] - spent[e] <= mishaps' - mishaps
  BY DEF Grows
<1>2. mishaps \in Nat /\ mishaps' \in Nat
  BY PipelineAssumption DEF Types, ChargedOK
<1>3. runs[e] \in Nat /\ runs'[e] \in Nat
  BY DEF Types
<1>. QED BY <1>1, <1>2, <1>3 DEF Numbers

LEMMA RunOf ==
  ASSUME Types, NEW e \in Email, RunsPaid(e)
  PROVE  runs[e] \in Run
<1>1. runs[e] \in Nat /\ spent[e] \in Nat /\ mishaps \in 0 .. MaxMishaps /\ MaxMishaps \in Nat
  BY PipelineAssumption DEF Types, ChargedOK
<1>2. Credit(Fresh(e)) \in {0, 1}
  BY DEF Credit
<1>. QED BY <1>1, <1>2 DEF RunsPaid, Run

LEMMA RestsKept ==
  ASSUME Types, Types', Grows, NEW e \in Email, RunsPaid(e), Numbered(e), Rests(e)
  PROVE  RunsPaid(e)' /\ Numbered(e)'
<1>1. Numbers(e) /\ runs[e] \in Run
  BY NumbersOf, RunOf DEF RunsPaid
<1>2. Fresh(e)' => Fresh(e)
  BY DEF Fresh, Rests
<1>3. Credit(Fresh(e)') <= Credit(Fresh(e)) /\ Credit(Fresh(e)') \in {0, 1} /\ Credit(Fresh(e)) \in {0, 1}
  BY <1>2 DEF Credit
<1>4. RunsPaid(e)'
  <2>1. Credit(Fresh(e))' = Credit(Fresh(e)')
    BY DEF Credit
  <2>. QED BY <1>1, <1>3, <2>1 DEF RunsPaid, Rests, Numbers
<1>5. Numbered(e)'
  <2>1. \A n \in Run \ {0} : n > runs'[e] => entry'[<<e, n>>] = "absent"
    BY DEF Rests, Numbered
  <2>2. Manages(e)' /\ pc'["manager"] # "plan" => runs'[e] > 0
    BY DEF Rests, Numbered
  <2>3. Manages(e)' /\ pc'["manager"] \in {"awaitInbound", "delegate"} => entry'[<<e, runs'[e]>>] = "absent"
    <3>1. ASSUME Manages(e)', pc'["manager"] \in {"awaitInbound", "delegate"} PROVE entry'[<<e, runs'[e]>>] = "absent"
      <4>1. entry[<<e, runs[e]>>] = "absent" /\ runs[e] > 0
        BY <3>1 DEF Rests, Numbered
      <4>. QED BY <1>1, <4>1 DEF Rests
    <3>. QED BY <3>1
  <2>. QED BY <2>1, <2>2, <2>3 DEF Numbered
<1>. QED BY <1>4, <1>5

(* A step of the Manager with the email in hand, beyond the plan.          *)
LEMMA AtWork ==
  ASSUME Base, Types', Grows, NEW e \in Email, e = Subject("manager"), pc["manager"] \in Working,
         runs' = runs, Manages(e)', pc'["manager"] # "plan",
         \A n \in Run \ {0} : n > runs[e] => entry'[<<e, n>>] = "absent",
         pc'["manager"] \in {"awaitInbound", "delegate"} => entry'[<<e, runs[e]>>] = "absent"
  PROVE  RunsPaid(e)' /\ Numbered(e)'
<1>1. Types /\ RunsPaid(e) /\ Numbered(e)
  BY DEF Base
<1>2. ~Fresh(e) /\ runs[e] \in Run \ {0}
  BY WaitedTask DEF Working
<1>3. Numbers(e)
  BY <1>1, NumbersOf DEF RunsPaid
<1>4. ~Fresh(e)'
  BY DEF Fresh
<1>5. Credit(Fresh(e)) = 0 /\ Credit(Fresh(e))' = 0
  BY <1>2, <1>4 DEF Credit
<1>6. RunsPaid(e)'
  BY <1>1, <1>3, <1>5 DEF RunsPaid, Numbers
<1>7. runs[e] > 0
  BY <1>2, <1>3 DEF Numbers
<1>. QED BY <1>6, <1>7 DEF Numbered

(* The Manager lets go of the email.                                       *)
LEMMA AtEnd ==
  ASSUME Base, Types', Grows, NEW e \in Email, Manages(e), ~Manages(e)', UNCHANGED runs,
         \A n \in Run \ {0} : entry'[<<e, n>>] = entry[<<e, n>>],
         \/ entry'[<<e, 0>>] \in {"done", "dead"} /\ pc["manager"] # "plan"
         \/ Blames(e)
  PROVE  RunsPaid(e)' /\ Numbered(e)'
<1>1. Types /\ RunsPaid(e) /\ Numbered(e)
  BY DEF Base
<1>2. Numbers(e)
  BY <1>1, NumbersOf DEF RunsPaid
<1>3. Numbered(e)'
  BY <1>1 DEF Numbered
<1>4. Credit(Fresh(e)) \in {0, 1} /\ Credit(Fresh(e))' \in {0, 1}
  BY DEF Credit
<1>5. CASE entry'[<<e, 0>>] \in {"done", "dead"} /\ pc["manager"] # "plan"
  <2>1. Credit(Fresh(e))' = 0
    BY <1>5 DEF Credit, Fresh, Unsettled
  <2>. QED BY <1>1, <1>2, <1>3, <1>4, <2>1 DEF RunsPaid, Numbers
<1>6. CASE Blames(e)
  <2>1. spent'[e] = spent[e] + 1
    BY <1>1, <1>6, ChargeType DEF Types
  <2>. QED BY <1>1, <1>2, <1>3, <1>4, <2>1 DEF RunsPaid, Numbers
<1>. QED BY <1>5, <1>6

LEMMA AtPlan ==
  ASSUME Base, Types', Grows, NEW e \in Email, e = Subject("manager"), Plans(e)
  PROVE  RunsPaid(e)' /\ Numbered(e)'
<1> DEFINE t == <<e, runs[e] + 1>>
<1>1. Types /\ RunsPaid(e) /\ Numbered(e) /\ pc["manager"] = "plan"
  BY DEF Base, Plans
<1>2. Manages(e) /\ Fresh(e) /\ runs[e] \in Run /\ runs[e] + 1 \in Run \ {0} /\ t \in Job /\ entry[t] = "absent"
  BY <1>1, PlanTask, Jobs
<1>3. Numbers(e)
  BY <1>1, NumbersOf DEF RunsPaid
<1>4. runs'[e] = runs[e] + 1
  BY <1>1, IncreasedType DEF Plans, Types
<1>5. /\ pc'["manager"] \in {"awaitLeads", "awaitInbound", "report"} /\ cur' = cur
      /\ pc'["manager"] = "awaitInbound" => UNCHANGED entry
      /\ Opened(t) \/ UNCHANGED entry
  BY <1>1, Services DEF Plans, Goes, Types, LoopOK
<1>6. Manages(e)' /\ ~Fresh(e)'
  BY <1>2, <1>5 DEF Manages, Fresh
<1>7. Credit(Fresh(e)) = 1 /\ Credit(Fresh(e))' = 0
  BY <1>2, <1>6 DEF Credit
<1>8. RunsPaid(e)'
  BY <1>1, <1>3, <1>4, <1>7 DEF RunsPaid, Numbers
<1>9. Numbered(e)'
  <2>1. ASSUME NEW n \in Run \ {0}, n > runs'[e] PROVE entry'[<<e, n>>] = "absent"
    <3>1. n \in Nat /\ n > runs[e] /\ n # runs[e] + 1 /\ <<e, n>> # t
      BY <1>3, <1>4, <2>1, Jobs DEF Numbers
    <3>2. entry[<<e, n>>] = "absent" /\ <<e, n>> \in Job
      BY <1>1, <2>1, <3>1, Jobs DEF Numbered
    <3>. QED BY <1>1, <1>5, <3>1, <3>2 DEF Opened, Types, QueueOK
  <2>2. runs'[e] > 0
    BY <1>3, <1>4 DEF Numbers
  <2>3. pc'["manager"] \in {"awaitInbound", "delegate"} => entry'[<<e, runs'[e]>>] = "absent"
    BY <1>2, <1>4, <1>5
  <2>. QED BY <2>1, <2>2, <2>3 DEF Numbered
<1>. QED BY <1>8, <1>9

(* Which steps leave the Manager's part of an email's ledger alone.        *)
LEMMA StillRests ==
  ASSUME Types, NEW e \in Email, UNCHANGED <<entry, runs>>, Manages(e)' <=> Manages(e),
         Manages(e) => pc'["manager"] = pc["manager"]
  PROVE  Rests(e)
BY DEF Rests, Unsettled

LEMMA OpenedRests ==
  ASSUME Types, NEW e \in Email, NEW t \in Task, t[1] # e, Opened(t)
  PROVE  /\ Unsettled(<<e, 0>>)' => Unsettled(<<e, 0>>)
         /\ \A n \in Run \ {0} : entry[<<e, n>>] = "absent" => entry'[<<e, n>>] = "absent"
<1>1. \A n \in Run : <<e, n>> \in Job /\ <<e, n>> # t
  BY Jobs
<1>2. \A n \in Run : entry'[<<e, n>>] = entry[<<e, n>>]
  BY <1>1, Jobs DEF Opened, Types, QueueOK
<1>. QED BY <1>2, Jobs DEF Unsettled

LEMMA LedgerOfExternal ==
  ASSUME Base, Types', Grows, KindOfExternal, NEW e \in Email
  PROVE  Rests(e)
<1>0. Types
  BY DEF Base
<1>1. CASE Stands
  BY <1>0, <1>1, StillRests DEF Stands, Manages
<1>2. ASSUME NEW x \in Email, Enters(x) PROVE Rests(e)
  <2>1. \A j \in Job : entry'[j] = IF j = <<x, 0>> THEN "new" ELSE entry[j]
    BY <1>0, <1>2, Jobs DEF Enters, Opened, Types, QueueOK
  <2>2. entry[<<x, 0>>] = "absent" /\ UNCHANGED <<pc, cur, runs>>
    BY <1>2 DEF Enters
  <2>3. \A n \in Run \ {0} : <<e, n>> \in Job /\ <<e, n>> # <<x, 0>>
    BY Jobs
  <2>4. Unsettled(<<e, 0>>)' => Unsettled(<<e, 0>>)
    BY <2>1, <2>2, Jobs DEF Unsettled
  <2>. QED BY <2>1, <2>2, <2>3, <2>4 DEF Rests, Manages
<1>. QED BY <1>1, <1>2 DEF KindOfExternal

LEMMA LedgerOfManager ==
  ASSUME Base, Types', Grows, KindOfManager, NEW e \in Email
  PROVE  Rests(e) \/ (RunsPaid(e)' /\ Numbered(e)')
<1>0. Types
  BY DEF Base
<1> DEFINE x == Subject("manager")
<1>1. CASE Plans(x)
  <2> DEFINE t == <<x, runs[x] + 1>>
  <2>1. pc["manager"] = "plan" /\ (Opened(t) \/ UNCHANGED entry) /\ UNCHANGED cur /\ runs' = Increase(runs, x)
    BY <1>1 DEF Plans, Goes
  <2>2. x \in Email /\ Manages(x) /\ t \in Task
    BY <2>1, PlanTask
  <2>3. CASE e = x
    BY <1>1, <2>2, <2>3, AtPlan
  <2>4. CASE e # x
    <3>1. ~Manages(e) /\ ~Manages(e)'
      BY <2>1, <2>2, <2>4 DEF Manages
    <3>2. runs'[e] = runs[e]
      BY <1>0, <2>1, <2>2, <2>4, IncreasedType DEF Types
    <3>3. CASE Opened(t)
      <4>1. t[1] # e
        BY <2>4
      <4>. QED BY <1>0, <2>2, <3>1, <3>2, <3>3, <4>1, OpenedRests DEF Rests
    <3>4. CASE UNCHANGED entry
      BY <3>1, <3>2, <3>4 DEF Rests, Unsettled
    <3>. QED BY <2>1, <3>3, <3>4
  <2>. QED BY <2>3, <2>4
<1>2. CASE Delegates
  <2>1. /\ pc["manager"] = "delegate" /\ Opened(Waited) /\ Goes("manager", "report") /\ UNCHANGED runs
        /\ UNCHANGED cur
    BY <1>2 DEF Delegates, Goes
  <2>2. x \in Email /\ Manages(x) /\ Waited \in Task /\ Waited = <<x, runs[x]>> /\ runs[x] \in Run \ {0}
    BY <2>1, WaitedTask DEF Idle
  <2>3. CASE e = x
    <3>1. pc'["manager"] = "report"
      BY <1>0, <2>1, Services DEF Goes, Types, LoopOK
    <3>2. ASSUME NEW n \in Run \ {0}, n > runs[e] PROVE entry'[<<e, n>>] = "absent"
      <4>1. <<e, n>> \in Job /\ <<e, n>> # Waited
        BY <2>2, <2>3, <3>2, Jobs
      <4>2. entry[<<e, n>>] = "absent"
        BY <3>2 DEF Base, Numbered
      <4>. QED BY <1>0, <2>1, <4>1, <4>2 DEF Opened, Types, QueueOK
    <3>3. Manages(e)'
      BY <2>1, <2>2, <2>3 DEF Manages
    <3>4. pc["manager"] \in Working
      BY <2>1, Workplaces
    <3>. QED BY <2>1, <2>3, <3>1, <3>2, <3>3, <3>4, AtWork
  <2>4. CASE e # x
    <3>1. ~Manages(e) /\ ~Manages(e)' /\ Waited[1] # e
      BY <2>1, <2>2, <2>4 DEF Manages
    <3>. QED BY <1>0, <2>1, <2>2, <3>1, OpenedRests DEF Rests
  <2>. QED BY <2>3, <2>4
<1>3. ASSUME NEW l \in Working, Advances("manager", l) PROVE Rests(e) \/ (RunsPaid(e)' /\ Numbered(e)')
  <2>1. /\ pc["manager"] \in Working /\ UNCHANGED <<entry, runs, cur>>
        /\ l \in {"awaitInbound", "delegate"} => pc["manager"] = "awaitInbound"
    BY <1>3 DEF Advances, Goes
  <2>2. x \in Email /\ Manages(x)
    BY <2>1, WaitedTask DEF Working
  <2>3. CASE e = x
    <3>1. pc'["manager"] = l
      BY <1>0, <1>3, Services DEF Advances, Goes, Types, LoopOK
    <3>2. Manages(e)' /\ l # "plan"
      BY <2>1, <2>2, <2>3 DEF Manages, Working
    <3>3. \A n \in Run \ {0} : n > runs[e] => entry'[<<e, n>>] = "absent"
      BY <2>1 DEF Base, Numbered
    <3>4. l \in {"awaitInbound", "delegate"} => entry'[<<e, runs[e]>>] = "absent"
      BY <2>1, <2>2, <2>3 DEF Base, Numbered
    <3>. QED BY <2>1, <2>3, <3>1, <3>2, <3>3, <3>4, AtWork
  <2>4. CASE e # x
    <3>1. ~Manages(e) /\ ~Manages(e)'
      BY <2>1, <2>2, <2>4 DEF Manages
    <3>. QED BY <1>0, <2>1, <3>1, StillRests
  <2>. QED BY <2>3, <2>4
<1>. QED BY <1>1, <1>2, <1>3 DEF KindOfManager

LEMMA LedgerOfLeads ==
  ASSUME Base, Types', Grows, KindOfLeads, NEW e \in Email
  PROVE  Rests(e)
<1>0. Types
  BY DEF Base
<1>1. UNCHANGED <<entry, runs, cur>> /\ pc'["manager"] = pc["manager"]
  BY <1>0, Services DEF KindOfLeads, Stands, Advances, Goes, Types, LoopOK
<1>. QED BY <1>0, <1>1, StillRests DEF Manages

LEMMA LedgerOfLoop ==
  ASSUME Base, Types', Grows, NEW c \in Service, KindOfLoop(c), NEW e \in Email
  PROVE  Rests(e) \/ (RunsPaid(e)' /\ Numbered(e)')
<1>0. Types /\ RunsPaid(e) /\ Numbered(e)
  BY DEF Base
<1>1. CASE Delivers(c)
  <2>1. PICK batch \in SUBSET Job :
          /\ \A j \in batch : entry[j] \in {"new", "pending"}
          /\ entry' = [j \in Job |-> IF j \in batch THEN "pending" ELSE entry[j]]
    BY <1>1 DEF Delivers
  <2>2. pc[c] = "read" /\ pc' = [pc EXCEPT ![c] = "take"] /\ UNCHANGED <<cur, runs>>
    BY <1>1 DEF Delivers
  <2>3. Manages(e)' <=> Manages(e)
    BY <2>2 DEF Manages
  <2>4. Manages(e) => pc'["manager"] = pc["manager"]
    <3>1. CASE c = "manager"
      <4>1. cur["manager"] = NoJob
        BY <1>0, <2>2, <3>1 DEF Types, LoopOK, Fit, Idle
      <4>2. <<e, 0>> # NoJob
        BY Jobs
      <4>. QED BY <4>1, <4>2 DEF Manages
    <3>2. CASE c # "manager"
      BY <1>0, <2>2, <3>2, Services DEF Types, LoopOK
    <3>. QED BY <3>1, <3>2
  <2>5. \A j \in Job : entry'[j] = IF j \in batch THEN "pending" ELSE entry[j]
    BY <2>1
  <2>6. Unsettled(<<e, 0>>)' => Unsettled(<<e, 0>>)
    BY <2>1, <2>5, Jobs DEF Unsettled
  <2>7. \A n \in Run \ {0} : entry[<<e, n>>] = "absent" => entry'[<<e, n>>] = "absent"
    BY <2>1, <2>5, Jobs
  <2>. QED BY <2>2, <2>3, <2>4, <2>6, <2>7 DEF Rests
<1>2. ASSUME NEW j \in todo[c], Takes(c, j) PROVE Rests(e) \/ (RunsPaid(e)' /\ Numbered(e)')
  <2>1. /\ UNCHANGED <<entry, runs>> /\ pc[c] = "take"
        /\ cur' = [cur EXCEPT ![c] = j]
        /\ pc' = [pc EXCEPT ![c] = IF c = "manager" THEN "plan" ELSE "ask"]
    BY <1>2 DEF Takes
  <2>2. CASE c = "manager"
    <3>1. cur["manager"] = NoJob /\ <<e, 0>> # NoJob
      BY <1>0, <2>1, <2>2, Jobs DEF Types, LoopOK, Fit, Idle
    <3>2. ~Manages(e) /\ pc'["manager"] = "plan"
      BY <1>0, <2>1, <2>2, <3>1 DEF Manages, Types, LoopOK
    <3>3. (Fresh(e)' <=> Fresh(e)) /\ Credit(Fresh(e))' = Credit(Fresh(e)) /\ Credit(Fresh(e)) \in {0, 1}
      BY <2>1, <3>2 DEF Fresh, Unsettled, Credit
    <3>4. Numbers(e)
      BY <1>0, NumbersOf DEF RunsPaid
    <3>5. RunsPaid(e)'
      BY <1>0, <2>1, <3>3, <3>4 DEF RunsPaid, Numbers
    <3>6. Numbered(e)'
      BY <1>0, <2>1, <3>2 DEF Numbered
    <3>. QED BY <3>5, <3>6
  <2>3. CASE c # "manager"
    <3>1. cur'["manager"] = cur["manager"] /\ pc'["manager"] = pc["manager"]
      BY <1>0, <2>1, <2>3, Services DEF Types, LoopOK
    <3>. QED BY <1>0, <2>1, <3>1, StillRests DEF Manages
  <2>. QED BY <2>2, <2>3
<1>3. CASE Idles(c)
  <2>1. pc[c] \in Idle /\ Goes(c, "read") /\ UNCHANGED <<entry, runs, cur>>
    BY <1>3 DEF Idles, Goes
  <2>2. Manages(e) => pc'["manager"] = pc["manager"]
    <3>1. CASE c = "manager"
      <4>1. cur["manager"] = NoJob /\ <<e, 0>> # NoJob
        BY <1>0, <2>1, <3>1, Jobs DEF Types, LoopOK, Fit
      <4>. QED BY <4>1 DEF Manages
    <3>2. CASE c # "manager"
      BY <1>0, <2>1, <3>2, Services DEF Types, LoopOK, Goes
    <3>. QED BY <3>1, <3>2
  <2>. QED BY <1>0, <2>1, <2>2, StillRests DEF Manages
<1>4. CASE Finishes(c)
  <2>1. pc[c] \in {"report", "ack"} /\ Lets(c) /\ UNCHANGED runs
    BY <1>4 DEF Finishes
  <2>2. cur[c] \in Job /\ Owner(cur[c]) = c /\ (c = "manager" => cur[c] = <<Subject(c), 0>>)
    BY <1>0, <2>1, InHand, Places DEF Types
  <2>3. \/ \E s \in {"done", "dead"} : Closes(cur[c], s)
        \/ UNCHANGED entry /\ Blames(Subject(c))
    BY <1>4 DEF Finishes
  <2>4. \A j \in Job : j # cur[c] => entry'[j] = entry[j]
    BY <1>0, <2>3 DEF Closes, Types, QueueOK
  <2>5. CASE c = "manager" /\ cur[c] = <<e, 0>>
    <3>1. Manages(e) /\ ~Manages(e)' /\ Subject(c) = e
      BY <1>0, <2>1, <2>5, Jobs, Services DEF Manages, Lets, Types, LoopOK, Subject
    <3>2. \A n \in Run \ {0} : entry'[<<e, n>>] = entry[<<e, n>>]
      BY <2>4, <2>5, Jobs
    <3>3. \/ entry'[<<e, 0>>] \in {"done", "dead"} /\ pc["manager"] # "plan"
          \/ Blames(e)
      <4>1. ASSUME NEW s \in {"done", "dead"}, Closes(cur[c], s) PROVE entry'[<<e, 0>>] = s
        BY <1>0, <2>2, <2>5, <4>1 DEF Closes, Types, QueueOK
      <4>. QED BY <2>1, <2>3, <2>5, <3>1, <4>1
    <3>. QED BY <2>1, <3>1, <3>2, <3>3, AtEnd
  <2>6. CASE c = "manager" /\ cur[c] # <<e, 0>>
    <3>1. ~Manages(e) /\ ~Manages(e)'
      BY <1>0, <2>1, <2>6, Jobs, Services DEF Manages, Lets, Types, LoopOK
    <3>2. \A n \in Run : entry'[<<e, n>>] = entry[<<e, n>>]
      <4>1. \A n \in Run : <<e, n>> \in Job /\ <<e, n>> # cur[c]
        BY <2>2, <2>6, Jobs
      <4>. QED BY <2>4, <4>1
    <3>. QED BY <2>1, <3>1, <3>2, Jobs DEF Rests, Unsettled
  <2>7. CASE c # "manager"
    <3>1. cur'["manager"] = cur["manager"] /\ pc'["manager"] = pc["manager"]
      BY <1>0, <2>1, <2>7, Services DEF Lets, Types, LoopOK
    <3>2. cur[c][2] # 0
      BY <2>2, <2>7 DEF Owner
    <3>3. entry'[<<e, 0>>] = entry[<<e, 0>>]
      <4>1. <<e, 0>> # cur[c] /\ <<e, 0>> \in Job
        BY <3>2, Jobs
      <4>. QED BY <2>4, <4>1
    <3>4. \A n \in Run \ {0} : entry[<<e, n>>] = "absent" => entry'[<<e, n>>] = "absent"
      <4>1. entry[cur[c]] = "pending"
        BY <2>2, Jobs DEF Base, Held
      <4>. QED BY <2>4, <4>1, Jobs
    <3>. QED BY <2>1, <3>1, <3>3, <3>4 DEF Rests, Manages, Unsettled
  <2>. QED BY <2>5, <2>6, <2>7
<1>5. CASE Crashes(c)
  <2>1. /\ pc' = [pc EXCEPT ![c] = "down"] /\ cur' = [cur EXCEPT ![c] = NoJob] /\ UNCHANGED <<entry, runs>>
        /\ cur[c] # NoJob => Blames(Subject(c))
    BY <1>5 DEF Crashes
  <2>2. CASE c = "manager" /\ cur[c] = <<e, 0>>
    <3>1. Manages(e) /\ Subject(c) = e /\ cur[c] # NoJob
      BY <2>2, Jobs DEF Manages, Subject
    <3>2. ~Manages(e)'
      BY <1>0, <2>1, <2>2, Jobs, Services DEF Manages, Types, LoopOK
    <3>3. Blames(e)
      BY <2>1, <3>1
    <3>. QED BY <2>1, <3>1, <3>2, <3>3, AtEnd
  <2>3. CASE c = "manager" /\ cur[c] # <<e, 0>>
    <3>1. ~Manages(e) /\ ~Manages(e)'
      BY <1>0, <2>1, <2>3, Jobs, Services DEF Manages, Types, LoopOK
    <3>. QED BY <1>0, <2>1, <3>1, StillRests
  <2>4. CASE c # "manager"
    <3>1. cur'["manager"] = cur["manager"] /\ pc'["manager"] = pc["manager"]
      BY <1>0, <2>1, <2>4, Services DEF Types, LoopOK
    <3>. QED BY <1>0, <2>1, <3>1, StillRests DEF Manages
  <2>. QED BY <2>2, <2>3, <2>4
<1>6. CASE Advances(c, "ack")
  <2>1. CASE c = "manager"
    <3>1. KindOfManager
      BY <1>6, <2>1, Workplaces DEF KindOfManager
    <3>. QED BY <3>1, LedgerOfManager
  <2>2. CASE c = "leads"
    <3>1. KindOfLeads
      BY <1>6, <2>2, Workplaces DEF KindOfLeads
    <3>. QED BY <3>1, LedgerOfLeads
  <2>. QED BY <2>1, <2>2, Services
<1>. QED BY <1>1, <1>2, <1>3, <1>4, <1>5, <1>6 DEF KindOfLoop

LEMMA BaseKept ==
  ASSUME Base, [Next]_vars
  PROVE  Base'
<1>1. Types /\ Types' /\ Grows /\ Held'
  BY TypesKept, HeldKept DEF Base
<1>2. ASSUME NEW e \in Email PROVE RunsPaid(e)' /\ Numbered(e)'
  <2>1. RunsPaid(e) /\ Numbered(e)
    BY DEF Base
  <2>2. Rests(e) \/ (RunsPaid(e)' /\ Numbered(e)')
    BY <1>1, Kinds, LedgerOfExternal, LedgerOfManager, LedgerOfLeads, LedgerOfLoop
  <2>. QED BY <1>1, <2>1, <2>2, RestsKept
<1>. QED BY <1>1, <1>2 DEF Base

LEMMA BaseHolds ==
  ASSUME Init
  PROVE  Base
<1>1. Types
  <2>1. QueueOK
    BY DEF Init, QueueOK, State
  <2>2. results \in [{"inbound", "leads"} -> Seq(Answer)] /\ answers \in Seq(RagAnswer)
    BY DEF Init
  <2>3. LoopOK
    BY Services DEF Init, LoopOK, Fit, Idle, Location
  <2>4. runs \in [Email -> Nat] /\ foreign \in Nat /\ routing \in Routing /\ queries \in Nat
    BY DEF Init
  <2>5. WorkOK /\ WaitOK
    BY DEF Init, WorkOK, WaitOK, Place
  <2>6. HistoryOK
    BY DEF Init, HistoryOK
  <2>7. ChargedOK
    BY PipelineAssumption DEF Init, ChargedOK
  <2>. QED BY <2>1, <2>2, <2>3, <2>4, <2>5, <2>6, <2>7 DEF Types, ResultsOK, AnswersOK
<1>2. Held
  BY Services DEF Init, Held
<1>3. ASSUME NEW e \in Email PROVE RunsPaid(e) /\ Numbered(e)
  <2>1. runs[e] = 0 /\ spent[e] = 0 /\ mishaps = 0
    BY DEF Init
  <2>2. Credit(Fresh(e)) \in {0, 1}
    BY DEF Credit
  <2>3. ~Manages(e)
    BY Jobs, Services DEF Init, Manages
  <2>4. \A n \in Run : entry[<<e, n>>] = "absent"
    BY Jobs DEF Init
  <2>. QED BY <2>1, <2>2, <2>3, <2>4 DEF RunsPaid, Numbered
<1>. QED BY <1>1, <1>2, <1>3 DEF Base

LEMMA BaseAlways == Spec => []Base
<1>1. Init => Base
  BY BaseHolds
<1>2. Base /\ [Next]_vars => Base'
  BY BaseKept
<1>. QED BY <1>1, <1>2, PTL DEF Spec

(* The variables keep their types, whatever the emails and the bounds; in  *)
(* particular each execution of the Manager delegates under a number of    *)
(* its own, and whoever works has an entry of its own stream in hand.      *)
THEOREM TypeCorrect == Spec => []TypeOK
<1>1. Base => TypeOK
  BY TypeParts DEF Base
<1>. QED BY <1>1, BaseAlways, PTL

-----------------------------------------------------------------------------
(* Only Handover, Store and Promote count.                                 *)
LEMMA Counts ==
  ASSUME Types, [Next]_vars
  PROVE  /\ Handover \/ outbound' = outbound
         /\ Store \/ stored' = stored
         /\ Promote \/ promoted' = promoted
<1>1. CASE UNCHANGED vars
  BY <1>1 DEF vars, work
<1>2. CASE External
  <2>1. ASSUME NEW e \in Email, Submit(e) PROVE UNCHANGED work
    BY <2>1 DEF Submit
  <2>2. ASSUME NEW t \in Task, InboundAnswers(t) PROVE UNCHANGED work
    BY <2>2 DEF InboundAnswers
  <2>3. ASSUME RagAnswers PROVE UNCHANGED work
    BY <2>3 DEF RagAnswers
  <2>4. ASSUME NEW s \in {"inbound", "leads", "rag"}, Foreign(s) PROVE UNCHANGED work
    BY <2>4 DEF Foreign
  <2>. QED BY <1>2, <2>1, <2>2, <2>3, <2>4 DEF External, work
<1>3. ASSUME NEW c \in Service,
             Read(c) \/ Reread(c) \/ Take(c) \/ Report(c) \/ Ack(c) \/ Crash(c) \/ Restart(c)
      PROVE  UNCHANGED work
  <2>1. CASE Read(c) \/ Reread(c)
    BY <2>1, DeliverMoves
  <2>2. CASE Take(c) \/ Crash(c) \/ Restart(c)
    BY <2>2 DEF Take, Crash, Restart
  <2>3. CASE Report(c) \/ Ack(c)
    BY <2>3 DEF Report, Ack
  <2>. QED BY <1>3, <2>1, <2>2, <2>3
<1>4. CASE Plan \/ PollInbound \/ Delegate \/ PollLeads \/ Handover \/ Deadline
  <2>1. CASE Plan
    BY <2>1 DEF Plan, work
  <2>2. CASE PollInbound \/ PollLeads \/ Deadline
    BY <2>2 DEF PollInbound, PollLeads, Deadline, work
  <2>3. CASE Delegate
    BY <2>3 DEF Delegate, work
  <2>4. CASE Handover
    BY <2>4 DEF Handover
  <2>. QED BY <1>4, <2>1, <2>2, <2>3, <2>4
<1>5. CASE Ask \/ FindTail \/ Hear \/ BlockForever \/ GiveUp \/ Store \/ Promote
  <2>1. CASE Ask
    BY <2>1 DEF Ask, work
  <2>2. CASE FindTail \/ Hear \/ BlockForever \/ GiveUp
    BY <2>2 DEF FindTail, Hear, BlockForever, GiveUp, work
  <2>3. CASE Store
    BY <2>3 DEF Store
  <2>4. CASE Promote
    BY <2>4 DEF Promote
  <2>. QED BY <1>5, <2>1, <2>2, <2>3, <2>4
<1>. QED BY <1>1, <1>2, <1>3, <1>4, <1>5 DEF Next, Step, work

(* Who executes an email hands it over once at most.                       *)
Owing == {"awaitInbound", "awaitLeads", "delegate", "handover"}
Owes(e) == Manages(e) /\ pc["manager"] \in Owing
HandoverPaid(e) == outbound[e] + Credit(Owes(e)) <= runs[e]

(* A step leaves the debt, or pays for it with an execution.               *)
LEMMA Debts ==
  ASSUME Base, [Next]_vars, NEW e \in Email
  PROVE  \/ runs'[e] = runs[e] /\ (Owes(e)' => Owes(e))
         \/ runs'[e] = runs[e] + 1 /\ ~Owes(e)
<1>0. Types /\ LoopOK /\ <<e, 0>> # NoJob
  BY Jobs DEF Base, Types
<1>1. CASE KindOfExternal
  BY <1>1 DEF KindOfExternal, Stands, Enters, Owes, Manages
<1>2. CASE KindOfLeads
  BY <1>0, <1>2, Services DEF KindOfLeads, Stands, Advances, Goes, Owes, Manages, LoopOK
<1>3. CASE Plans(Subject("manager"))
  <2> DEFINE x == Subject("manager")
  <2>1. pc["manager"] = "plan" /\ runs' = Increase(runs, x) /\ UNCHANGED cur
    BY <1>3 DEF Plans, Goes
  <2>2. x \in Email /\ Manages(x)
    BY <2>1, PlanTask
  <2>3. runs'[e] = IF e = x THEN runs[e] + 1 ELSE runs[e]
    BY <1>0, <2>1, <2>2, IncreasedType DEF Types
  <2>4. ~Owes(e)
    BY <2>1 DEF Owes, Owing
  <2>5. e # x => ~Owes(e)'
    BY <2>1, <2>2 DEF Owes, Manages
  <2>. QED BY <2>3, <2>4, <2>5
<1>4. CASE Delegates
  <2>1. runs' = runs /\ pc'["manager"] = "report"
    BY <1>0, <1>4, Services DEF Delegates, Goes, LoopOK
  <2>. QED BY <2>1 DEF Owes, Owing
<1>5. ASSUME NEW l \in Working, NEW c \in Service, Advances(c, l) PROVE runs'[e] = runs[e] /\ (Owes(e)' => Owes(e))
  <2>1. runs' = runs /\ cur' = cur
    BY <1>5 DEF Advances, Goes
  <2>2. CASE c = "manager"
    <3>1. pc'["manager"] = l /\ (l \in Owing => pc["manager"] \in Owing)
      BY <1>0, <1>5, <2>2 DEF Advances, Goes, LoopOK, Owing
    <3>. QED BY <2>1, <3>1 DEF Owes, Manages
  <2>3. CASE c # "manager"
    BY <1>0, <1>5, <2>1, <2>3, Services DEF Advances, Goes, LoopOK, Owes, Manages
  <2>. QED BY <2>2, <2>3
<1>6. ASSUME NEW c \in Service, KindOfLoop(c) PROVE runs'[e] = runs[e] /\ (Owes(e)' => Owes(e))
  <2>1. CASE Advances(c, "ack")
    BY <1>5, <2>1, Workplaces
  <2>2. CASE ~Advances(c, "ack")
    <3>1. runs' = runs
      BY <1>6, <2>2 DEF KindOfLoop, Delivers, Takes, Idles, Finishes, Crashes
    <3>2. CASE c = "manager"
      <4>1. pc'["manager"] \in {"take", "plan", "read", "down"}
        BY <1>0, <1>6, <2>2, <3>2 DEF KindOfLoop, Delivers, Takes, Idles, Finishes, Crashes, Goes, Lets, LoopOK
      <4>. QED BY <3>1, <4>1 DEF Owes, Owing
    <3>3. CASE c # "manager"
      <4>1. pc'["manager"] = pc["manager"] /\ cur'["manager"] = cur["manager"]
        BY <1>0, <1>6, <2>2, <3>3, Services DEF KindOfLoop, Delivers, Takes, Idles, Finishes, Crashes, Goes, Lets, LoopOK
      <4>. QED BY <3>1, <4>1 DEF Owes, Manages
    <3>. QED BY <3>2, <3>3
  <2>. QED BY <2>1, <2>2
<1>. QED BY <1>0, <1>1, <1>2, <1>3, <1>4, <1>5, <1>6, Kinds, Services DEF KindOfManager

LEMMA HandoverPaidKept ==
  ASSUME Base, [Next]_vars, NEW e \in Email, HandoverPaid(e)
  PROVE  HandoverPaid(e)'
<1>0. Types /\ Types'
  BY TypesKept DEF Base
<1>1. /\ outbound[e] \in Nat /\ runs[e] \in Nat /\ outbound'[e] \in Nat /\ runs'[e] \in Nat
      /\ Credit(Owes(e)) \in {0, 1} /\ Credit(Owes(e))' \in {0, 1}
  BY <1>0 DEF Types, WorkOK, Credit
<1>2. CASE outbound' = outbound
  <2>1. CASE runs'[e] = runs[e] /\ (Owes(e)' => Owes(e))
    <3>1. Credit(Owes(e))' <= Credit(Owes(e))
      BY <2>1 DEF Credit
    <3>. QED BY <1>1, <1>2, <2>1, <3>1 DEF HandoverPaid
  <2>2. CASE runs'[e] = runs[e] + 1 /\ ~Owes(e)
    BY <1>1, <1>2, <2>2 DEF HandoverPaid
  <2>. QED BY <2>1, <2>2, Debts
<1>3. CASE Handover
  <2> DEFINE x == Subject("manager")
  <2>1. /\ pc["manager"] = "handover" /\ Goes("manager", "report") /\ runs' = runs
        /\ outbound' = Increase(outbound, x) \/ outbound' = outbound
    BY <1>0, <1>3, HandoverMoves
  <2>2. x \in Email /\ Manages(x)
    BY <2>1, WaitedTask DEF Idle
  <2>3. CASE outbound' = Increase(outbound, x)
    <3>1. outbound'[e] = IF e = x THEN outbound[e] + 1 ELSE outbound[e]
      BY <1>0, <2>2, <2>3, IncreasedType DEF Types, WorkOK
    <3>2. ~Owes(e)'
      BY <1>0, <2>1, Services DEF Owes, Owing, Goes, Types, LoopOK
    <3>3. e = x => Owes(e)
      BY <2>1, <2>2 DEF Owes, Owing
    <3>4. Credit(Owes(e))' = 0 /\ (e = x => Credit(Owes(e)) = 1)
      BY <3>2, <3>3 DEF Credit
    <3>. QED BY <1>1, <2>1, <3>1, <3>4 DEF HandoverPaid
  <2>. QED BY <1>2, <2>1, <2>3
<1>. QED BY <1>0, <1>2, <1>3, Counts

-----------------------------------------------------------------------------
(* The ledger of Leads.  An email has tasks before Leads, those that are   *)
(* not past the point S of its execution, and one that the Manager may     *)
(* still delegate.                                                         *)
Ahead(e, S) ==
  {n \in Run \ {0} : /\ entry[<<e, n>>] \in {"new", "pending"}
                     /\ ~(cur["leads"] = <<e, n>> /\ pc["leads"] \in S)}
ToCome(e) == Fresh(e) \/ (Manages(e) /\ pc["manager"] \in {"awaitInbound", "delegate"})
AfterStore == {"promote", "report", "ack"}
AfterPromote == {"report", "ack"}
LeadsPaid(count, S, e) == count + Cardinality(Ahead(e, S)) + Credit(ToCome(e)) <= 1 + spent[e]

(* What a step may do to it without counting.                              *)
Kept(e, S) == Ahead(e, S)' \subseteq Ahead(e, S) /\ (ToCome(e)' => ToCome(e))
Paid(e, S) ==
  /\ Blames(e)
  /\ \/ Ahead(e, S)' \subseteq Ahead(e, S)
     \/ (ToCome(e)' => ToCome(e)) /\ \E n \in Run : Ahead(e, S)' \subseteq Ahead(e, S) \cup {n}
Moved(e, S) ==
  ToCome(e) /\ ~ToCome(e)' /\ \E n \in Run : Ahead(e, S)' \subseteq Ahead(e, S) \cup {n}
Used(e, S) ==
  (ToCome(e)' => ToCome(e)) /\ \E n \in Ahead(e, S) : Ahead(e, S)' \subseteq Ahead(e, S) \ {n}

LEMMA Sizes ==
  ASSUME NEW A, NEW B, A \subseteq Run, B \subseteq Run
  PROVE  /\ Cardinality(A) \in Nat /\ Cardinality(B) \in Nat
         /\ B \subseteq A => Cardinality(B) <= Cardinality(A)
         /\ \A n \in Run : B \subseteq A \cup {n} => Cardinality(B) <= Cardinality(A) + 1
         /\ \A n \in A : B \subseteq A \ {n} => Cardinality(B) + 1 <= Cardinality(A)
<1>1. IsFiniteSet(Run)
  <2>1. 0 \in Int /\ MaxMishaps + 1 \in Int
    BY PipelineAssumption
  <2>. QED BY <2>1, FS_Interval DEF Run
<1>2. IsFiniteSet(A) /\ IsFiniteSet(B)
  BY <1>1, FS_Subset
<1>3. Cardinality(A) \in Nat /\ Cardinality(B) \in Nat
  BY <1>2, FS_CardinalityType
<1>4. B \subseteq A => Cardinality(B) <= Cardinality(A)
  BY <1>2, FS_Subset
<1>5. ASSUME NEW n \in Run, B \subseteq A \cup {n} PROVE Cardinality(B) <= Cardinality(A) + 1
  <2>1. IsFiniteSet(A \cup {n}) /\ (Cardinality(A \cup {n}) = Cardinality(A) \/ Cardinality(A \cup {n}) = Cardinality(A) + 1)
    BY <1>2, FS_AddElement
  <2>2. Cardinality(B) <= Cardinality(A \cup {n})
    BY <1>5, <2>1, FS_Subset
  <2>. QED BY <1>3, <2>1, <2>2
<1>6. ASSUME NEW n \in A, B \subseteq A \ {n} PROVE Cardinality(B) + 1 <= Cardinality(A)
  <2>1. IsFiniteSet(A \ {n}) /\ Cardinality(A \ {n}) = Cardinality(A) - 1
    BY <1>2, FS_RemoveElement
  <2>2. Cardinality(B) <= Cardinality(A \ {n})
    BY <1>6, <2>1, FS_Subset
  <2>. QED BY <1>3, <2>1, <2>2
<1>. QED BY <1>3, <1>4, <1>5, <1>6

LEMMA Balance ==
  ASSUME Types, Grows, NEW e \in Email, NEW S, NEW k \in Nat, NEW m \in Nat,
         k + Cardinality(Ahead(e, S)) + Credit(ToCome(e)) <= 1 + spent[e],
         \/ (Kept(e, S) \/ Paid(e, S) \/ Moved(e, S)) /\ m = k
         \/ Used(e, S) /\ m <= k + 1
  PROVE  m + Cardinality(Ahead(e, S)') + Credit(ToCome(e)') <= 1 + spent'[e]
<1> DEFINE A == Ahead(e, S)  B == Ahead(e, S)'  a == Cardinality(A)  b == Cardinality(B)
           t == Credit(ToCome(e))  u == Credit(ToCome(e)')
<1>1. A \subseteq Run /\ B \subseteq Run
  BY DEF Ahead
<1>2. /\ a \in Nat /\ b \in Nat
      /\ B \subseteq A => b <= a
      /\ \A n \in Run : B \subseteq A \cup {n} => b <= a + 1
      /\ \A n \in A : B \subseteq A \ {n} => b + 1 <= a
  BY <1>1, Sizes
<1>3. /\ t \in {0, 1} /\ u \in {0, 1} /\ ((ToCome(e)' => ToCome(e)) => u <= t)
      /\ (ToCome(e) => t = 1) /\ (~ToCome(e)' => u = 0)
  BY DEF Credit
<1>4. spent[e] \in Nat /\ spent'[e] \in Nat /\ spent[e] <= spent'[e]
  BY DEF Grows
<1>5. Blames(e) => spent'[e] = spent[e] + 1
  BY ChargeType DEF Types
<1>6. k + a + t <= 1 + spent[e]
  OBVIOUS
<1>7. CASE Kept(e, S) /\ m = k
  <2>1. b <= a /\ u <= t
    BY <1>2, <1>3, <1>7 DEF Kept
  <2> HIDE DEF a, b, t, u
  <2>2. m + b + u <= 1 + spent'[e]
    BY <1>2, <1>3, <1>4, <1>6, <1>7, <2>1
  <2>. QED BY <2>2 DEF b, u
<1>8. CASE Paid(e, S) /\ m = k
  <2>1. (b <= a /\ u <= 1) \/ (b <= a + 1 /\ u <= t)
    BY <1>2, <1>3, <1>8 DEF Paid
  <2>2. spent'[e] = spent[e] + 1
    BY <1>5, <1>8 DEF Paid
  <2> HIDE DEF a, b, t, u
  <2>3. m + b + u <= 1 + spent'[e]
    BY <1>2, <1>3, <1>4, <1>6, <1>8, <2>1, <2>2
  <2>. QED BY <2>3 DEF b, u
<1>9. CASE Moved(e, S) /\ m = k
  <2>1. b <= a + 1 /\ t = 1 /\ u = 0
    BY <1>2, <1>3, <1>9 DEF Moved
  <2> HIDE DEF a, b, t, u
  <2>2. m + b + u <= 1 + spent'[e]
    BY <1>2, <1>3, <1>4, <1>6, <1>9, <2>1
  <2>. QED BY <2>2 DEF b, u
<1>10. CASE Used(e, S) /\ m <= k + 1
  <2>1. b + 1 <= a /\ u <= t
    BY <1>2, <1>3, <1>10 DEF Used
  <2> HIDE DEF a, b, t, u
  <2>2. m + b + u <= 1 + spent'[e]
    BY <1>2, <1>3, <1>4, <1>6, <1>10, <2>1
  <2>. QED BY <2>2 DEF b, u
<1>. QED BY <1>7, <1>8, <1>9, <1>10

LEMMA ToComeStays ==
  ASSUME NEW e \in Email, Unsettled(<<e, 0>>)' => Unsettled(<<e, 0>>),
         \/ cur'["manager"] = cur["manager"] /\ pc'["manager"] = pc["manager"]
         \/ ~Manages(e) /\ ~Manages(e)'
  PROVE  ToCome(e)' => ToCome(e)
BY DEF ToCome, Fresh, Manages

LEMMA AheadStays ==
  ASSUME NEW e \in Email, NEW S,
         \A n \in Run \ {0} : entry'[<<e, n>>] \in {"new", "pending"} => entry[<<e, n>>] \in {"new", "pending"},
         \/ \A n \in Run \ {0} : cur["leads"] # <<e, n>>
         \/ cur'["leads"] = cur["leads"] /\ (pc["leads"] \in S => pc'["leads"] \in S)
  PROVE  Ahead(e, S)' \subseteq Ahead(e, S)
BY DEF Ahead

(* At most the task t gets ahead, or gets ahead again.                     *)
LEMMA AheadGains ==
  ASSUME NEW e \in Email, NEW S, NEW k \in Run,
         \A n \in Run \ {0, k} : entry'[<<e, n>>] \in {"new", "pending"} => entry[<<e, n>>] \in {"new", "pending"},
         \/ \A n \in Run \ {0, k} : cur["leads"] # <<e, n>>
         \/ cur'["leads"] = cur["leads"] /\ pc'["leads"] = pc["leads"]
  PROVE  \E n \in Run : Ahead(e, S)' \subseteq Ahead(e, S) \cup {n}
<1>1. Ahead(e, S)' \subseteq Ahead(e, S) \cup {k}
  BY DEF Ahead
<1>. QED BY <1>1

(* An entry added for t, by the Manager.                                   *)
LEMMA OpenedAhead ==
  ASSUME Types, NEW e \in Email, NEW S, NEW x \in Email, NEW k \in Run \ {0}, Opened(<<x, k>>),
         cur'["leads"] = cur["leads"], pc'["leads"] = pc["leads"]
  PROVE  /\ e = x => \E n \in Run : Ahead(e, S)' \subseteq Ahead(e, S) \cup {n}
         /\ e # x => Ahead(e, S)' \subseteq Ahead(e, S) /\ entry'[<<e, 0>>] = entry[<<e, 0>>]
<1>1. \A j \in Job : j # <<x, k>> => entry'[j] = entry[j]
  BY Jobs DEF Opened, Types, QueueOK
<1>2. ASSUME e = x PROVE \E n \in Run : Ahead(e, S)' \subseteq Ahead(e, S) \cup {n}
  <2>1. \A n \in Run \ {0, k} : <<e, n>> \in Job /\ <<e, n>> # <<x, k>>
    BY Jobs
  <2>2. \A n \in Run \ {0, k} : entry'[<<e, n>>] = entry[<<e, n>>]
    BY <1>1, <2>1
  <2>. QED BY <2>2, AheadGains
<1>3. ASSUME e # x PROVE Ahead(e, S)' \subseteq Ahead(e, S) /\ entry'[<<e, 0>>] = entry[<<e, 0>>]
  <2>1. \A n \in Run : <<e, n>> \in Job /\ <<e, n>> # <<x, k>>
    BY <1>3, Jobs
  <2>2. \A n \in Run : entry'[<<e, n>>] = entry[<<e, n>>]
    BY <1>1, <2>1
  <2>. QED BY <2>2, AheadStays, Jobs
<1>. QED BY <1>2, <1>3

LEMMA ShiftOfManager ==
  ASSUME Base, KindOfManager, NEW e \in Email, NEW S
  PROVE  Kept(e, S) \/ Paid(e, S) \/ Moved(e, S)
<1>0. Types /\ LoopOK
  BY DEF Base, Types
<1> DEFINE x == Subject("manager")
<1>1. CASE Plans(x)
  <2> DEFINE k == runs[x] + 1
  <2>1. pc["manager"] = "plan" /\ UNCHANGED cur /\ (Opened(<<x, k>>) \/ UNCHANGED entry)
    BY <1>1 DEF Plans, Goes
  <2>2. x \in Email /\ Manages(x) /\ Fresh(x) /\ k \in Run \ {0}
    BY <2>1, PlanTask
  <2>3. pc'["leads"] = pc["leads"] /\ cur'["leads"] = cur["leads"]
    BY <1>0, <1>1, Services DEF Plans, Goes, LoopOK
  <2>4. CASE Opened(<<x, k>>)
    <3>1. pc'["manager"] \in {"awaitLeads", "report"} \/ UNCHANGED entry
      BY <1>0, <1>1, <2>4, Services DEF Plans, Goes, LoopOK
    <3>2. entry'[<<x, k>>] = "new" /\ entry[<<x, k>>] = "absent"
      BY <1>0, <2>1, <2>2, <2>4, PlanTask, Jobs DEF Opened, Types, QueueOK
    <3>3. pc'["manager"] \in {"awaitLeads", "report"}
      BY <3>1, <3>2
    <3>4. CASE e = x
      <4>1. ToCome(e) /\ ~ToCome(e)'
        BY <2>1, <2>2, <3>3, <3>4 DEF ToCome, Fresh, Manages
      <4>2. \E n \in Run : Ahead(e, S)' \subseteq Ahead(e, S) \cup {n}
        BY <1>0, <2>2, <2>3, <2>4, <3>4, OpenedAhead
      <4>. QED BY <4>1, <4>2 DEF Moved
    <3>5. CASE e # x
      <4>1. Ahead(e, S)' \subseteq Ahead(e, S) /\ entry'[<<e, 0>>] = entry[<<e, 0>>]
        BY <1>0, <2>2, <2>3, <2>4, <3>5, OpenedAhead
      <4>2. ToCome(e)' => ToCome(e)
        BY <2>1, <2>2, <3>5, <4>1, ToComeStays DEF Manages, Unsettled
      <4>. QED BY <4>1, <4>2 DEF Kept
    <3>. QED BY <3>4, <3>5
  <2>5. CASE UNCHANGED entry
    <3>1. Ahead(e, S)' \subseteq Ahead(e, S)
      BY <2>3, <2>5, AheadStays
    <3>2. ToCome(e)' => ToCome(e)
      <4>1. CASE e = x
        BY <2>2, <4>1 DEF ToCome
      <4>2. CASE e # x
        <5>1. ~Manages(e) /\ ~Manages(e)'
          BY <2>1, <2>2, <4>2 DEF Manages
        <5>2. Unsettled(<<e, 0>>)' => Unsettled(<<e, 0>>)
          BY <2>5 DEF Unsettled
        <5>. QED BY <5>1, <5>2, ToComeStays
      <4>. QED BY <4>1, <4>2
    <3>. QED BY <3>1, <3>2 DEF Kept
  <2>. QED BY <2>1, <2>4, <2>5
<1>2. CASE Delegates
  <2>1. pc["manager"] = "delegate" /\ UNCHANGED cur /\ Opened(Waited)
    BY <1>2 DEF Delegates, Goes
  <2>2. x \in Email /\ Manages(x) /\ runs[x] \in Run \ {0} /\ Waited = <<x, runs[x]>>
    BY <2>1, WaitedTask DEF Idle
  <2>3. pc'["leads"] = pc["leads"] /\ cur'["leads"] = cur["leads"] /\ pc'["manager"] = "report"
    BY <1>0, <1>2, Services DEF Delegates, Goes, LoopOK
  <2>4. CASE e = x
    <3>1. ToCome(e) /\ ~ToCome(e)'
      BY <2>1, <2>2, <2>3, <2>4 DEF ToCome, Fresh, Manages
    <3>2. \E n \in Run : Ahead(e, S)' \subseteq Ahead(e, S) \cup {n}
      BY <1>0, <2>1, <2>2, <2>3, <2>4, OpenedAhead
    <3>. QED BY <3>1, <3>2 DEF Moved
  <2>5. CASE e # x
    <3>1. Ahead(e, S)' \subseteq Ahead(e, S) /\ entry'[<<e, 0>>] = entry[<<e, 0>>]
      BY <1>0, <2>1, <2>2, <2>3, <2>5, OpenedAhead
    <3>2. ToCome(e)' => ToCome(e)
      BY <2>1, <2>2, <2>5, <3>1, ToComeStays DEF Manages, Unsettled
    <3>. QED BY <3>1, <3>2 DEF Kept
  <2>. QED BY <2>4, <2>5
<1>3. ASSUME NEW l \in Working, Advances("manager", l) PROVE Kept(e, S)
  <2>1. /\ UNCHANGED <<entry, cur>> /\ pc'["leads"] = pc["leads"] /\ pc'["manager"] = l
        /\ l \in {"awaitInbound", "delegate"} => pc["manager"] = "awaitInbound"
    BY <1>0, <1>3, Services DEF Advances, Goes, LoopOK
  <2>2. Ahead(e, S)' \subseteq Ahead(e, S)
    BY <2>1, AheadStays
  <2>3. ToCome(e)' => ToCome(e)
    BY <2>1 DEF ToCome, Fresh, Manages, Unsettled, Working
  <2>. QED BY <2>2, <2>3 DEF Kept
<1>. QED BY <1>1, <1>2, <1>3 DEF KindOfManager

LEMMA ShiftOfExternal ==
  ASSUME Base, KindOfExternal, NEW e \in Email, NEW S
  PROVE  Kept(e, S)
<1>0. Types
  BY DEF Base
<1>1. UNCHANGED <<pc, cur>>
  BY DEF KindOfExternal, Stands, Enters
<1>2. CASE Stands
  <2>1. UNCHANGED entry
    BY <1>2 DEF Stands
  <2>2. Ahead(e, S)' \subseteq Ahead(e, S)
    BY <1>1, <2>1, AheadStays
  <2>3. ToCome(e)' => ToCome(e)
    BY <1>1, <2>1, ToComeStays DEF Unsettled
  <2>. QED BY <2>2, <2>3 DEF Kept
<1>3. ASSUME NEW x \in Email, Enters(x) PROVE Kept(e, S)
  <2>1. \A j \in Job : entry'[j] = IF j = <<x, 0>> THEN "new" ELSE entry[j]
    BY <1>0, <1>3, Jobs DEF Enters, Opened, Types, QueueOK
  <2>2. entry[<<x, 0>>] = "absent"
    BY <1>3 DEF Enters
  <2>3. \A n \in Run \ {0} : entry'[<<e, n>>] = entry[<<e, n>>]
    <3>1. \A n \in Run \ {0} : <<e, n>> \in Job /\ <<e, n>> # <<x, 0>>
      BY Jobs
    <3>. QED BY <2>1, <3>1
  <2>4. Unsettled(<<e, 0>>)' => Unsettled(<<e, 0>>)
    BY <2>1, <2>2, Jobs DEF Unsettled
  <2>5. Ahead(e, S)' \subseteq Ahead(e, S)
    BY <1>1, <2>3, AheadStays
  <2>6. ToCome(e)' => ToCome(e)
    BY <1>1, <2>4, ToComeStays
  <2>. QED BY <2>5, <2>6 DEF Kept
<1>. QED BY <1>2, <1>3 DEF KindOfExternal

LEMMA ShiftOfLeads ==
  ASSUME Base, KindOfLeads, NEW e \in Email, NEW S \in {AfterStore, AfterPromote}
  PROVE  Kept(e, S)
<1>0. LoopOK
  BY DEF Base, Types
<1>1. UNCHANGED <<entry, cur>> /\ pc'["manager"] = pc["manager"]
  BY <1>0, Services DEF KindOfLeads, Stands, Advances, Goes, LoopOK
<1>2. pc["leads"] \in S => pc'["leads"] \in S
  BY <1>0, Services DEF KindOfLeads, Stands, Advances, Goes, LoopOK, AfterStore, AfterPromote
<1>3. Ahead(e, S)' \subseteq Ahead(e, S)
  BY <1>1, <1>2, AheadStays
<1>4. ToCome(e)' => ToCome(e)
  BY <1>1, ToComeStays DEF Unsettled
<1>. QED BY <1>3, <1>4 DEF Kept

LEMMA Emptyhanded ==
  ASSUME LoopOK, NEW c \in Service, pc[c] \in Idle
  PROVE  cur[c] = NoJob /\ \A e \in Email : \A n \in Run : cur[c] # <<e, n>>
BY Jobs DEF LoopOK, Fit

LEMMA ShiftOfLoop ==
  ASSUME Base, NEW c \in Service, KindOfLoop(c), NEW e \in Email, NEW S \in {AfterStore, AfterPromote}
  PROVE  Kept(e, S) \/ Paid(e, S)
<1>0. Types /\ LoopOK
  BY DEF Base, Types
<1>1. ASSUME UNCHANGED entry PROVE Unsettled(<<e, 0>>)' => Unsettled(<<e, 0>>)
  BY <1>1 DEF Unsettled
<1>2. CASE Delivers(c)
  <2>1. PICK batch \in SUBSET Job :
          /\ \A j \in batch : entry[j] \in {"new", "pending"}
          /\ entry' = [j \in Job |-> IF j \in batch THEN "pending" ELSE entry[j]]
    BY <1>2 DEF Delivers
  <2>2. pc[c] = "read" /\ pc' = [pc EXCEPT ![c] = "take"] /\ UNCHANGED cur
    BY <1>2 DEF Delivers
  <2>3. \A j \in Job : entry'[j] = IF j \in batch THEN "pending" ELSE entry[j]
    BY <2>1
  <2>4. Unsettled(<<e, 0>>)' => Unsettled(<<e, 0>>)
    BY <2>1, <2>3, Jobs DEF Unsettled
  <2>5. \A n \in Run \ {0} : entry'[<<e, n>>] \in {"new", "pending"} => entry[<<e, n>>] \in {"new", "pending"}
    BY <2>1, <2>3, Jobs
  <2>6. \A n \in Run : cur[c] # <<e, n>>
    BY <1>0, <2>2, Emptyhanded, Places
  <2>7. c = "leads" \/ pc'["leads"] = pc["leads"]
    BY <1>0, <2>2, Services DEF LoopOK
  <2>8. c = "manager" \/ pc'["manager"] = pc["manager"]
    BY <1>0, <2>2, Services DEF LoopOK
  <2>9. Ahead(e, S)' \subseteq Ahead(e, S)
    BY <2>2, <2>5, <2>6, <2>7, AheadStays
  <2>10. ToCome(e)' => ToCome(e)
    BY <2>2, <2>4, <2>6, <2>8, Jobs, ToComeStays DEF Manages
  <2>. QED BY <2>9, <2>10 DEF Kept
<1>3. ASSUME NEW j \in todo[c], Takes(c, j) PROVE Kept(e, S)
  <2>1. /\ UNCHANGED entry /\ pc[c] = "take" /\ cur' = [cur EXCEPT ![c] = j]
        /\ pc' = [pc EXCEPT ![c] = IF c = "manager" THEN "plan" ELSE "ask"]
    BY <1>3 DEF Takes
  <2>2. \A n \in Run : cur[c] # <<e, n>>
    BY <1>0, <2>1, Emptyhanded, Places
  <2>3. c = "leads" \/ (pc'["leads"] = pc["leads"] /\ cur'["leads"] = cur["leads"])
    BY <1>0, <2>1, Services DEF LoopOK
  <2>4. c = "manager" \/ (pc'["manager"] = pc["manager"] /\ cur'["manager"] = cur["manager"])
    BY <1>0, <2>1, Services DEF LoopOK
  <2>5. Ahead(e, S)' \subseteq Ahead(e, S)
    BY <2>1, <2>2, <2>3, AheadStays
  <2>6. ToCome(e)' => ToCome(e)
    <3>1. CASE c = "manager"
      <4>1. ~Manages(e) /\ pc'["manager"] = "plan"
        BY <1>0, <2>1, <2>2, <3>1, Jobs DEF LoopOK, Manages
      <4>. QED BY <1>1, <2>1, <4>1 DEF ToCome, Fresh
    <3>2. CASE c # "manager"
      BY <1>1, <2>1, <2>4, <3>2, ToComeStays
    <3>. QED BY <3>1, <3>2
  <2>. QED BY <2>5, <2>6 DEF Kept
<1>4. CASE Idles(c)
  <2>1. pc[c] \in Idle /\ UNCHANGED <<entry, cur>> /\ pc' = [pc EXCEPT ![c] = "read"]
    BY <1>4 DEF Idles, Goes
  <2>2. \A n \in Run : cur[c] # <<e, n>>
    BY <1>0, <2>1, Emptyhanded
  <2>3. c = "leads" \/ pc'["leads"] = pc["leads"]
    BY <1>0, <2>1, Services DEF LoopOK
  <2>4. c = "manager" \/ pc'["manager"] = pc["manager"]
    BY <1>0, <2>1, Services DEF LoopOK
  <2>5. Ahead(e, S)' \subseteq Ahead(e, S)
    BY <2>1, <2>2, <2>3, AheadStays
  <2>6. ToCome(e)' => ToCome(e)
    BY <1>1, <2>1, <2>2, <2>4, Jobs, ToComeStays DEF Manages
  <2>. QED BY <2>5, <2>6 DEF Kept
<1>5. ASSUME c = "manager", cur'["manager"] = NoJob, cur["manager"] # NoJob, pc["manager"] \notin Idle,
             cur'["leads"] = cur["leads"], pc'["leads"] = pc["leads"],
             \/ \E s \in {"done", "dead"} : Closes(cur["manager"], s)
             \/ UNCHANGED entry /\ Blames(Subject("manager"))
      PROVE  Kept(e, S) \/ Paid(e, S)
  <2> DEFINE x == Subject("manager")
  <2>1. cur["manager"] = <<x, 0>> /\ x \in Email /\ cur["manager"] \in Job
    BY <1>0, <1>5, InHand
  <2>2. \A j \in Job : j # cur["manager"] => entry'[j] = entry[j]
    BY <1>0, <1>5 DEF Closes, Types, QueueOK
  <2>3. \A n \in Run \ {0} : entry'[<<e, n>>] = entry[<<e, n>>]
    <3>1. \A n \in Run \ {0} : <<e, n>> \in Job /\ <<e, n>> # cur["manager"]
      BY <2>1, Jobs
    <3>. QED BY <2>2, <3>1
  <2>4. Ahead(e, S)' \subseteq Ahead(e, S)
    BY <1>5, <2>3, AheadStays
  <2>5. ~Manages(e)'
    BY <1>5, Jobs DEF Manages
  <2>6. CASE e = x
    <3>1. ASSUME NEW s \in {"done", "dead"}, Closes(cur["manager"], s) PROVE Kept(e, S)
      <4>1. entry'[<<e, 0>>] = s
        BY <1>0, <2>1, <2>6, <3>1 DEF Closes, Types, QueueOK
      <4>2. ~ToCome(e)'
        BY <2>5, <4>1 DEF ToCome, Fresh, Unsettled
      <4>. QED BY <2>4, <4>2 DEF Kept
    <3>2. CASE Blames(x)
      BY <2>4, <2>6, <3>2 DEF Paid
    <3>. QED BY <1>5, <3>1, <3>2
  <2>7. CASE e # x
    <3>1. <<e, 0>> \in Job /\ <<e, 0>> # cur["manager"]
      BY <2>1, <2>7, Jobs
    <3>2. entry'[<<e, 0>>] = entry[<<e, 0>>] /\ ~Manages(e)
      BY <2>2, <3>1 DEF Manages
    <3>3. ToCome(e)' => ToCome(e)
      BY <2>5, <3>2, ToComeStays DEF Unsettled
    <3>. QED BY <2>4, <3>3 DEF Kept
  <2>. QED BY <2>6, <2>7
<1>6. ASSUME c = "leads", cur'["leads"] = NoJob, cur["leads"] # NoJob, pc["leads"] \notin Idle,
             cur'["manager"] = cur["manager"], pc'["manager"] = pc["manager"],
             \/ pc["leads"] \in {"report", "ack"} /\ \E s \in {"done", "dead"} : Closes(cur["leads"], s)
             \/ UNCHANGED entry /\ Blames(Subject("leads"))
      PROVE  Kept(e, S) \/ Paid(e, S)
  <2> DEFINE x == Subject("leads")  k == cur["leads"][2]
  <2>1. cur["leads"] = <<x, k>> /\ x \in Email /\ cur["leads"] \in Job /\ k \in Run \ {0}
    BY <1>0, <1>6, InHand
  <2>2. \A j \in Job : j # cur["leads"] => entry'[j] = entry[j]
    BY <1>0, <1>6 DEF Closes, Types, QueueOK
  <2>3. entry'[<<e, 0>>] = entry[<<e, 0>>]
    <3>1. <<e, 0>> \in Job /\ <<e, 0>> # cur["leads"]
      BY <2>1, Jobs
    <3>. QED BY <2>2, <3>1
  <2>4. ToCome(e)' => ToCome(e)
    BY <1>6, <2>3, ToComeStays DEF Unsettled
  <2>5. ASSUME e # x PROVE Ahead(e, S)' \subseteq Ahead(e, S)
    <3>1. \A n \in Run : <<e, n>> \in Job /\ <<e, n>> # cur["leads"]
      BY <2>1, <2>5, Jobs
    <3>2. \A n \in Run : entry'[<<e, n>>] = entry[<<e, n>>]
      BY <2>2, <3>1
    <3>. QED BY <3>1, <3>2, AheadStays
  <2>6. ASSUME e = x, NEW s \in {"done", "dead"}, Closes(cur["leads"], s) PROVE Ahead(e, S)' \subseteq Ahead(e, S)
    <3>1. entry'[<<e, k>>] = s
      BY <1>0, <2>1, <2>6 DEF Closes, Types, QueueOK
    <3>2. \A n \in Run \ {0} : n # k => entry'[<<e, n>>] = entry[<<e, n>>] /\ cur["leads"] # <<e, n>>
      <4>1. \A n \in Run \ {0} : n # k => <<e, n>> \in Job /\ <<e, n>> # cur["leads"]
        BY <2>1, Jobs
      <4>. QED BY <2>2, <4>1
    <3>. QED BY <3>1, <3>2 DEF Ahead
  <2>7. ASSUME e = x, UNCHANGED entry PROVE \E n \in Run : Ahead(e, S)' \subseteq Ahead(e, S) \cup {n}
    <3>1. \A n \in Run \ {0, k} : cur["leads"] # <<e, n>>
      BY <2>1
    <3>. QED BY <2>1, <2>7, <3>1, AheadGains
  <2>. QED BY <1>6, <2>4, <2>5, <2>6, <2>7 DEF Kept, Paid
<1>7. CASE Finishes(c)
  <2>1. pc[c] \in {"report", "ack"} /\ Lets(c)
    BY <1>7 DEF Finishes
  <2>2. cur[c] # NoJob /\ pc[c] \notin Idle
    BY <1>0, <2>1, InHand, Places
  <2>3. cur'[c] = NoJob /\ \A x \in Service : x # c => cur'[x] = cur[x] /\ pc'[x] = pc[x]
    BY <1>0, <2>1 DEF Lets, LoopOK
  <2>4. \/ \E s \in {"done", "dead"} : Closes(cur[c], s)
        \/ UNCHANGED entry /\ Blames(Subject(c))
    BY <1>7 DEF Finishes
  <2>5. CASE c = "manager"
    BY <1>5, <2>2, <2>3, <2>4, <2>5, Services
  <2>6. CASE c = "leads"
    BY <1>6, <2>1, <2>2, <2>3, <2>4, <2>6, Services
  <2>. QED BY <2>5, <2>6, Services
<1>8. CASE Crashes(c)
  <2>1. UNCHANGED entry
    BY <1>8 DEF Crashes
  <2>2. cur'[c] = NoJob /\ \A x \in Service : x # c => cur'[x] = cur[x] /\ pc'[x] = pc[x]
    BY <1>0, <1>8 DEF Crashes, LoopOK
  <2>3. CASE cur[c] # NoJob
    <3>1. pc[c] \notin Idle /\ Blames(Subject(c))
      BY <1>0, <1>8, <2>3 DEF Crashes, LoopOK, Fit
    <3>2. CASE c = "manager"
      BY <1>5, <2>1, <2>2, <2>3, <3>1, <3>2, Services
    <3>3. CASE c = "leads"
      BY <1>6, <2>1, <2>2, <2>3, <3>1, <3>3, Services
    <3>. QED BY <3>2, <3>3, Services
  <2>4. CASE cur[c] = NoJob
    <3>1. \A n \in Run : cur[c] # <<e, n>> /\ cur'[c] # <<e, n>>
      BY <2>2, <2>4, Jobs
    <3>2. Ahead(e, S)' \subseteq Ahead(e, S)
      BY <2>1, <2>2, <3>1, AheadStays, Services
    <3>3. ToCome(e)' => ToCome(e)
      BY <1>1, <2>1, <2>2, <3>1, Jobs, ToComeStays, Services DEF Manages
    <3>. QED BY <3>2, <3>3 DEF Kept
  <2>. QED BY <2>3, <2>4
<1>9. CASE Advances(c, "ack")
  <2>1. pc[c] \in Working /\ UNCHANGED <<entry, cur>> /\ pc' = [pc EXCEPT ![c] = "ack"]
    BY <1>9 DEF Advances, Goes
  <2>2. (c = "leads" /\ pc'["leads"] = "ack") \/ pc'["leads"] = pc["leads"]
    BY <1>0, <2>1, Services DEF LoopOK
  <2>3. pc["leads"] \in S => pc'["leads"] \in S
    BY <2>2 DEF AfterStore, AfterPromote
  <2>4. Ahead(e, S)' \subseteq Ahead(e, S)
    BY <2>1, <2>3, AheadStays
  <2>5. (c = "manager" /\ pc'["manager"] = "ack") \/ pc'["manager"] = pc["manager"]
    BY <1>0, <2>1, Services DEF LoopOK
  <2>6. ToCome(e)' => ToCome(e)
    BY <1>1, <2>1, <2>5, ToComeStays DEF ToCome, Fresh, Manages
  <2>. QED BY <2>4, <2>6 DEF Kept
<1>. QED BY <1>2, <1>3, <1>4, <1>7, <1>8, <1>9 DEF KindOfLoop

LEMMA Shifts ==
  ASSUME Base, [Next]_vars, NEW e \in Email, NEW S \in {AfterStore, AfterPromote}
  PROVE  Kept(e, S) \/ Paid(e, S) \/ Moved(e, S)
<1>1. Types
  BY DEF Base
<1>. QED BY <1>1, Kinds, ShiftOfExternal, ShiftOfManager, ShiftOfLeads, ShiftOfLoop

(* Leads counts when it passes the point S.                                *)
LEMMA Counting ==
  ASSUME Base, NEW S, pc["leads"] \in Working \ S, pc'["leads"] \in S, UNCHANGED <<entry, cur>>,
         pc'["manager"] = pc["manager"], NEW x, x = Subject("leads")
  PROVE  x \in Email /\ Used(x, S)
<1>0. Types /\ LoopOK /\ pc["leads"] \notin Idle
  BY DEF Base, Types, Working
<1> DEFINE k == cur["leads"][2]
<1>1. cur["leads"] = <<x, k>> /\ x \in Email /\ k \in Run \ {0} /\ cur["leads"] # NoJob
  BY <1>0, InHand, Services
<1>2. entry[<<x, k>>] = "pending"
  BY <1>1, Services DEF Base, Held
<1>3. k \in Ahead(x, S)
  BY <1>1, <1>2 DEF Ahead
<1>4. Ahead(x, S)' \subseteq Ahead(x, S) \ {k}
  <2>1. k \notin Ahead(x, S)'
    BY <1>1 DEF Ahead
  <2>2. Ahead(x, S)' \subseteq Ahead(x, S)
    BY DEF Ahead
  <2>. QED BY <2>1, <2>2
<1>5. ToCome(x)' => ToCome(x)
  BY <1>1, ToComeStays DEF Unsettled
<1>. QED BY <1>1, <1>3, <1>4, <1>5 DEF Used

StorePaid(e) == LeadsPaid(stored[e], AfterStore, e)
PromotePaid(e) == LeadsPaid(promoted[e], AfterPromote, e)

LEMMA StorePaidKept ==
  ASSUME Base, [Next]_vars, NEW e \in Email, StorePaid(e)
  PROVE  StorePaid(e)'
<1>0. Types /\ Types' /\ Grows /\ LoopOK
  BY TypesKept DEF Base, Types
<1>1. stored[e] \in Nat /\ stored'[e] \in Nat
  BY <1>0 DEF Types, WorkOK
<1>2. stored[e] + Cardinality(Ahead(e, AfterStore)) + Credit(ToCome(e)) <= 1 + spent[e]
  BY DEF StorePaid, LeadsPaid
<1>3. Kept(e, AfterStore) \/ Paid(e, AfterStore) \/ Moved(e, AfterStore)
  BY Shifts
<1>4. ASSUME \/ stored'[e] = stored[e]
             \/ Used(e, AfterStore) /\ stored'[e] <= stored[e] + 1
      PROVE  stored'[e] + Cardinality(Ahead(e, AfterStore)') + Credit(ToCome(e)') <= 1 + spent'[e]
  BY <1>0, <1>1, <1>2, <1>3, <1>4, Balance
<1>5. \/ stored'[e] = stored[e]
      \/ Used(e, AfterStore) /\ stored'[e] <= stored[e] + 1
  <2>1. CASE Store
    <3> DEFINE x == Subject("leads")
    <3>1. /\ pc["leads"] = "store" /\ (Goes("leads", "promote") \/ Goes("leads", "report"))
          /\ UNCHANGED queues /\ (stored' = Increase(stored, x) \/ stored' = stored)
      BY <1>0, <2>1, StoreMoves
    <3>2. /\ UNCHANGED <<entry, cur>> /\ pc'["leads"] \in AfterStore /\ pc'["manager"] = pc["manager"]
          /\ pc["leads"] \in Working \ AfterStore
      BY <1>0, <3>1, Services, Workplaces DEF Goes, LoopOK, AfterStore, queues
    <3>3. x \in Email /\ Used(x, AfterStore)
      BY <3>2, Counting
    <3>4. CASE stored' = Increase(stored, x)
      <4>1. stored'[e] = IF e = x THEN stored[e] + 1 ELSE stored[e]
        BY <1>0, <3>3, <3>4, IncreasedType DEF Types, WorkOK
      <4>. QED BY <1>1, <3>3, <4>1
    <3>. QED BY <3>1, <3>4
  <2>. QED BY <1>0, <2>1, Counts
<1>6. stored'[e] + Cardinality(Ahead(e, AfterStore)') + Credit(ToCome(e)') <= 1 + spent'[e]
  BY <1>4, <1>5
<1>7. Cardinality(Ahead(e, AfterStore))' = Cardinality(Ahead(e, AfterStore)') /\ Credit(ToCome(e))' = Credit(ToCome(e)')
  BY DEF Credit
<1>. QED BY <1>6, <1>7 DEF StorePaid, LeadsPaid

LEMMA PromotePaidKept ==
  ASSUME Base, [Next]_vars, NEW e \in Email, PromotePaid(e)
  PROVE  PromotePaid(e)'
<1>0. Types /\ Types' /\ Grows /\ LoopOK
  BY TypesKept DEF Base, Types
<1>1. promoted[e] \in Nat /\ promoted'[e] \in Nat
  BY <1>0 DEF Types, WorkOK
<1>2. promoted[e] + Cardinality(Ahead(e, AfterPromote)) + Credit(ToCome(e)) <= 1 + spent[e]
  BY DEF PromotePaid, LeadsPaid
<1>3. Kept(e, AfterPromote) \/ Paid(e, AfterPromote) \/ Moved(e, AfterPromote)
  BY Shifts
<1>4. ASSUME \/ promoted'[e] = promoted[e]
             \/ Used(e, AfterPromote) /\ promoted'[e] <= promoted[e] + 1
      PROVE  promoted'[e] + Cardinality(Ahead(e, AfterPromote)') + Credit(ToCome(e)') <= 1 + spent'[e]
  BY <1>0, <1>1, <1>2, <1>3, <1>4, Balance
<1>5. \/ promoted'[e] = promoted[e]
      \/ Used(e, AfterPromote) /\ promoted'[e] <= promoted[e] + 1
  <2>1. CASE Promote
    <3> DEFINE x == Subject("leads")
    <3>1. /\ pc["leads"] = "promote" /\ Goes("leads", "report")
          /\ UNCHANGED queues /\ (promoted' = Increase(promoted, x) \/ promoted' = promoted)
      BY <1>0, <2>1, PromoteMoves
    <3>2. /\ UNCHANGED <<entry, cur>> /\ pc'["leads"] \in AfterPromote /\ pc'["manager"] = pc["manager"]
          /\ pc["leads"] \in Working \ AfterPromote
      BY <1>0, <3>1, Services, Workplaces DEF Goes, LoopOK, AfterPromote, queues
    <3>3. x \in Email /\ Used(x, AfterPromote)
      BY <3>2, Counting
    <3>4. CASE promoted' = Increase(promoted, x)
      <4>1. promoted'[e] = IF e = x THEN promoted[e] + 1 ELSE promoted[e]
        BY <1>0, <3>3, <3>4, IncreasedType DEF Types, WorkOK
      <4>. QED BY <1>1, <3>3, <4>1
    <3>. QED BY <3>1, <3>4
  <2>. QED BY <1>0, <2>1, Counts
<1>6. promoted'[e] + Cardinality(Ahead(e, AfterPromote)') + Credit(ToCome(e)') <= 1 + spent'[e]
  BY <1>4, <1>5
<1>7. Cardinality(Ahead(e, AfterPromote))' = Cardinality(Ahead(e, AfterPromote)') /\ Credit(ToCome(e))' = Credit(ToCome(e)')
  BY DEF Credit
<1>. QED BY <1>6, <1>7 DEF PromotePaid, LeadsPaid

Ledger == \A e \in Email : HandoverPaid(e) /\ StorePaid(e) /\ PromotePaid(e)

LEMMA LedgerHolds == Init => Ledger
<1>. SUFFICES ASSUME Init, NEW e \in Email PROVE HandoverPaid(e) /\ StorePaid(e) /\ PromotePaid(e)
  BY DEF Ledger
<1>1. outbound[e] = 0 /\ stored[e] = 0 /\ promoted[e] = 0 /\ runs[e] = 0 /\ spent[e] = 0
  BY DEF Init
<1>2. ~Manages(e)
  BY Jobs, Services DEF Init, Manages
<1>3. Credit(Owes(e)) = 0 /\ Credit(ToCome(e)) \in {0, 1}
  BY <1>2 DEF Credit, Owes
<1>4. ASSUME NEW S PROVE Cardinality(Ahead(e, S)) = 0
  <2>1. \A n \in Run : entry[<<e, n>>] = "absent"
    BY Jobs DEF Init
  <2>2. Ahead(e, S) = {}
    BY <2>1 DEF Ahead
  <2>. QED BY <2>2, FS_EmptySet
<1>. QED BY <1>1, <1>3, <1>4 DEF HandoverPaid, StorePaid, PromotePaid, LeadsPaid

LEMMA LedgerPays == Base /\ Ledger => CopiesPaidFor
<1>. SUFFICES ASSUME Base, Ledger, NEW e \in Email
              PROVE  outbound[e] <= 1 + spent[e] /\ stored[e] <= 1 + spent[e] /\ promoted[e] <= 1 + spent[e]
  BY DEF CopiesPaidFor
<1>1. /\ outbound[e] \in Nat /\ stored[e] \in Nat /\ promoted[e] \in Nat
      /\ runs[e] \in Nat /\ spent[e] \in Nat
  BY DEF Base, Types, WorkOK, ChargedOK
<1>2. /\ Credit(Owes(e)) \in {0, 1} /\ Credit(Fresh(e)) \in {0, 1} /\ Credit(ToCome(e)) \in {0, 1}
  BY DEF Credit
<1>3. \A S : Cardinality(Ahead(e, S)) \in Nat
  <2>1. \A S : Ahead(e, S) \subseteq Run
    BY DEF Ahead
  <2>. QED BY <2>1, Sizes
<1>4. outbound[e] + Credit(Owes(e)) <= runs[e] /\ runs[e] + Credit(Fresh(e)) <= 1 + spent[e]
  BY DEF Base, RunsPaid, Ledger, HandoverPaid
<1>5. /\ stored[e] + Cardinality(Ahead(e, AfterStore)) + Credit(ToCome(e)) <= 1 + spent[e]
      /\ promoted[e] + Cardinality(Ahead(e, AfterPromote)) + Credit(ToCome(e)) <= 1 + spent[e]
  BY DEF Ledger, StorePaid, PromotePaid, LeadsPaid
<1>6. Cardinality(Ahead(e, AfterStore)) \in Nat /\ Cardinality(Ahead(e, AfterPromote)) \in Nat
  BY <1>3
<1>7. outbound[e] <= 1 + spent[e]
  BY <1>1, <1>2, <1>4
<1>8. stored[e] <= 1 + spent[e] /\ promoted[e] <= 1 + spent[e]
  BY <1>1, <1>2, <1>5, <1>6
<1>. QED BY <1>7, <1>8

(* An email is handed to Outreach, stored and promoted once, and once more *)
(* for each call that raised, answer that was an error, or process that    *)
(* died while the Manager or Leads had it in hand: of the redeliveries and *)
(* new executions by which the consumers recover, none copies for free.    *)
THEOREM CopiesArePaidFor == Spec => []CopiesPaidFor
<1>1. Init => Base /\ Ledger
  BY BaseHolds, LedgerHolds
<1>2. (Base /\ Ledger) /\ [Next]_vars => (Base /\ Ledger)'
  <2>. SUFFICES ASSUME Base, Ledger, [Next]_vars PROVE Base' /\ Ledger'
    OBVIOUS
  <2>1. Base'
    BY BaseKept
  <2>2. \A e \in Email : HandoverPaid(e)' /\ StorePaid(e)' /\ PromotePaid(e)'
    BY HandoverPaidKept, StorePaidKept, PromotePaidKept DEF Ledger
  <2>. QED BY <2>1, <2>2 DEF Ledger
<1>. QED BY <1>1, <1>2, LedgerPays, PTL DEF Spec

-----------------------------------------------------------------------------
(* What Leads may conclude from the results of RAG.                        *)
Listening == {"tail", "wait", "stuck"}
Rightly(i) == answers[i].place = Source[Subject("leads")] \/ Subject("leads") \in misled
Asked ==
  /\ \A i \in DOMAIN answers : answers[i].query <= queries
  /\ from <= Len(answers)
  /\ pc["leads"] \in Listening => queries > 0
  /\ pc["leads"] \in Listening => \A i \in DOMAIN answers : answers[i].query = queries => Rightly(i)
  /\ pc["leads"] = "tail" => \A i \in DOMAIN answers : answers[i].query = queries => Subject("leads") \in unheard
  /\ pc["leads"] \in {"wait", "stuck"} =>
       \A i \in 1 .. from : answers[i].query = queries => Subject("leads") \in unheard
  /\ pc["leads"] = "store" =>
       context = Source[Subject("leads")] \/ Subject("leads") \in Untold \/ spent[Subject("leads")] > 0

(* Steps that neither answer, nor ask, nor listen.                         *)
Remembers ==
  /\ unheard \subseteq unheard' /\ late \subseteq late' /\ misled \subseteq misled'
  /\ dropped \subseteq dropped' /\ gaveUp \subseteq gaveUp'
Silent ==
  /\ UNCHANGED <<queries, answers, strays, routing>> /\ Remembers
  /\ \/ pc'["leads"] = pc["leads"] /\ cur'["leads"] = cur["leads"] /\ UNCHANGED <<from, context>>
     \/ pc'["leads"] \notin Listening \cup {"store"} /\ from' \in {from, 0}

LEMMA SilentExternal ==
  ASSUME Types, (\E e \in Email : Submit(e)) \/ (\E t \in Task : InboundAnswers(t))
  PROVE  Silent
<1>1. ASSUME NEW e \in Email, Submit(e) PROVE Silent
  BY <1>1 DEF Submit, Silent, Remembers, streams, loop, history, waiting
<1>2. ASSUME NEW t \in Task, InboundAnswers(t) PROVE Silent
  BY <1>2, InboundMoves DEF Silent, Remembers, loop, waiting
<1>. QED BY <1>1, <1>2

LEMMA SilentManager ==
  ASSUME Types, Plan \/ PollInbound \/ Delegate \/ PollLeads \/ Handover \/ Deadline
  PROVE  Silent
<1>0. LoopOK
  BY DEF Types
<1>1. /\ UNCHANGED <<routing, streams, waiting, cur>> /\ (\E l \in Location : pc' = [pc EXCEPT !["manager"] = l])
      /\ UNCHANGED <<unheard, late, misled, dropped, strays>> /\ gaveUp \subseteq gaveUp'
  <2>1. CASE Plan
    BY <2>1, PlanMoves, Places DEF Goes, history
  <2>2. CASE PollInbound \/ PollLeads
    BY <2>2, Places DEF PollInbound, PollLeads, Goto, history
  <2>3. CASE Deadline
    BY <2>3, Places DEF Deadline, Goto
  <2>4. CASE Delegate
    BY <2>4, DelegateMoves, Places DEF Goes, history
  <2>5. CASE Handover
    BY <2>5, HandoverMoves, Places DEF Goes, history
  <2>. QED BY <2>1, <2>2, <2>3, <2>4, <2>5
<1>2. pc'["leads"] = pc["leads"]
  BY <1>0, <1>1, Services DEF LoopOK
<1>. QED BY <1>1, <1>2 DEF Silent, Remembers, streams, waiting

LEMMA SilentLoop ==
  ASSUME Types, NEW c \in Service,
         Read(c) \/ Reread(c) \/ Take(c) \/ Report(c) \/ Ack(c) \/ Crash(c) \/ Restart(c)
  PROVE  Silent
<1>0. LoopOK
  BY DEF Types
<1>1. /\ UNCHANGED <<routing, queries, answers, history>> /\ (UNCHANGED waiting \/ EndExecution(c))
      /\ \A x \in Service : x # c => pc'[x] = pc[x] /\ cur'[x] = cur[x]
      /\ pc'[c] \in {"take", "read", "ack", "down", IF c = "manager" THEN "plan" ELSE "ask"}
  <2>1. CASE Read(c) \/ Reread(c)
    BY <1>0, <2>1, DeliverMoves DEF LoopOK, streams
  <2>2. CASE Take(c)
    BY <1>0, <2>2, TakeMoves DEF LoopOK, streams, Goes
  <2>3. CASE Report(c)
    <3>1. /\ UNCHANGED <<routing, queries, answers, history>> /\ EndExecution(c)
          /\ Goes(c, "ack") \/ Fails(c)
      BY <2>3, ReportMoves
    <3>. QED BY <1>0, <3>1 DEF LoopOK, Goes, Fails, Lets
  <2>4. CASE Ack(c)
    <3>1. UNCHANGED <<routing, queries, answers, history, waiting>> /\ Lets(c)
      BY <2>4, AckMoves DEF Fails
    <3>. QED BY <1>0, <3>1 DEF LoopOK, Lets
  <2>5. CASE Crash(c)
    BY <1>0, <2>5, CrashMoves DEF LoopOK, streams
  <2>6. CASE Restart(c)
    BY <1>0, <2>6 DEF LoopOK, streams, Restart, Goto
  <2>. QED BY <2>1, <2>2, <2>3, <2>4, <2>5, <2>6
<1>2. CASE c = "manager"
  <2>1. UNCHANGED waiting
    BY <1>1, <1>2 DEF EndExecution
  <2>. QED BY <1>1, <1>2, <2>1, Services DEF Silent, Remembers, waiting, history
<1>3. CASE c = "leads"
  <2>1. from' \in {from, 0}
    BY <1>1, <1>3 DEF EndExecution, waiting
  <2>2. pc'["leads"] \notin Listening \cup {"store"}
    BY <1>1, <1>3 DEF Listening
  <2>. QED BY <1>1, <2>1, <2>2 DEF Silent, Remembers, history
<1>. QED BY <1>2, <1>3, Services

LEMMA AskedSilent ==
  ASSUME Types, Types', Grows, Asked, Silent
  PROVE  Asked'
<1>1. /\ UNCHANGED <<queries, answers>> /\ unheard \subseteq unheard' /\ late \subseteq late' /\ misled \subseteq misled'
      /\ Untold \subseteq Untold' /\ from \in Nat /\ Len(answers) \in Nat
  BY DEF Silent, Remembers, Types, WaitOK, AnswersOK, Untold
<1>2. CASE pc'["leads"] = pc["leads"] /\ cur'["leads"] = cur["leads"] /\ UNCHANGED <<from, context>>
  <2>1. Subject("leads")' = Subject("leads")
    BY <1>2 DEF Subject
  <2>2. pc["leads"] = "store" => Subject("leads") \in Email
    BY InHand, Services, Places DEF Types
  <2>3. pc["leads"] = "store" => spent'[Subject("leads")] >= spent[Subject("leads")]
                                 /\ spent'[Subject("leads")] \in Nat /\ spent[Subject("leads")] \in Nat
    BY <2>2 DEF Grows
  <2>4. pc'["leads"] = "store" =>
          context' = Source[Subject("leads")'] \/ Subject("leads")' \in Untold' \/ spent'[Subject("leads")'] > 0
    BY <1>1, <1>2, <2>1, <2>3 DEF Asked
  <2>5. \A i : Rightly(i) => Rightly(i)'
    BY <1>1, <2>1 DEF Rightly
  <2>. QED BY <1>1, <1>2, <2>1, <2>4, <2>5 DEF Asked
<1>3. CASE pc'["leads"] \notin Listening \cup {"store"} /\ from' \in {from, 0}
  <2>1. from' <= Len(answers)
    BY <1>1, <1>3 DEF Asked
  <2>. QED BY <1>1, <1>3, <2>1 DEF Asked, Listening
<1>. QED BY <1>2, <1>3 DEF Silent

LEMMA AskedAnswered ==
  ASSUME Types, Types', Asked, RagAnswers
  PROVE  Asked' /\ UNCHANGED <<strays, routing>> /\ Remembers
<1> DEFINE e == Subject("leads")
<1>0. PICK place \in PlacesOf(e) :
        /\ Added([query |-> queries, place |-> place])
        /\ misled' = IF place # Source[e] THEN misled \cup {e} ELSE misled
  BY DEF RagAnswers
<1> DEFINE new == [query |-> queries, place |-> place]
<1>1. /\ pc["leads"] \in Listening
      /\ \A i \in DOMAIN answers : answers[i].query # queries
      /\ answers' = Append(answers, new)
      /\ UNCHANGED from \/ (pc["leads"] = "wait" /\ from = Len(answers) /\ from' = from + 1)
      /\ unheard' = IF pc["leads"] = "tail" \/ from' # from THEN unheard \cup {e} ELSE unheard
      /\ misled' = misled \/ misled' = misled \cup {e}
      /\ UNCHANGED <<queries, loop, context, gaveUp, late, dropped, strays, routing>>
  BY <1>0 DEF RagAnswers, Added, Reading, Listening
<1>2. /\ answers \in Seq(RagAnswer) /\ Len(answers) \in Nat /\ from \in Nat /\ queries \in Nat
      /\ Len(answers') = Len(answers) + 1 /\ DOMAIN answers' = 1 .. Len(answers) + 1 /\ DOMAIN answers = 1 .. Len(answers)
      /\ \A i \in 1 .. Len(answers) : answers'[i] = answers[i]
      /\ answers'[Len(answers) + 1] = new /\ new.query = queries /\ new.place = place
  BY <1>1 DEF Types, AnswersOK, WaitOK
<1>3. pc' = pc /\ cur' = cur /\ e' = e
  BY <1>1 DEF loop, Subject
<1>4. \A i \in DOMAIN answers' : answers'[i].query <= queries'
  <2>. SUFFICES ASSUME NEW i \in 1 .. Len(answers) + 1 PROVE answers'[i].query <= queries
    BY <1>1, <1>2
  <2>1. CASE i = Len(answers) + 1
    BY <1>2, <2>1
  <2>2. CASE i # Len(answers) + 1
    <3>1. i \in 1 .. Len(answers)
      BY <1>2, <2>2
    <3>. QED BY <1>2, <3>1 DEF Asked
  <2>. QED BY <2>1, <2>2, Zenon
<1>5. from' <= Len(answers')
  <2>1. from <= Len(answers)
    BY DEF Asked
  <2>2. from' = from \/ (from = Len(answers) /\ from' = from + 1)
    BY <1>1
  <2>3. from \in Nat /\ Len(answers) \in Nat /\ Len(answers') = Len(answers) + 1
    BY <1>2
  <2>4. from' <= Len(answers) + 1
    BY <2>1, <2>2, <2>3
  <2>. QED BY <2>3, <2>4
<1>6. pc'["leads"] \in Listening => queries' > 0
  BY <1>1, <1>3 DEF Asked
<1>7. pc'["leads"] = "tail" => e' \in unheard'
  BY <1>1, <1>3
<1>8. ASSUME pc'["leads"] \in {"wait", "stuck"}, NEW i \in 1 .. from', answers'[i].query = queries' PROVE e' \in unheard'
  <2>1. CASE from' # from
    <3>1. unheard' = unheard \cup {e}
      BY <1>1, <2>1, Zenon
    <3>. QED BY <1>3, <3>1
  <2>2. CASE from' = from
    <3>1. i \in 1 .. Len(answers)
      BY <1>2, <2>2 DEF Asked
    <3>. QED BY <1>1, <1>2, <1>8, <3>1, Zenon
  <2>. QED BY <2>1, <2>2
<1>11. ASSUME NEW i \in DOMAIN answers', answers'[i].query = queries' PROVE Rightly(i)'
  <2>1. i = Len(answers) + 1
    BY <1>1, <1>2, <1>11
  <2>2. answers'[i].place = place
    BY <1>2, <2>1
  <2>. QED BY <1>0, <1>3, <2>2 DEF Rightly
<1>9. pc'["leads"] # "store"
  BY <1>1, <1>3 DEF Listening
<1>10. Asked'
  BY <1>4, <1>5, <1>6, <1>7, <1>8, <1>9, <1>11 DEF Asked
<1>. QED BY <1>1, <1>10 DEF Remembers

LEMMA AskedForeign ==
  ASSUME Types, Types', Grows, Asked, NEW s \in {"inbound", "leads", "rag"}, Foreign(s)
  PROVE  Asked' /\ UNCHANGED <<strays, routing>> /\ Remembers
<1> DEFINE e == Subject("leads")
<1>0. UNCHANGED <<routing, queries, loop, context, history>>
  BY DEF Foreign
<1>1. UNCHANGED <<strays, routing>> /\ Remembers
  BY <1>0 DEF history, Remembers
<1>2. CASE s # "rag"
  <2>1. Silent
    BY <1>0, <1>1, <1>2 DEF Foreign, Silent, loop, waiting
  <2>. QED BY <1>1, <2>1, AskedSilent
<1>3. CASE s = "rag"
  <2> DEFINE other == [query |-> 0, place |-> "new"]
  <2>1. /\ answers' = Append(answers, other)
        /\ UNCHANGED from \/ (pc["leads"] = "wait" /\ from = Len(answers) /\ from' = from + 1)
        /\ UNCHANGED <<unheard, late, misled, spent>>
    BY <1>0, <1>3 DEF Foreign, Added, history, charged
  <2>2. /\ answers \in Seq(RagAnswer) /\ Len(answers) \in Nat /\ from \in Nat /\ queries \in Nat
        /\ Len(answers') = Len(answers) + 1 /\ DOMAIN answers' = 1 .. Len(answers) + 1 /\ DOMAIN answers = 1 .. Len(answers)
        /\ \A i \in 1 .. Len(answers) : answers'[i] = answers[i]
        /\ answers'[Len(answers) + 1] = other /\ other.query = 0
    BY <2>1 DEF Types, AnswersOK, WaitOK
  <2>3. pc' = pc /\ cur' = cur /\ e' = e
    BY <1>0 DEF loop, Subject
  <2>4. ASSUME NEW i \in 1 .. Len(answers) + 1
        PROVE  answers'[i].query = 0 \/ (i \in 1 .. Len(answers) /\ answers'[i] = answers[i])
    BY <2>2, <2>4
  <2>5. \A i \in DOMAIN answers' : answers'[i].query <= queries'
    BY <1>0, <2>2, <2>4 DEF Asked
  <2>6. from' <= Len(answers')
    <3>1. from <= Len(answers)
      BY DEF Asked
    <3>2. from' = from \/ (from = Len(answers) /\ from' = from + 1)
      BY <2>1
    <3>3. from \in Nat /\ Len(answers) \in Nat /\ Len(answers') = Len(answers) + 1
      BY <2>2
    <3>4. from' <= Len(answers) + 1
      BY <3>1, <3>2, <3>3
    <3>. QED BY <3>3, <3>4
  <2>7. pc'["leads"] \in Listening => queries' > 0
    BY <1>0, <2>3 DEF Asked
  <2>8. ASSUME pc'["leads"] = "tail", NEW i \in DOMAIN answers', answers'[i].query = queries' PROVE e' \in unheard'
    <3>1. queries > 0
      BY <2>3, <2>8 DEF Asked, Listening
    <3>2. i \in DOMAIN answers /\ answers[i].query = queries
      BY <1>0, <2>2, <2>4, <2>8, <3>1
    <3>. QED BY <2>1, <2>3, <2>8, <3>2 DEF Asked
  <2>9. ASSUME pc'["leads"] \in {"wait", "stuck"}, NEW i \in 1 .. from', answers'[i].query = queries' PROVE e' \in unheard'
    <3>1. queries > 0
      BY <2>3, <2>9 DEF Asked, Listening
    <3>2. i \in 1 .. Len(answers) + 1
      <4>1. from' \in Nat
        BY DEF Types, WaitOK
      <4>2. from' <= Len(answers) + 1 /\ Len(answers) \in Nat
        BY <2>2, <2>6
      <4>. QED BY <2>9, <4>1, <4>2
    <3>3. i \in 1 .. Len(answers) /\ answers[i].query = queries
      <4>1. answers'[i].query = queries
        BY <1>0, <2>9, Zenon
      <4>2. queries # 0
        BY <3>1
      <4>. QED BY <2>4, <3>2, <4>1, <4>2, Zenon
    <3>4. i \in 1 .. from
      BY <2>1, <2>2, <3>3, Zenon
    <3>. QED BY <2>1, <2>3, <2>9, <3>3, <3>4 DEF Asked
  <2>10. pc'["leads"] = "store" => context' = Source[e'] \/ e' \in Untold' \/ spent'[e'] > 0
    BY <1>0, <2>1, <2>3 DEF Asked, Untold
  <2>12. ASSUME pc'["leads"] \in Listening, NEW i \in DOMAIN answers', answers'[i].query = queries' PROVE Rightly(i)'
    <3>1. queries > 0
      BY <2>3, <2>12 DEF Asked
    <3>2. i \in DOMAIN answers /\ answers'[i] = answers[i] /\ answers[i].query = queries
      BY <1>0, <2>2, <2>4, <2>12, <3>1
    <3>3. Rightly(i)
      BY <2>3, <2>12, <3>2 DEF Asked
    <3>. QED BY <2>1, <2>3, <3>2, <3>3 DEF Rightly
  <2>11. Asked'
    BY <2>5, <2>6, <2>7, <2>8, <2>9, <2>10, <2>12 DEF Asked
  <2>. QED BY <1>1, <2>11
<1>. QED BY <1>2, <1>3

(* Steps of Leads: what it writes down, and what it has reason to.         *)
LEMMA AskedByLeads ==
  ASSUME Base, Types', Grows, Asked, Ask \/ FindTail \/ Hear \/ BlockForever \/ GiveUp \/ Promote
  PROVE  Asked' /\ UNCHANGED <<strays, routing>> /\ Remembers
<1> DEFINE e == Subject("leads")
<1>0. Types /\ LoopOK /\ ChargedOK
  BY DEF Base, Types
<1>1. from \in Nat /\ Len(answers) \in Nat /\ queries \in Nat /\ from <= Len(answers) /\ DOMAIN answers = 1 .. Len(answers)
  BY <1>0 DEF Types, WaitOK, AnswersOK, Asked
<1>2. \A i \in 1 .. Len(answers) : answers[i].query \in Nat /\ answers[i].query <= queries
  <2>1. ASSUME NEW i \in 1 .. Len(answers) PROVE answers[i].query \in Nat
    <3>1. answers[i] \in RagAnswer
      BY <1>0, <1>1 DEF Types, AnswersOK
    <3>. QED BY <3>1 DEF RagAnswer
  <2>2. \A i \in DOMAIN answers : answers[i].query <= queries
    BY DEF Asked
  <2>. QED BY <1>1, <2>1, <2>2
<1>3. pc["leads"] \notin Idle => e \in Email
  BY <1>0, InHand, Services
<1>4. ASSUME NEW l, Goes("leads", l) PROVE pc'["leads"] = l /\ e' = e
  BY <1>0, <1>4, Services DEF Goes, LoopOK, Subject
<1>11. ASSUME UNCHANGED <<answers, misled>>, e' = e, NEW i, Rightly(i) PROVE Rightly(i)'
  BY <1>11 DEF Rightly
<1>5. ASSUME Ask PROVE Asked' /\ UNCHANGED <<strays, routing>> /\ Remembers
  <2>1. /\ pc["leads"] = "ask" /\ UNCHANGED <<routing, answers, from, history>>
        /\ \/ Goes("leads", "tail") /\ queries' = queries + 1
           \/ Goes("leads", "store") /\ Blames(e) /\ queries' \in {queries, queries + 1}
    BY <1>0, <1>5, AskMoves
  <2>2. UNCHANGED strays /\ Remembers
    BY <2>1 DEF history, Remembers
  <2>3. CASE Goes("leads", "tail") /\ queries' = queries + 1
    <3>1. pc'["leads"] = "tail" /\ queries' > 0
      BY <1>1, <1>4, <2>3
    <3>2. \A i \in DOMAIN answers : answers[i].query <= queries' /\ answers[i].query # queries'
      BY <1>1, <1>2, <2>3
    <3>. QED BY <1>1, <2>1, <2>2, <3>1, <3>2 DEF Asked
  <2>4. CASE Goes("leads", "store") /\ Blames(e) /\ queries' \in {queries, queries + 1}
    <3>1. pc'["leads"] = "store" /\ e' = e
      BY <1>4, <2>4
    <3>2. e \in Email
      BY <1>3, <2>1, Places
    <3>3. spent'[e] = spent[e] + 1 /\ spent[e] \in Nat
      BY <1>0, <2>4, <3>2, ChargeType
    <3>4. spent'[e] > 0
      BY <3>3
    <3>5. \A i \in DOMAIN answers : answers[i].query <= queries'
      BY <1>1, <1>2, <2>4
    <3>. QED BY <1>1, <2>1, <2>2, <3>1, <3>4, <3>5 DEF Asked, Listening
  <2>. QED BY <2>1, <2>3, <2>4
<1>6. ASSUME FindTail PROVE Asked' /\ UNCHANGED <<strays, routing>> /\ Remembers
  <2>1. /\ pc["leads"] = "tail" /\ Goes("leads", "wait") /\ from' = Len(answers)
        /\ UNCHANGED <<routing, queries, answers, history>>
    BY <1>0, <1>6, FindTailMoves DEF streams
  <2>2. UNCHANGED <<strays, unheard, misled>> /\ Remembers
    BY <2>1 DEF history, Remembers
  <2>3. pc'["leads"] = "wait" /\ e' = e
    BY <1>4, <2>1
  <2>4. \A i \in 1 .. Len(answers) : answers[i].query = queries => e \in unheard
    BY <1>1, <2>1 DEF Asked
  <2>5. queries > 0
    BY <2>1 DEF Asked, Listening
  <2>6. Len(answers) <= Len(answers)
    BY <1>1
  <2>7. \A i \in DOMAIN answers : answers[i].query = queries => Rightly(i)'
    BY <1>11, <2>1, <2>2, <2>3 DEF Asked, Listening
  <2>. QED BY <1>1, <1>2, <2>1, <2>2, <2>3, <2>4, <2>5, <2>6, <2>7 DEF Asked
<1>7. ASSUME BlockForever PROVE Asked' /\ UNCHANGED <<strays, routing>> /\ Remembers
  <2>1. /\ pc["leads"] = "wait" /\ Goes("leads", "stuck")
        /\ UNCHANGED <<routing, queries, answers, history, from>>
    BY <1>7 DEF BlockForever, Goes, Goto, streams, waiting
  <2>2. UNCHANGED <<strays, unheard, misled>> /\ Remembers
    BY <2>1 DEF history, Remembers
  <2>3. pc'["leads"] = "stuck" /\ e' = e
    BY <1>4, <2>1
  <2>4. queries > 0 /\ \A i \in 1 .. from : answers[i].query = queries => e \in unheard
    BY <2>1 DEF Asked, Listening
  <2>7. \A i \in DOMAIN answers : answers[i].query = queries => Rightly(i)'
    BY <1>11, <2>1, <2>2, <2>3 DEF Asked, Listening
  <2>. QED BY <1>1, <1>2, <2>1, <2>2, <2>3, <2>4, <2>7 DEF Asked
<1>8. ASSUME GiveUp PROVE Asked' /\ UNCHANGED <<strays, routing>> /\ Remembers
  <2>1. /\ pc["leads"] = "wait" /\ Goes("leads", "store") /\ from' = 0
        /\ late' = IF PassedOver THEN late ELSE late \cup {e}
        /\ UNCHANGED <<routing, queries, answers, context, gaveUp, unheard, misled, dropped, strays>>
    BY <1>8 DEF GiveUp, Goes, Goto, streams
  <2>2. Remembers
    BY <2>1 DEF Remembers
  <2>3. pc'["leads"] = "store" /\ e' = e
    BY <1>4, <2>1
  <2>4. e \in Untold'
    <3>1. CASE PassedOver
      BY <2>1, <3>1 DEF PassedOver, Asked, Untold
    <3>2. CASE ~PassedOver
      BY <2>1, <3>2 DEF Untold
    <3>. QED BY <3>1, <3>2
  <2>. QED BY <1>1, <1>2, <2>1, <2>2, <2>3, <2>4 DEF Asked, Listening
<1>9. ASSUME Promote PROVE Asked' /\ UNCHANGED <<strays, routing>> /\ Remembers
  <2>1. Goes("leads", "report") /\ UNCHANGED <<routing, streams, waiting, history>>
    BY <1>0, <1>9, PromoteMoves
  <2>2. Silent
    BY <1>4, <2>1 DEF Silent, Remembers, streams, waiting, history, Listening
  <2>. QED BY <1>0, <2>2, AskedSilent DEF Silent
<1>10. ASSUME Hear PROVE Asked' /\ UNCHANGED <<strays, routing>> /\ Remembers
  <2>1. /\ pc["leads"] \in {"wait", "stuck"} /\ Learn
        /\ IF Heard # {} \/ pc["leads"] = "stuck"
           THEN Goes("leads", "store") /\ from' = 0
           ELSE UNCHANGED <<pc, todo, cur>> /\ from' = Len(answers)
        /\ late' = IF Heard = {} /\ pc["leads"] = "stuck" THEN late \cup {e} ELSE late
        /\ UNCHANGED <<routing, queries, answers, gaveUp, unheard, misled, dropped, strays>>
    BY <1>10 DEF Hear, Reading, Goes, Goto, streams
  <2>2. Remembers
    BY <2>1 DEF Remembers
  <2>3. CASE Heard # {} \/ pc["leads"] = "stuck"
    <3>1. pc'["leads"] = "store" /\ e' = e /\ from' = 0
      BY <1>4, <2>1, <2>3
    <3>2. context' = Source[e] \/ e \in Untold'
      <4>1. CASE Heard # {}
        <5>1. PICK i \in Heard : context' = answers[i].place
          BY <2>1, <4>1 DEF Learn
        <5>2. i \in DOMAIN answers /\ answers[i].query = queries
          BY <1>1, <5>1 DEF Heard
        <5>3. Rightly(i)
          BY <2>1, <5>2 DEF Asked, Listening
        <5>. QED BY <2>1, <5>1, <5>3 DEF Rightly, Untold
      <4>2. CASE Heard = {}
        <5>1. late' = late \cup {e}
          BY <2>1, <2>3, <4>2
        <5>. QED BY <5>1 DEF Untold
      <4>. QED BY <4>1, <4>2
    <3>. QED BY <1>1, <1>2, <2>1, <2>2, <3>1, <3>2 DEF Asked, Listening
  <2>4. CASE Heard = {} /\ pc["leads"] # "stuck"
    <3>1. pc["leads"] = "wait" /\ pc' = pc /\ e' = e /\ from' = Len(answers)
      BY <2>1, <2>4 DEF Subject
    <3>2. queries > 0 /\ \A i \in 1 .. from : answers[i].query = queries => e \in unheard
      BY <3>1 DEF Asked, Listening
    <3>3. ASSUME NEW i \in 1 .. Len(answers), answers[i].query = queries PROVE e \in unheard
      <4>1. i \in 1 .. from \/ i \in from + 1 .. Len(answers)
        BY <1>1, <3>3
      <4>. QED BY <2>4, <3>2, <3>3, <4>1 DEF Heard
    <3>4. Len(answers) <= Len(answers)
      BY <1>1
    <3>5. \A i \in DOMAIN answers : answers[i].query = queries => Rightly(i)'
      BY <1>11, <2>1, <3>1 DEF Asked, Listening
    <3>. QED BY <1>1, <1>2, <2>1, <2>2, <3>1, <3>2, <3>3, <3>4, <3>5 DEF Asked
  <2>. QED BY <2>3, <2>4
<1>. QED BY <1>5, <1>6, <1>7, <1>8, <1>9, <1>10

(* What Leads stores in the wrong table, it has a reason to.               *)
LEMMA StoreReasons ==
  ASSUME Base, Types', Grows, Asked, Store, NEW e, e = Subject("leads")
  PROVE  /\ e \in Email /\ Asked' /\ UNCHANGED routing /\ Remembers
         /\ context = Source[e] \/ e \in Untold' \/ spent'[e] > 0
         /\ \/ UNCHANGED strays
            \/ strays' = strays \cup {e} /\ context # Source[e]
<1>0. Types
  BY DEF Base
<1>1. /\ pc["leads"] = "store" /\ (Goes("leads", "promote") \/ Goes("leads", "report"))
      /\ UNCHANGED <<routing, queues, streams, waiting, gaveUp, unheard, late, misled, dropped>>
      /\ UNCHANGED strays \/ strays' = (IF context # Source[e] THEN strays \cup {e} ELSE strays)
  BY <1>0, StoreMoves
<1>2. e \in Email
  BY <1>0, <1>1, InHand, Services, Places DEF Types
<1>3. pc'["leads"] \notin Listening \cup {"store"}
  BY <1>0, <1>1, Services DEF Goes, Types, LoopOK, Listening
<1>4. from \in Nat /\ Len(answers) \in Nat
  BY <1>0 DEF Types, WaitOK, AnswersOK
<1>5. Asked'
  BY <1>1, <1>3, <1>4 DEF Asked, streams, waiting, Listening
<1>6. context = Source[e] \/ e \in Untold \/ spent[e] > 0
  BY <1>1 DEF Asked
<1>7. context = Source[e] \/ e \in Untold' \/ spent'[e] > 0
  BY <1>1, <1>2, <1>6 DEF Grows, Untold
<1>. QED BY <1>1, <1>2, <1>5, <1>7 DEF Remembers

LEMMA AskedKept ==
  ASSUME Base, [Next]_vars, Asked
  PROVE  /\ Asked' /\ UNCHANGED routing /\ Remembers
         /\ Store \/ UNCHANGED strays
<1>0. Types /\ Types' /\ Grows
  BY TypesKept DEF Base
<1>1. ASSUME Silent PROVE Asked' /\ UNCHANGED <<strays, routing>> /\ Remembers
  BY <1>0, <1>1, AskedSilent DEF Silent
<1>2. CASE UNCHANGED vars
  <2>1. Silent
    BY <1>2 DEF vars, Silent, Remembers, streams, history, loop, waiting
  <2>. QED BY <1>1, <2>1
<1>3. CASE External
  BY <1>0, <1>1, <1>3, SilentExternal, AskedAnswered, AskedForeign DEF External
<1>4. ASSUME NEW c \in Service, Step(c) \/ Crash(c) \/ Restart(c)
      PROVE  Asked' /\ UNCHANGED routing /\ Remembers /\ (Store \/ UNCHANGED strays)
  <2>1. CASE Read(c) \/ Reread(c) \/ Take(c) \/ Report(c) \/ Ack(c) \/ Crash(c) \/ Restart(c)
    BY <1>0, <1>1, <2>1, SilentLoop
  <2>2. CASE Plan \/ PollInbound \/ Delegate \/ PollLeads \/ Handover \/ Deadline
    BY <1>0, <1>1, <2>2, SilentManager
  <2>3. CASE Ask \/ FindTail \/ Hear \/ BlockForever \/ GiveUp \/ Promote
    BY <1>0, <2>3, AskedByLeads
  <2>4. CASE Store
    BY <1>0, <2>4, StoreReasons
  <2>. QED BY <1>4, <2>1, <2>2, <2>3, <2>4 DEF Step
<1>. QED BY <1>2, <1>3, <1>4 DEF Next

LEMMA AskedHolds == Init => Asked
<1>. SUFFICES ASSUME Init PROVE Asked
  OBVIOUS
<1>1. answers = <<>> /\ from = 0 /\ pc["leads"] = "read"
  BY Services DEF Init
<1>2. DOMAIN answers = {} /\ Len(answers) = 0
  BY <1>1
<1>. QED BY <1>1, <1>2 DEF Asked, Listening

LEMMA StraysKept ==
  ASSUME Base, [Next]_vars, Asked, StraysPaidFor
  PROVE  StraysPaidFor'
<1>1. Types /\ Types' /\ Grows
  BY TypesKept DEF Base
<1>2. Remembers /\ (Store \/ UNCHANGED strays)
  BY AskedKept
<1>3. ASSUME NEW e \in strays PROVE e \in Untold' \/ spent'[e] > 0
  <2>1. e \in Email /\ (e \in Untold \/ spent[e] > 0)
    BY <1>1 DEF Types, HistoryOK, StraysPaidFor
  <2>. QED BY <1>1, <1>2, <2>1 DEF Remembers, Grows, Untold
<1>4. CASE UNCHANGED strays
  BY <1>3, <1>4 DEF StraysPaidFor
<1>5. CASE Store
  <2> DEFINE x == Subject("leads")
  <2>1. /\ context = Source[x] \/ x \in Untold' \/ spent'[x] > 0
        /\ UNCHANGED strays \/ (strays' = strays \cup {x} /\ context # Source[x])
    BY <1>1, <1>5, StoreReasons
  <2>. QED BY <1>3, <2>1 DEF StraysPaidFor
<1>. QED BY <1>2, <1>4, <1>5

(* An email is stored elsewhere than in its sender's table only if RAG     *)
(* answered too late, or while no read could see it, or without naming     *)
(* that table, or a mishap hit the email: an answer that names it, and     *)
(* comes while Leads listens, is heard however many results of others are  *)
(* on the stream, because what Leads reads past it has looked at.          *)
THEOREM StraysArePaidFor == Spec => []StraysPaidFor
<1>1. Init => Base /\ Asked /\ StraysPaidFor
  BY BaseHolds, AskedHolds DEF Init, StraysPaidFor
<1>2. (Base /\ Asked /\ StraysPaidFor) /\ [Next]_vars => (Base /\ Asked /\ StraysPaidFor)'
  <2>. SUFFICES ASSUME Base, Asked, StraysPaidFor, [Next]_vars PROVE Base' /\ Asked' /\ StraysPaidFor'
    OBVIOUS
  <2>. QED BY BaseKept, AskedKept, StraysKept
<1>. QED BY <1>1, <1>2, PTL DEF Spec

-----------------------------------------------------------------------------
(* Nothing is taken back, and only who has reported acknowledges.          *)
Onward ==
  /\ UNCHANGED routing /\ Remembers
  /\ \A j \in Job :
       /\ entry[j] # "absent" => entry'[j] # "absent"
       /\ entry'[j] = "done" =>
            entry[j] = "done" \/ \E c \in Service : cur[c] = j /\ pc[c] \in {"report", "ack"}
  /\ \A e \in Email :
       /\ outbound[e] > 0 => outbound'[e] > 0
       /\ stored[e] > 0 => stored'[e] > 0
       /\ spent[e] > 0 => spent'[e] > 0

LEMMA EntriesOnward ==
  ASSUME Base, [Next]_vars, NEW j \in Job
  PROVE  /\ entry[j] # "absent" => entry'[j] # "absent"
         /\ entry'[j] = "done" =>
              entry[j] = "done" \/ \E c \in Service : cur[c] = j /\ pc[c] \in {"report", "ack"}
<1>0. Types
  BY DEF Base
<1>1. ASSUME UNCHANGED entry \/ \E t \in Job : Opened(t) PROVE (entry[j] # "absent" => entry'[j] # "absent") /\ (entry'[j] = "done" => entry[j] = "done")
  BY <1>0, <1>1 DEF Opened, Types, QueueOK
<1>2. CASE KindOfExternal
  BY <1>1, <1>2, Jobs DEF KindOfExternal, Stands, Enters
<1>3. CASE KindOfManager
  <2>1. CASE Plans(Subject("manager"))
    <3>1. pc["manager"] = "plan"
      BY <2>1 DEF Plans
    <3>2. <<Subject("manager"), runs[Subject("manager")] + 1>> \in Job
      BY <3>1, PlanTask, Jobs
    <3>. QED BY <1>1, <2>1, <3>2 DEF Plans
  <2>2. CASE Delegates
    <3>1. Waited \in Job
      BY <2>2, WaitedTask, Jobs DEF Delegates, Idle
    <3>. QED BY <1>1, <2>2, <3>1 DEF Delegates
  <2>3. ASSUME NEW l \in Working, Advances("manager", l) PROVE UNCHANGED entry
    BY <2>3 DEF Advances
  <2>. QED BY <1>1, <1>3, <2>1, <2>2, <2>3 DEF KindOfManager
<1>4. CASE KindOfLeads
  BY <1>1, <1>4 DEF KindOfLeads, Stands, Advances
<1>5. ASSUME NEW c \in Service, KindOfLoop(c)
      PROVE  /\ entry[j] # "absent" => entry'[j] # "absent"
             /\ entry'[j] = "done" => entry[j] = "done" \/ (cur[c] = j /\ pc[c] \in {"report", "ack"})
  <2>1. CASE Delivers(c)
    <3>1. PICK batch \in SUBSET Job : entry' = [x \in Job |-> IF x \in batch THEN "pending" ELSE entry[x]]
      BY <2>1 DEF Delivers
    <3>2. entry'[j] = IF j \in batch THEN "pending" ELSE entry[j]
      BY <3>1
    <3>. QED BY <3>2
  <2>2. CASE Finishes(c)
    <3>1. pc[c] \in {"report", "ack"}
      BY <2>2 DEF Finishes
    <3>2. ASSUME NEW s \in {"done", "dead"}, Closes(cur[c], s) PROVE entry'[j] = IF j = cur[c] THEN s ELSE entry[j]
      BY <1>0, <3>2 DEF Closes, Types, QueueOK
    <3>. QED BY <1>1, <2>2, <3>1, <3>2 DEF Finishes
  <2>3. CASE ~Delivers(c) /\ ~Finishes(c)
    <3>1. UNCHANGED entry
      BY <1>5, <2>3 DEF KindOfLoop, Takes, Idles, Crashes, Advances
    <3>. QED BY <1>1, <3>1
  <2>. QED BY <2>1, <2>2, <2>3
<1>. QED BY <1>0, <1>2, <1>3, <1>4, <1>5, Kinds

LEMMA AllOnward ==
  ASSUME Base, [Next]_vars, Asked
  PROVE  Onward
<1>0. Types /\ Types' /\ Grows
  BY TypesKept DEF Base
<1>1. UNCHANGED routing /\ Remembers
  BY AskedKept
<1>2. ASSUME NEW e \in Email
      PROVE  /\ outbound[e] > 0 => outbound'[e] > 0
             /\ stored[e] > 0 => stored'[e] > 0
             /\ spent[e] > 0 => spent'[e] > 0
  <2>1. outbound[e] \in Nat /\ stored[e] \in Nat
    BY <1>0 DEF Types, WorkOK
  <2>2. outbound[e] > 0 => outbound'[e] > 0
    <3>1. CASE Handover
      <4> DEFINE x == Subject("manager")
      <4>1. pc["manager"] = "handover" /\ (outbound' = Increase(outbound, x) \/ outbound' = outbound)
        BY <1>0, <3>1, HandoverMoves
      <4>2. x \in Email
        BY <4>1, WaitedTask DEF Idle
      <4>3. outbound' = Increase(outbound, x) => outbound'[e] = IF e = x THEN outbound[e] + 1 ELSE outbound[e]
        BY <1>0, <4>2, IncreasedType DEF Types, WorkOK
      <4>. QED BY <2>1, <4>1, <4>3
    <3>. QED BY <1>0, <3>1, Counts
  <2>3. stored[e] > 0 => stored'[e] > 0
    <3>1. CASE Store
      <4> DEFINE x == Subject("leads")
      <4>1. stored' = Increase(stored, x) \/ stored' = stored
        BY <1>0, <3>1, StoreMoves
      <4>2. x \in Email
        BY <1>0, <3>1, StoreReasons
      <4>3. stored' = Increase(stored, x) => stored'[e] = IF e = x THEN stored[e] + 1 ELSE stored[e]
        BY <1>0, <4>2, IncreasedType DEF Types, WorkOK
      <4>. QED BY <2>1, <4>1, <4>3
    <3>. QED BY <1>0, <3>1, Counts
  <2>4. spent[e] > 0 => spent'[e] > 0
    BY <1>0 DEF Grows
  <2>. QED BY <2>2, <2>3, <2>4
<1>. QED BY <1>1, <1>2, EntriesOnward DEF Onward

(* What the Manager owes an email, and what Leads does.                    *)
Excused(e) == e \in dropped \/ spent[e] > 0 \/ \E n \in Run : <<e, n>> \in gaveUp
Delegated(e) == \E n \in Run \ {0} : entry[<<e, n>>] # "absent"
HandedOver(e) == Delegated(e) /\ (routing = "leads" => outbound[e] > 0)
IsStored(e) == stored[e] > 0 \/ FastTracked(e) \/ spent[e] > 0

ManagerDuty(e) ==
  Manages(e) =>
    \/ Excused(e) \/ pc["manager"] = "plan"
    \/ pc["manager"] \in {"awaitInbound", "delegate"} /\ routing # "leads"
    \/ pc["manager"] \in {"awaitLeads", "handover"} /\ Delegated(e)
    \/ pc["manager"] \in {"report", "ack"} /\ HandedOver(e)
LeadsDuty(e) ==
  \A n \in Run \ {0} : cur["leads"] = <<e, n>> /\ pc["leads"] \in AfterStore => IsStored(e)
Refused ==
  \A i \in DOMAIN results["inbound"] :
    LET r == results["inbound"][i] IN
      ~r.has /\ r.task # NoJob => r.task[1] \in dropped \/ spent[r.task[1]] > 0
Duty == Refused /\ \A e \in Email : ManagerDuty(e) /\ LeadsDuty(e)

LEMMA Lasting ==
  ASSUME Types, Onward, NEW e \in Email
  PROVE  /\ Excused(e) => Excused(e)'
         /\ Delegated(e) => Delegated(e)'
         /\ HandedOver(e) => HandedOver(e)'
         /\ IsStored(e) => IsStored(e)'
<1>1. Excused(e) => Excused(e)'
  BY DEF Onward, Remembers, Excused
<1>2. Delegated(e) => Delegated(e)'
  BY Jobs DEF Onward, Delegated
<1>3. HandedOver(e) => HandedOver(e)'
  BY <1>2 DEF Onward, HandedOver
<1>4. IsStored(e) => IsStored(e)'
  BY DEF Onward, Remembers, IsStored, FastTracked, Untold
<1>. QED BY <1>1, <1>2, <1>3, <1>4

-----------------------------------------------------------------------------
(* What Inbound refused was dropped, or a mishap.                          *)
LEMMA InboundResults ==
  ASSUME Types, [Next]_vars
  PROVE  \/ results'["inbound"] = results["inbound"]
         \/ \E t \in Task : InboundAnswers(t)
         \/ results'["inbound"] = Append(results["inbound"], [task |-> NoJob, has |-> FALSE])
<1>0. results \in [{"inbound", "leads"} -> Seq(Answer)]
  BY DEF Types, ResultsOK
<1>1. CASE UNCHANGED vars
  BY <1>1 DEF vars, streams
<1>2. CASE External
  <2>1. ASSUME NEW e \in Email, Submit(e) PROVE UNCHANGED results
    BY <2>1 DEF Submit, streams
  <2>2. ASSUME RagAnswers PROVE UNCHANGED results
    BY <2>2 DEF RagAnswers
  <2>3. ASSUME NEW s \in {"inbound", "leads", "rag"}, Foreign(s)
        PROVE  \/ results'["inbound"] = results["inbound"]
               \/ results'["inbound"] = Append(results["inbound"], [task |-> NoJob, has |-> FALSE])
    BY <1>0, <2>3 DEF Foreign, AppendTo
  <2>. QED BY <1>2, <2>1, <2>2, <2>3 DEF External
<1>3. CASE Plan \/ PollInbound \/ Delegate \/ PollLeads \/ Handover \/ Deadline
  BY <1>3 DEF Plan, PollInbound, Delegate, PollLeads, Handover, Deadline, streams
<1>4. CASE Ask \/ FindTail \/ Hear \/ BlockForever \/ GiveUp \/ Store \/ Promote
  BY <1>4 DEF Ask, FindTail, Hear, BlockForever, GiveUp, Store, Promote, streams
<1>5. ASSUME NEW c \in Service, NEW packet \in BOOLEAN, NEW error \in BOOLEAN, Published(c, packet, error)
      PROVE  results'["inbound"] = results["inbound"]
  BY <1>0, <1>5 DEF Published
<1>6. ASSUME NEW c \in Service,
             Read(c) \/ Reread(c) \/ Take(c) \/ Report(c) \/ Ack(c) \/ Crash(c) \/ Restart(c)
      PROVE  results'["inbound"] = results["inbound"]
  <2>1. CASE Read(c) \/ Reread(c)
    BY <2>1, DeliverMoves DEF streams
  <2>2. CASE Take(c) \/ Crash(c) \/ Restart(c)
    BY <2>2 DEF Take, Crash, Restart, streams
  <2>3. CASE Report(c)
    BY <1>5, <2>3, ReportMoves
  <2>4. CASE Ack(c)
    BY <1>5, <2>4, AckMoves
  <2>. QED BY <1>6, <2>1, <2>2, <2>3, <2>4
<1>. QED BY <1>1, <1>2, <1>3, <1>4, <1>6 DEF Next, Step

LEMMA RefusedKept ==
  ASSUME Base, [Next]_vars, Onward, Refused
  PROVE  Refused'
<1>0. Types /\ ChargedOK
  BY DEF Base, Types
<1> DEFINE old == results["inbound"]  new == results'["inbound"]
           Fine(r) == ~r.has /\ r.task # NoJob => r.task[1] \in dropped' \/ spent'[r.task[1]] > 0
<1>1. old \in Seq(Answer)
  BY <1>0 DEF Types, ResultsOK
<1>2. ASSUME NEW i \in DOMAIN old PROVE Fine(old[i])
  <2>1. old[i] \in Answer
    BY <1>1
  <2>2. old[i].task # NoJob => old[i].task[1] \in Email
    BY <2>1, Jobs DEF Answer
  <2>3. ~old[i].has /\ old[i].task # NoJob => old[i].task[1] \in dropped \/ spent[old[i].task[1]] > 0
    BY DEF Refused
  <2>. QED BY <2>2, <2>3 DEF Onward, Remembers
<1>3. ASSUME NEW r, Fine(r), new = Append(old, r) PROVE Refused'
  <2>1. \A i \in DOMAIN new : (i \in DOMAIN old /\ new[i] = old[i]) \/ new[i] = r
    BY <1>1, <1>3
  <2>2. \A i \in DOMAIN new : Fine(new[i])
    BY <1>2, <1>3, <2>1
  <2>. QED BY <2>2 DEF Refused
<1>4. CASE new = old
  <2>1. \A i \in DOMAIN new : Fine(new[i])
    BY <1>2, <1>4
  <2>. QED BY <2>1 DEF Refused
<1>5. ASSUME NEW t \in Task, InboundAnswers(t) PROVE Refused'
  <2>1. \/ results' = AppendTo("inbound", t, TRUE)
        \/ results' = AppendTo("inbound", t, FALSE) /\ dropped' = dropped \cup {t[1]}
        \/ results' = AppendTo("inbound", t, FALSE) /\ Blames(t[1])
    BY <1>0, <1>5, InboundMoves
  <2>2. \A has \in BOOLEAN : results' = AppendTo("inbound", t, has) => new = Append(old, [task |-> t, has |-> has])
    BY <1>0 DEF AppendTo, Types, ResultsOK
  <2>3. Fine([task |-> t, has |-> TRUE])
    OBVIOUS
  <2>4. dropped' = dropped \cup {t[1]} => Fine([task |-> t, has |-> FALSE])
    OBVIOUS
  <2>5. Blames(t[1]) => Fine([task |-> t, has |-> FALSE])
    <3>1. t[1] \in Email
      BY Jobs
    <3>2. ASSUME Blames(t[1]) PROVE spent'[t[1]] > 0
      <4>1. spent'[t[1]] = spent[t[1]] + 1 /\ spent[t[1]] \in Nat
        BY <1>0, <3>1, <3>2, ChargeType
      <4>. QED BY <4>1
    <3>. QED BY <3>2
  <2> HIDE DEF Fine, new, old
  <2>6. \/ new = Append(old, [task |-> t, has |-> TRUE])
        \/ new = Append(old, [task |-> t, has |-> FALSE]) /\ Fine([task |-> t, has |-> FALSE])
    BY <2>1, <2>2, <2>4, <2>5, TRUE \in BOOLEAN, FALSE \in BOOLEAN
  <2>. QED BY <1>3, <2>3, <2>6
<1>6. CASE new = Append(old, [task |-> NoJob, has |-> FALSE])
  <2>1. Fine([task |-> NoJob, has |-> FALSE])
    OBVIOUS
  <2>. QED BY <1>3, <1>6, <2>1
<1>. QED BY <1>0, <1>4, <1>5, <1>6, InboundResults

(* What the Manager polled for, it found.                                  *)
LEMMA FoundRefusal ==
  ASSUME Types, Refused, NEW t \in Task, Found("inbound", t, FALSE)
  PROVE  Excused(t[1])
<1>1. PICK i \in Recent("inbound") : results["inbound"][i] = [task |-> t, has |-> FALSE]
  BY DEF Found
<1>2. i \in DOMAIN results["inbound"]
  BY DEF Recent
<1>3. t # NoJob
  BY Jobs
<1>4. ~results["inbound"][i].has /\ results["inbound"][i].task = t
  BY <1>1
<1>. QED BY <1>2, <1>3, <1>4 DEF Refused, Excused

LEMMA BlameExcuses ==
  ASSUME Types, NEW e \in Email, Blames(e)
  PROVE  Excused(e)' /\ IsStored(e)'
<1>1. spent'[e] = spent[e] + 1 /\ spent[e] \in Nat
  BY ChargeType DEF Types
<1>. QED BY <1>1 DEF Excused, IsStored

LEMMA ManagerDutyByManager ==
  ASSUME Base, Onward, Duty, NEW e, e = Subject("manager"),
         Plan \/ PollInbound \/ Delegate \/ PollLeads \/ Handover \/ Deadline
  PROVE  e \in Email /\ Manages(e) /\ UNCHANGED cur /\ ManagerDuty(e)'
<1>0. Types /\ LoopOK /\ UNCHANGED routing
  BY DEF Base, Types, Onward
<1>1. ASSUME NEW l, Goes("manager", l) PROVE pc'["manager"] = l /\ UNCHANGED cur
  BY <1>0, <1>1, Services DEF Goes, LoopOK
<1>2. CASE Plan
  <2> DEFINE t == <<e, runs[e] + 1>>
  <2>1. /\ pc["manager"] = "plan"
        /\ \/ /\ routing = "leads" /\ Opened(t)
              /\ Goes("manager", "awaitLeads") \/ (Blames(e) /\ Goes("manager", "report"))
           \/ /\ routing # "leads"
              /\ Goes("manager", "awaitInbound") \/ (Blames(e) /\ Goes("manager", "report"))
           \/ Blames(e) /\ Goes("manager", "report")
    BY <1>0, <1>2, PlanMoves
  <2>2. e \in Email /\ Manages(e) /\ runs[e] + 1 \in Run \ {0} /\ t \in Job
    BY <2>1, PlanTask, Jobs
  <2>3. Opened(t) => Delegated(e)'
    <3>1. Opened(t) => entry'[t] = "new"
      BY <1>0, <2>2 DEF Opened, Types, QueueOK
    <3>. QED BY <2>2, <3>1 DEF Delegated
  <2>4. Blames(e) => Excused(e)'
    BY <1>0, <2>2, BlameExcuses
  <2>5. UNCHANGED cur /\ ManagerDuty(e)'
    BY <1>0, <1>1, <2>1, <2>3, <2>4 DEF ManagerDuty
  <2>. QED BY <2>2, <2>5
<1>3. ASSUME pc["manager"] \in {"awaitInbound", "awaitLeads", "delegate", "handover"}
      PROVE  /\ e \in Email /\ Manages(e) /\ Waited \in Task /\ Waited = <<e, runs[e]>> /\ Waited[1] = e
             /\ runs[e] \in Run \ {0} /\ ManagerDuty(e)
             /\ Excused(e) => Excused(e)'
             /\ Delegated(e) => Delegated(e)'
  <2>1. e \in Email /\ Manages(e) /\ Waited \in Task /\ Waited = <<e, runs[e]>> /\ runs[e] \in Run \ {0}
    BY <1>3, WaitedTask DEF Idle
  <2>. QED BY <1>0, <2>1, Lasting DEF Duty
<1>4. CASE PollInbound
  <2>1. PICK has \in BOOLEAN : /\ pc["manager"] = "awaitInbound" /\ Found("inbound", Waited, has)
                               /\ Goes("manager", IF has THEN "delegate" ELSE "report")
    BY <1>4 DEF PollInbound, Goes, Goto
  <2>2. CASE has
    <3>1. pc'["manager"] = "delegate" /\ UNCHANGED cur
      BY <1>1, <2>1, <2>2
    <3>2. Excused(e)' \/ routing' # "leads"
      BY <1>0, <1>3, <2>1 DEF ManagerDuty
    <3>. QED BY <1>3, <2>1, <3>1, <3>2 DEF ManagerDuty
  <2>3. CASE ~has
    <3>1. pc'["manager"] = "report" /\ UNCHANGED cur
      BY <1>1, <2>1, <2>3
    <3>2. Found("inbound", Waited, FALSE)
      BY <2>1, <2>3
    <3>3. Excused(e)
      BY <1>0, <1>3, <2>1, <3>2, FoundRefusal DEF Duty
    <3>. QED BY <1>3, <2>1, <3>1, <3>3 DEF ManagerDuty
  <2>. QED BY <2>2, <2>3
<1>5. CASE PollLeads
  <2>1. pc["manager"] = "awaitLeads" /\ Goes("manager", "handover")
    BY <1>5 DEF PollLeads, Goes, Goto
  <2>2. pc'["manager"] = "handover" /\ UNCHANGED cur
    BY <1>1, <2>1
  <2>3. Excused(e)' \/ Delegated(e)'
    BY <1>3, <2>1 DEF ManagerDuty
  <2>. QED BY <1>3, <2>1, <2>2, <2>3 DEF ManagerDuty
<1>6. CASE Deadline
  <2>1. /\ pc["manager"] \in {"awaitInbound", "awaitLeads"} /\ Goes("manager", "report")
        /\ gaveUp' = gaveUp \cup {Waited}
    BY <1>6 DEF Deadline, Goes, Goto
  <2>2. pc'["manager"] = "report" /\ UNCHANGED cur
    BY <1>1, <2>1
  <2>3. Excused(e)'
    BY <1>3, <2>1 DEF Excused
  <2>. QED BY <1>3, <2>1, <2>2, <2>3 DEF ManagerDuty
<1>7. CASE Delegate
  <2>1. pc["manager"] = "delegate" /\ Goes("manager", "report") /\ (Opened(Waited) \/ Blames(e))
    BY <1>0, <1>7, DelegateMoves
  <2>2. pc'["manager"] = "report" /\ UNCHANGED cur
    BY <1>1, <2>1
  <2>3. Excused(e)' \/ routing' # "leads"
    BY <1>0, <1>3, <2>1 DEF ManagerDuty
  <2>4. Opened(Waited) => Delegated(e)'
    <3>1. Opened(Waited) => entry'[Waited] = "new"
      BY <1>0, <1>3, <2>1, Jobs DEF Opened, Types, QueueOK
    <3>. QED BY <1>3, <2>1, <3>1 DEF Delegated
  <2>5. Blames(e) => Excused(e)'
    BY <1>0, <1>3, <2>1, BlameExcuses
  <2>. QED BY <1>3, <2>1, <2>2, <2>3, <2>4, <2>5 DEF ManagerDuty, HandedOver
<1>8. CASE Handover
  <2>1. /\ pc["manager"] = "handover" /\ Goes("manager", "report")
        /\ outbound' = Increase(outbound, e) \/ Blames(e)
    BY <1>0, <1>8, HandoverMoves
  <2>2. pc'["manager"] = "report" /\ UNCHANGED cur
    BY <1>1, <2>1
  <2>3. Excused(e)' \/ Delegated(e)'
    BY <1>3, <2>1 DEF ManagerDuty
  <2>4. outbound' = Increase(outbound, e) => outbound'[e] > 0
    <3>1. e \in Email /\ outbound \in [Email -> Nat]
      BY <1>0, <1>3, <2>1 DEF Types, WorkOK
    <3>2. outbound' = Increase(outbound, e) => outbound[e] \in Nat /\ outbound'[e] = outbound[e] + 1
      BY <3>1, IncreasedType
    <3>. QED BY <3>2
  <2>5. Blames(e) => Excused(e)'
    BY <1>0, <1>3, <2>1, BlameExcuses
  <2>. QED BY <1>3, <2>1, <2>2, <2>3, <2>4, <2>5 DEF ManagerDuty, HandedOver
<1>. QED BY <1>2, <1>4, <1>5, <1>6, <1>7, <1>8

LEMMA ManagerDutyKept ==
  ASSUME Base, Types', [Next]_vars, Onward, Duty, NEW e \in Email
  PROVE  ManagerDuty(e)'
<1>0. Types /\ LoopOK /\ LoopOK' /\ UNCHANGED routing /\ ManagerDuty(e)
  BY DEF Base, Types, Onward, Duty
<1>1. /\ Excused(e) => Excused(e)'
      /\ Delegated(e) => Delegated(e)'
      /\ HandedOver(e) => HandedOver(e)'
  BY <1>0, Lasting
<1>2. ASSUME pc'["manager"] = pc["manager"], cur'["manager"] = cur["manager"] PROVE ManagerDuty(e)'
  BY <1>0, <1>1, <1>2 DEF ManagerDuty, Manages
<1>3. CASE UNCHANGED vars \/ External
  <2>1. pc' = pc /\ cur' = cur
    <3>1. CASE UNCHANGED vars
      BY <3>1 DEF vars, loop
    <3>2. CASE External
      BY <1>0, <3>2, ExternalKinds DEF KindOfExternal, Stands, Enters
    <3>. QED BY <1>3, <3>1, <3>2
  <2>. QED BY <1>2, <2>1
<1>4. CASE Ask \/ FindTail \/ Hear \/ BlockForever \/ GiveUp \/ Store \/ Promote
  <2>1. KindOfLeads
    BY <1>0, <1>4, LeadsKinds
  <2>2. pc'["manager"] = pc["manager"] /\ cur'["manager"] = cur["manager"]
    BY <1>0, <2>1, Services DEF KindOfLeads, Stands, Advances, Goes, LoopOK
  <2>. QED BY <1>2, <2>2
<1>5. CASE Plan \/ PollInbound \/ Delegate \/ PollLeads \/ Handover \/ Deadline
  <2>0. PICK x : x = Subject("manager")
    OBVIOUS
  <2>1. x \in Email /\ Manages(x) /\ UNCHANGED cur /\ ManagerDuty(x)'
    BY <1>5, <2>0, ManagerDutyByManager
  <2>2. e # x => ~Manages(e)'
    BY <2>1 DEF Manages
  <2>. QED BY <2>1, <2>2 DEF ManagerDuty
<1>6. ASSUME NEW c \in Service,
             Read(c) \/ Reread(c) \/ Take(c) \/ Report(c) \/ Ack(c) \/ Crash(c) \/ Restart(c)
      PROVE  ManagerDuty(e)'
  <2>1. KindOfLoop(c)
    BY <1>0, <1>6, LoopKinds
  <2>2. CASE c # "manager"
    <3>1. pc'["manager"] = pc["manager"] /\ cur'["manager"] = cur["manager"]
      BY <1>0, <2>1, <2>2, Services
         DEF KindOfLoop, Delivers, Takes, Idles, Finishes, Crashes, Advances, Goes, Lets, LoopOK
    <3>. QED BY <1>2, <3>1
  <2>3. CASE c = "manager" /\ Advances(c, "ack")
    <3>1. pc["manager"] = "report" /\ pc'["manager"] = "ack" /\ cur' = cur
      BY <1>0, <2>3 DEF Advances, Goes, LoopOK
    <3>. QED BY <1>0, <1>1, <3>1 DEF ManagerDuty, Manages
  <2>4. CASE c = "manager" /\ ~Advances(c, "ack")
    <3>1. pc'["manager"] \in Idle \cup {"plan"}
      BY <1>0, <2>1, <2>4
         DEF KindOfLoop, Delivers, Takes, Idles, Finishes, Crashes, Goes, Lets, LoopOK, Idle
    <3>2. pc'["manager"] \in Idle => ~Manages(e)'
      <4>1. pc'["manager"] \in Idle => cur'["manager"] = NoJob
        BY <1>0, <2>4 DEF LoopOK, Fit, Idle
      <4>. QED BY <4>1, Jobs DEF Manages
    <3>. QED BY <3>1, <3>2 DEF ManagerDuty
  <2>. QED BY <2>2, <2>3, <2>4
<1>. QED BY <1>3, <1>4, <1>5, <1>6 DEF Next, Step

LEMMA LeadsDutyKept ==
  ASSUME Base, Types', Grows, [Next]_vars, Onward, Asked, Duty, NEW e \in Email
  PROVE  LeadsDuty(e)'
<1>0. Types /\ LoopOK /\ LoopOK' /\ LeadsDuty(e)
  BY DEF Base, Types, Onward, Duty
<1>1. IsStored(e) => IsStored(e)'
  BY <1>0, Lasting
<1>2. ASSUME pc'["leads"] \in AfterStore => pc["leads"] \in AfterStore, cur'["leads"] = cur["leads"] PROVE LeadsDuty(e)'
  BY <1>0, <1>1, <1>2 DEF LeadsDuty
<1>3. ASSUME pc'["leads"] \notin AfterStore PROVE LeadsDuty(e)'
  BY <1>3 DEF LeadsDuty
<1>4. CASE UNCHANGED vars \/ External
  <2>1. pc' = pc /\ cur' = cur
    <3>1. CASE UNCHANGED vars
      BY <3>1 DEF vars, loop
    <3>2. CASE External
      BY <1>0, <3>2, ExternalKinds DEF KindOfExternal, Stands, Enters
    <3>. QED BY <1>4, <3>1, <3>2
  <2>. QED BY <1>2, <2>1
<1>5. CASE Plan \/ PollInbound \/ Delegate \/ PollLeads \/ Handover \/ Deadline
  <2>1. KindOfManager
    BY <1>0, <1>5, ManagerKinds
  <2>2. pc'["leads"] = pc["leads"] /\ cur'["leads"] = cur["leads"]
    BY <1>0, <2>1, Services DEF KindOfManager, Plans, Delegates, Advances, Goes, LoopOK
  <2>. QED BY <1>2, <2>2
<1>6. CASE Ask \/ FindTail \/ Hear \/ BlockForever \/ GiveUp
  <2>1. pc'["leads"] \in {"tail", "wait", "stuck", "store"}
    <3>1. CASE Ask
      BY <1>0, <3>1, AskMoves, Services DEF Goes, LoopOK
    <3>2. CASE FindTail
      BY <1>0, <3>2, FindTailMoves, Services DEF Goes, LoopOK
    <3>3. CASE Hear
      BY <1>0, <3>3, Services DEF Hear, Reading, Goto, LoopOK
    <3>4. CASE BlockForever \/ GiveUp
      BY <1>0, <3>4, Services DEF BlockForever, GiveUp, Goto, LoopOK
    <3>. QED BY <1>6, <3>1, <3>2, <3>3, <3>4
  <2>. QED BY <1>3, <2>1 DEF AfterStore
<1>7. CASE Promote
  <2>1. pc["leads"] = "promote" /\ UNCHANGED cur
    BY <1>0, <1>7, PromoteMoves DEF Goes
  <2>. QED BY <1>2, <2>1 DEF AfterStore
<1>8. CASE Store
  <2>0. PICK x : x = Subject("leads")
    OBVIOUS
  <2>1. /\ UNCHANGED <<cur, context, unheard, late, misled>>
        /\ \/ stored' = Increase(stored, x)
           \/ Blames(x)
           \/ ~Unpacks(x)
    BY <1>0, <1>8, <2>0, StoreMoves DEF Goes, waiting
  <2>2. x \in Email /\ (context = Source[x] \/ x \in Untold' \/ spent'[x] > 0)
    BY <1>0, <1>8, <2>0, StoreReasons
  <2>3. IsStored(x)'
    <3>1. CASE stored' = Increase(stored, x)
      <4>1. stored'[x] = stored[x] + 1 /\ stored[x] \in Nat
        BY <1>0, <2>2, <3>1, IncreasedType DEF Types, WorkOK
      <4>. QED BY <4>1 DEF IsStored
    <3>2. CASE Blames(x)
      BY <1>0, <2>2, <3>2, BlameExcuses
    <3>3. CASE ~Unpacks(x)
      <4>1. Score[x] = "fast" /\ (context = Source[x] => Source[x] = "new")
        BY <3>3 DEF Unpacks
      <4>. QED BY <2>2, <4>1 DEF IsStored, FastTracked
    <3>. QED BY <2>1, <3>1, <3>2, <3>3
  <2>4. e # x => \A n \in Run : cur'["leads"] # <<e, n>>
    BY <2>0, <2>1 DEF Subject
  <2>. QED BY <2>3, <2>4 DEF LeadsDuty
<1>9. ASSUME NEW c \in Service,
             Read(c) \/ Reread(c) \/ Take(c) \/ Report(c) \/ Ack(c) \/ Crash(c) \/ Restart(c)
      PROVE  LeadsDuty(e)'
  <2>1. KindOfLoop(c)
    BY <1>0, <1>9, LoopKinds
  <2>2. CASE c # "leads"
    <3>1. pc'["leads"] = pc["leads"] /\ cur'["leads"] = cur["leads"]
      BY <1>0, <2>1, <2>2, Services
         DEF KindOfLoop, Delivers, Takes, Idles, Finishes, Crashes, Advances, Goes, Lets, LoopOK
    <3>. QED BY <1>2, <3>1
  <2>3. CASE c = "leads" /\ Advances(c, "ack")
    <3>1. pc["leads"] = "report" /\ cur' = cur
      BY <1>0, <2>3 DEF Advances, Goes
    <3>. QED BY <1>2, <3>1 DEF AfterStore
  <2>4. CASE c = "leads" /\ ~Advances(c, "ack")
    <3>1. pc'["leads"] \in Idle \cup {"ask"}
      BY <1>0, <2>1, <2>4
         DEF KindOfLoop, Delivers, Takes, Idles, Finishes, Crashes, Goes, Lets, LoopOK, Idle
    <3>. QED BY <1>3, <3>1 DEF AfterStore, Idle
  <2>. QED BY <2>2, <2>3, <2>4
<1>. QED BY <1>4, <1>5, <1>6, <1>7, <1>8, <1>9 DEF Next, Step

LEMMA HandledKept ==
  ASSUME Base, Onward, Duty, AckedIsHandled
  PROVE  AckedIsHandled'
<1>0. Types /\ LoopOK /\ UNCHANGED routing
  BY DEF Base, Types, Onward
<1>. SUFFICES ASSUME NEW e \in Email
              PROVE  /\ entry'[<<e, 0>>] = "done" => HandedOver(e)' \/ Excused(e)'
                     /\ (\E n \in Run \ {0} : entry'[<<e, n>>] = "done") => IsStored(e)'
  BY DEF AckedIsHandled, HandedOver, Delegated, Excused, IsStored, FastTracked
<1>1. /\ Excused(e) => Excused(e)'
      /\ HandedOver(e) => HandedOver(e)'
      /\ IsStored(e) => IsStored(e)'
  BY <1>0, Lasting
<1>2. ASSUME entry'[<<e, 0>>] = "done" PROVE HandedOver(e)' \/ Excused(e)'
  <2>1. CASE entry[<<e, 0>>] = "done"
    BY <1>1, <2>1 DEF AckedIsHandled, HandedOver, Delegated, Excused
  <2>2. ASSUME NEW c \in Service, cur[c] = <<e, 0>>, pc[c] \in {"report", "ack"} PROVE HandedOver(e)' \/ Excused(e)'
    <3>1. c = "manager"
      BY <1>0, <2>2, InHand, Jobs, Places, Services DEF Owner
    <3>2. ManagerDuty(e) /\ Manages(e)
      BY <2>2, <3>1 DEF Duty, Manages
    <3>. QED BY <1>1, <2>2, <3>1, <3>2 DEF ManagerDuty
  <2>. QED BY <1>2, <2>1, <2>2, Jobs DEF Onward
<1>3. ASSUME NEW n \in Run \ {0}, entry'[<<e, n>>] = "done" PROVE IsStored(e)'
  <2>1. CASE entry[<<e, n>>] = "done"
    BY <1>1, <2>1 DEF AckedIsHandled, IsStored
  <2>2. ASSUME NEW c \in Service, cur[c] = <<e, n>>, pc[c] \in {"report", "ack"} PROVE IsStored(e)'
    <3>1. c = "leads"
      BY <1>0, <2>2, InHand, Jobs, Places, Services DEF Owner
    <3>2. IsStored(e)
      BY <2>2, <3>1 DEF Duty, LeadsDuty, AfterStore
    <3>. QED BY <1>1, <3>2
  <2>. QED BY <1>3, <2>1, <2>2, Jobs DEF Onward
<1>. QED BY <1>2, <1>3

(* What the Manager acknowledges was delegated to Leads and, where Leads   *)
(* is its next stop, handed to Outreach; what Leads acknowledges is        *)
(* stored: unless Inbound dropped the email, the Manager stopped waiting,  *)
(* a mishap hit it, or Leads fast-tracked the sender.                      *)
THEOREM WhatIsAckedIsHandled == Spec => []AckedIsHandled
<1> DEFINE Inv == Base /\ Asked /\ Duty /\ AckedIsHandled
<1>1. Init => Inv
  <2>. SUFFICES ASSUME Init PROVE Inv
    OBVIOUS
  <2>1. Base /\ Asked
    BY BaseHolds, AskedHolds
  <2>2. Refused
    <3>1. results["inbound"] = <<>>
      BY DEF Init
    <3>2. DOMAIN results["inbound"] = {}
      BY <3>1
    <3>. QED BY <3>2 DEF Refused
  <2>3. \A j \in Job : entry[j] = "absent"
    BY DEF Init
  <2>4. cur["manager"] = NoJob /\ cur["leads"] = NoJob
    BY Services DEF Init
  <2>5. \A e \in Email : ManagerDuty(e) /\ LeadsDuty(e)
    BY <2>4, Jobs DEF ManagerDuty, Manages, LeadsDuty
  <2>6. AckedIsHandled
    <3>1. \A e \in Email : entry[<<e, 0>>] # "done" /\ \A n \in Run \ {0} : entry[<<e, n>>] # "done"
      BY <2>3, Jobs
    <3>. QED BY <3>1 DEF AckedIsHandled
  <2>. QED BY <2>1, <2>2, <2>5, <2>6 DEF Duty
<1>2. Inv /\ [Next]_vars => Inv'
  <2>. SUFFICES ASSUME Base, Asked, Duty, AckedIsHandled, [Next]_vars
                PROVE  Base' /\ Asked' /\ Duty' /\ AckedIsHandled'
    OBVIOUS
  <2>1. Base' /\ Asked' /\ Types' /\ Grows
    BY BaseKept, AskedKept, TypesKept
  <2>2. Onward
    BY AllOnward
  <2>3. Refused'
    BY <2>2, RefusedKept DEF Duty
  <2>4. \A e \in Email : ManagerDuty(e)' /\ LeadsDuty(e)'
    BY <2>1, <2>2, ManagerDutyKept, LeadsDutyKept
  <2>5. AckedIsHandled'
    BY <2>2, HandledKept
  <2>. QED BY <2>1, <2>3, <2>4, <2>5 DEF Duty
<1>3. Inv => AckedIsHandled
  OBVIOUS
<1>. QED BY <1>1, <1>2, <1>3, PTL DEF Spec
=============================================================================
