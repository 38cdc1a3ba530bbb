--------------------------- MODULE ReplyPipeline ---------------------------
(***************************************************************************)
(* From an inbound email to the outreach task that answers it: the Manager *)
(* (tiers/tier_1/manager) plans, delegates and chains; the Leads           *)
(* orchestrator (tiers/tier_2/leads_orchestrator) waits for the RAG        *)
(* agent's context, stores the email and builds the reply packet.          *)
(*                                                                         *)
(* Both look for answers by task id in result streams they share with      *)
(* others: the Manager polls the newest Window entries, Leads reads on     *)
(* from the tail it saw before it began to wait, and takes any answer: also *)
(* one that says RAG found no lead, or failed.  Both consumers run the same *)
(* loop: new entries first, their own pending ones when there is none.     *)
(***************************************************************************)
EXTENDS Naturals, Sequences, FiniteSets

CONSTANTS
  Email,          \* the emails that the ingress publishes as Manager tasks
  Source,         \* [Email -> Place]: the table that has the sender
  Score,          \* [Email -> Grade]: how the sender would be qualified
  Routing,        \* the orchestrators that a routing map names for "inbound"
  Window,         \* count=50 of the Manager's XREVRANGE
  MaxDeliveries,  \* DLQ_MAX_RETRIES
  MaxMishaps,     \* bound: calls that raise, Inbound errors, crashes
  Allowed,        \* bound: <<mishaps, results of others, emails, routings>> together
  NoJob

Place == {"new", "leads", "staging"}
Grade == {"low", "promote", "fast"}
Run == 0 .. MaxMishaps + 1
Job == Email \X Run             \* <<e, 0>> is the Manager's task for e,
Task == Email \X (Run \ {0})    \* <<e, n>> what its n-th execution delegates
Service == {"manager", "leads"}

ASSUME PipelineAssumption ==
  /\ Source \in [Email -> Place] /\ Score \in [Email -> Grade]
  /\ Routing \subseteq {"inbound", "leads"}
  /\ Window \in Nat \ {0} /\ MaxDeliveries \in Nat \ {0, 1}
  /\ MaxMishaps \in Nat
  /\ Allowed \subseteq (0 .. MaxMishaps) \X Nat \X (SUBSET Email) \X (SUBSET Routing)
  /\ NoJob \notin Job

VARIABLES
  routing,    \* the orchestrator named for "inbound": routing.yaml or the default
  entry,      \* [Job -> State]: entries of the Manager's and of Leads' task stream
  tries,      \* [Job -> Nat]: how often each was delivered
  triage,     \* SUBSET Task: tasks enqueued for Inbound, unless it answered them in time
  results,    \* [{"inbound", "leads"} -> Seq(Answer)]: result streams
  queries,    \* Nat: tasks enqueued for RAG, numbered from 1
  answers,    \* Seq(RagAnswer): RAG's result stream
  outbound,   \* [Email -> Nat]: outreach tasks with a reply packet
  stored,     \* [Email -> Nat]: compounds enqueued for persistence
  promoted,   \* [Email -> Nat]: promotions enqueued for persistence
  pc, todo, cur,  \* by Service: location, rest of the batch, job in hand
  runs,       \* [Email -> Nat]: executions that the Manager began
  packing,    \* whether Leads is in its deep reply flow
  context,    \* Place: the table that the email belongs to, as far as it knows
  dollar,     \* whether its last_id is "$", the end of the stream at each XREAD
  from,       \* its last_id otherwise, as an index of answers
  spent,      \* [Email -> Nat]: mishaps while the email was in hand
  gaveUp,     \* SUBSET Task: tasks the Manager stopped waiting for
  unheard,    \* SUBSET Email: RAG answered for them while no read could see it
  late,       \* SUBSET Email: the answer for them was still to be read at the deadline
  misled,     \* SUBSET Email: RAG's answer for them did not name the sender's table
  dropped,    \* SUBSET Email: emails that Inbound dropped
  strays,     \* SUBSET Email: emails stored elsewhere than in the sender's table
  mishaps, foreign

queues == <<entry, tries, triage>>
streams == <<results, queries, answers>>
work == <<outbound, stored, promoted>>
loop == <<pc, todo, cur>>
waiting == <<packing, context, dollar, from>>
history == <<gaveUp, unheard, late, misled, dropped, strays>>
charged == <<spent, mishaps>>
vars == <<routing, queues, streams, work, loop, runs, waiting, history, charged, foreign>>

State == {"absent", "new", "pending", "done", "dead"}
Answer == [task : Task \cup {NoJob}, has : BOOLEAN]

(* A result of RAG with the number of its query, 0 for those of others,    *)
(* and the table that has the lead it found: "new" if it names no lead.    *)
RagAnswer == [query : Nat, place : Place]
Location == {"read", "take", "report", "ack", "down",
             "plan", "awaitInbound", "delegate", "awaitLeads", "handover",
             "ask", "tail", "wait", "stuck", "store", "promote"}

Init ==
  /\ routing \in Routing
  /\ entry = [j \in Job |-> "absent"] /\ tries = [j \in Job |-> 0] /\ triage = {}
  /\ results = [s \in {"inbound", "leads"} |-> <<>>] /\ queries = 0 /\ answers = <<>>
  /\ outbound = [e \in Email |-> 0] /\ stored = [e \in Email |-> 0]
  /\ promoted = [e \in Email |-> 0]
  /\ pc = [c \in Service |-> "read"] /\ todo = [c \in Service |-> {}]
  /\ cur = [c \in Service |-> NoJob]
  /\ runs = [e \in Email |-> 0]
  /\ packing = FALSE /\ context = "new" /\ dollar = FALSE /\ from = 0
  /\ gaveUp = {} /\ unheard = {} /\ late = {} /\ misled = {} /\ dropped = {} /\ strays = {}
  /\ spent = [e \in Email |-> 0] /\ mishaps = 0 /\ foreign = 0

-----------------------------------------------------------------------------
(* A call succeeds, raises without effect ("lost") or raises after it took *)
(* effect ("torn"); a mishap is charged to the email in hand.              *)
Call == {"ok", "lost", "torn"}
Applied(call) == call # "lost"

Entered == {e \in Email : entry[<<e, 0>>] # "absent"}
MayCome(m, f, emails) ==
  \E limit \in Allowed :
    m <= limit[1] /\ f <= limit[2] /\ emails \subseteq limit[3] /\ routing \in limit[4]

Mishap == MayCome(mishaps + 1, foreign, Entered) /\ mishaps' = mishaps + 1
Blame(e) == Mishap /\ spent' = [spent EXCEPT ![e] = @ + 1]
Charge(call, e) == IF call = "ok" THEN UNCHANGED charged ELSE Blame(e)

Goto(c, location) == pc' = [pc EXCEPT ![c] = location]
Subject(c) == cur[c][1]
Owner(j) == IF j[2] = 0 THEN "manager" ELSE "leads"
Mine(c, state) == {j \in Job : Owner(j) = c /\ entry[j] = state}
Waited == <<Subject("manager"), runs[Subject("manager")]>>
Increase(count, e) == [count EXCEPT ![e] = @ + 1]
AppendTo(s, task, has) == [results EXCEPT ![s] = Append(@, [task |-> task, has |-> has])]

-----------------------------------------------------------------------------
(* External: the ingress publishes an email.                               *)
Submit(e) ==
  /\ entry[<<e, 0>>] = "absent" /\ MayCome(mishaps, foreign, Entered \cup {e})
  /\ entry' = [entry EXCEPT ![<<e, 0>>] = "new"]
  /\ UNCHANGED <<routing, tries, triage, streams, work, loop, runs, waiting, history, charged, foreign>>

(* External: the Inbound orchestrator recommends to delegate an email to   *)
(* Leads, or drops it, or its consumer publishes an error.  An answer that *)
(* nobody waits for any more is like a result of others.                   *)
InboundAnswers(t) ==
  /\ t \in triage /\ pc["manager"] = "awaitInbound" /\ t = Waited
  /\ triage' = triage \ {t}
  /\ \E answer \in {"delegate", "drop", "error"} :
       /\ Charge(IF answer = "error" THEN "lost" ELSE "ok", t[1])
       /\ results' = AppendTo("inbound", t, answer = "delegate")
       /\ dropped' = IF answer = "drop" THEN dropped \cup {t[1]} ELSE dropped
  /\ UNCHANGED <<routing, entry, tries, queries, answers, work, loop, runs, waiting, gaveUp,
                 unheard, late, misled, strays, foreign>>

(* External: an entry is added to RAG's result stream.  While last_id is   *)
(* "$" an entry that comes between two reads is not seen by the next.      *)
Reading == pc["leads"] \in {"wait", "stuck"}
Added(x) ==
  /\ answers' = Append(answers, x)
  /\ \/ UNCHANGED from
     \/ pc["leads"] = "wait" /\ dollar /\ from = Len(answers) /\ from' = from + 1

(* The RAG agent answers the query that Leads waits for, perhaps without   *)
(* the lead: a lookup that raises counts as one that found nothing, the    *)
(* agent's errors are results too, and its consumer publishes an error for *)
(* what it dead-letters.  A lead may also be among the staged ones, which  *)
(* are looked up second ...                                                *)
PlacesOf(e) == {"new", Source[e]} \cup IF Source[e] = "leads" THEN {"staging"} ELSE {}
RagAnswers ==
  /\ pc["leads"] = "tail" \/ Reading
  /\ \A i \in DOMAIN answers : answers[i].query # queries
  /\ LET e == Subject("leads") IN
     /\ \E place \in PlacesOf(e) :
          /\ Added([query |-> queries, place |-> place])
          /\ misled' = IF place # Source[e] THEN misled \cup {e} ELSE misled
     /\ unheard' = IF pc["leads"] = "tail" \/ from' # from THEN unheard \cup {e} ELSE unheard
  /\ UNCHANGED <<routing, queues, results, queries, work, loop, runs, packing, context, dollar,
                 gaveUp, late, dropped, strays, charged, foreign>>

(* ... and there are results of somebody else's tasks.                     *)
Foreign(s) ==
  /\ MayCome(mishaps, foreign + 1, Entered)
  /\ foreign' = foreign + 1
  /\ IF s = "rag" THEN Added([query |-> 0, place |-> "new"]) /\ UNCHANGED results
                  ELSE results' = AppendTo(s, NoJob, FALSE) /\ UNCHANGED <<answers, from>>
  /\ UNCHANGED <<routing, queues, queries, work, loop, runs, packing, context, dollar, history, charged>>

-----------------------------------------------------------------------------
(* run of both consumers: XREADGROUP ">", and "0" when there is nothing    *)
(* new.  A torn read is as if the process crashed after it.                *)
Deliver(c, batch) ==
  /\ todo' = [todo EXCEPT ![c] = batch]
  /\ entry' = [j \in Job |-> IF j \in batch THEN "pending" ELSE entry[j]]
  /\ tries' = [j \in Job |-> IF j \in batch THEN tries[j] + 1 ELSE tries[j]]
  /\ Goto(c, "take")
  /\ UNCHANGED <<routing, triage, streams, work, cur, runs, waiting, history, charged, foreign>>

Read(c) == pc[c] = "read" /\ Mine(c, "new") # {} /\ Deliver(c, Mine(c, "new"))

(* The Manager reads ten of its pending entries again, Leads one.          *)
Reread(c) ==
  /\ pc[c] = "read" /\ Mine(c, "new") = {}
  /\ \E batch \in SUBSET Mine(c, "pending") :
       /\ batch # {}
       /\ IF c = "manager" THEN batch = Mine(c, "pending") ELSE Cardinality(batch) = 1
       /\ Deliver(c, batch)

Take(c) ==
  /\ pc[c] = "take"
  /\ \/ /\ todo[c] = {}
        /\ Goto(c, "read")
        /\ UNCHANGED <<todo, cur>>
     \/ \E j \in todo[c] :
          /\ todo' = [todo EXCEPT ![c] = @ \ {j}]
          /\ cur' = [cur EXCEPT ![c] = j]
          /\ Goto(c, IF c = "manager" THEN "plan" ELSE "ask")
  /\ UNCHANGED <<routing, queues, streams, work, runs, waiting, history, charged, foreign>>

-----------------------------------------------------------------------------
(* ManagerAgent.execute: an email is classified as "inbound" and delegated *)
(* to what the routing map names.  An XADD that raises is logged, and the  *)
(* task is not waited for.                                                 *)
Plan ==
  /\ pc["manager"] = "plan"
  /\ \E call \in Call :
       LET e == Subject("manager")
           t == <<e, runs[e] + 1>> IN
       /\ Charge(call, e)
       /\ runs' = Increase(runs, e)
       /\ IF Applied(call)
          THEN IF routing = "leads"
               THEN entry' = [entry EXCEPT ![t] = "new"] /\ UNCHANGED triage
               ELSE triage' = triage \cup {t} /\ UNCHANGED entry
          ELSE UNCHANGED <<entry, triage>>
       /\ Goto("manager", IF call # "ok" THEN "report"
                          ELSE IF routing = "leads" THEN "awaitLeads" ELSE "awaitInbound")
  /\ UNCHANGED <<routing, tries, streams, work, todo, cur, waiting, history, foreign>>

(* The newest answer for a task among the newest Window entries.           *)
Recent(s) == {i \in DOMAIN results[s] : i > Len(results[s]) - Window}
FoundOfAnybody(s, t, has) == \E i \in Recent(s) : results[s][i].has = has
Found(s, t, has) ==
  \E i \in Recent(s) :
    /\ results[s][i] = [task |-> t, has |-> has]
    /\ \A k \in Recent(s) : k > i => results[s][k].task # t

(* _chain_inbound_to_next: it waits for Inbound's recommendation ...       *)
PollInbound ==
  /\ pc["manager"] = "awaitInbound"
  /\ \E has \in BOOLEAN :
       /\ Found("inbound", Waited, has)
       /\ Goto("manager", IF has THEN "delegate" ELSE "report")
  /\ UNCHANGED <<routing, queues, streams, work, todo, cur, runs, waiting, history, charged, foreign>>

(* ... and delegates to Leads; nothing waits for that task.                *)
Delegate ==
  /\ pc["manager"] = "delegate"
  /\ \E call \in Call :
       /\ Charge(call, Subject("manager"))
       /\ entry' = IF Applied(call) THEN [entry EXCEPT ![Waited] = "new"] ELSE entry
  /\ Goto("manager", "report")
  /\ UNCHANGED <<routing, tries, triage, streams, work, todo, cur, runs, waiting, history, foreign>>

(* _chain_leads_to_outbound: a result without a reply packet is polled on. *)
PollLeads ==
  /\ pc["manager"] = "awaitLeads"
  /\ Found("leads", Waited, TRUE)
  /\ Goto("manager", "handover")
  /\ UNCHANGED <<routing, queues, streams, work, todo, cur, runs, waiting, history, charged, foreign>>

Handover ==
  /\ pc["manager"] = "handover"
  /\ \E call \in Call :
       /\ Charge(call, Subject("manager"))
       /\ outbound' = IF Applied(call) THEN Increase(outbound, Subject("manager")) ELSE outbound
  /\ Goto("manager", "report")
  /\ UNCHANGED <<routing, queues, streams, stored, promoted, todo, cur, runs, waiting, history, foreign>>

(* Either wait ends at its deadline.                                       *)
Deadline ==
  /\ pc["manager"] \in {"awaitInbound", "awaitLeads"}
  /\ gaveUp' = gaveUp \cup {Waited}
  /\ Goto("manager", "report")
  /\ UNCHANGED <<routing, queues, streams, work, todo, cur, runs, waiting, unheard, late, misled, dropped,
                 strays, charged, foreign>>

-----------------------------------------------------------------------------
(* _enqueue_rag_context_task; when it raises, the deep reply flow ends and *)
(* execute stores the email without a packet.                              *)
Ask ==
  /\ pc["leads"] = "ask"
  /\ context' = "new"
  /\ \E call \in Call :
       /\ Charge(call, Subject("leads"))
       /\ queries' = IF Applied(call) THEN queries + 1 ELSE queries
       /\ packing' = (call = "ok")
       /\ Goto("leads", IF call = "ok" THEN "tail" ELSE "store")
  /\ UNCHANGED <<routing, queues, results, answers, work, todo, cur, runs, dollar, from, history, foreign>>

(* _wait_for_agent_result begins where the stream ends.  XINFO raises if   *)
(* there is no stream yet, and "$" is the end at the time of each read.    *)
FindTail ==
  /\ pc["leads"] = "tail"
  /\ \E call \in {"ok", "lost"} :
       /\ Charge(call, Subject("leads"))
       /\ dollar' = (call # "ok" \/ answers = <<>>)
  /\ from' = Len(answers)
  /\ Goto("leads", "wait")
  /\ UNCHANGED <<routing, queues, streams, work, todo, cur, runs, packing, context, history, foreign>>

(* XREAD returns the entries after last_id, perhaps the answer: whatever   *)
(* has the task id is taken, and the lead it names, if any, decides where  *)
(* the email belongs.                                                      *)
Heard == {i \in from + 1 .. Len(answers) : answers[i].query = queries}
Learn ==
  \/ Heard = {} /\ context' = "new"
  \/ \E i \in Heard : context' = answers[i].place

HearOnce ==
  /\ Reading /\ Len(answers) > from
  /\ Learn
  /\ dollar' = FALSE /\ from' = 0 /\ Goto("leads", "store")
  /\ UNCHANGED <<routing, queues, streams, work, todo, cur, runs, packing, history, charged, foreign>>

Hear ==
  /\ Reading /\ Len(answers) > from
  /\ Learn /\ dollar' = FALSE
  /\ IF Heard # {} \/ pc["leads"] = "stuck"
     THEN Goto("leads", "store") /\ from' = 0
     ELSE UNCHANGED pc /\ from' = Len(answers)
  /\ late' = IF Heard = {} /\ pc["leads"] = "stuck" THEN late \cup {Subject("leads")} ELSE late
  /\ UNCHANGED <<routing, queues, streams, work, todo, cur, runs, packing, gaveUp, unheard, misled,
                 dropped, strays, charged, foreign>>

(* A read blocks for what remains of the time, 500 ms at most.  In the     *)
(* last millisecond 0 remains, and BLOCK 0 waits without end.              *)
BlockForever ==
  /\ pc["leads"] = "wait" /\ Len(answers) = from
  /\ Goto("leads", "stuck")
  /\ UNCHANGED <<routing, queues, streams, work, todo, cur, runs, waiting, history, charged, foreign>>

(* The deadline; the packet will have no context.                          *)
PassedOver == \E i \in 1 .. from : answers[i].query = queries
GiveUp ==
  /\ pc["leads"] = "wait"
  /\ late' = IF PassedOver THEN late ELSE late \cup {Subject("leads")}
  /\ Goto("leads", "store") /\ dollar' = FALSE /\ from' = 0
  /\ UNCHANGED <<routing, queues, streams, work, todo, cur, runs, packing, context, gaveUp, unheard,
                 misled, dropped, strays, charged, foreign>>

(* _build_inbound_email_steps: for an email that seems to be a new sender's *)
(* and has the highest grade it returns its steps without the promotion,   *)
(* which its callers cannot unpack.                                        *)
UnpacksNoPromotion(e) == Score[e] = "low"
Unpacks(e) == ~(context = "new" /\ Score[e] = "fast")
Promotes(e) == Score[e] # "low" /\ context # "leads"

(* _enqueue_persistence_compound swallows its exceptions, and the flow     *)
(* that of the steps.                                                      *)
Store ==
  /\ pc["leads"] = "store"
  /\ LET e == Subject("leads") IN
     IF Unpacks(e)
     THEN \E call \in Call :
            /\ Charge(call, e)
            /\ stored' = IF Applied(call) THEN Increase(stored, e) ELSE stored
            /\ strays' = IF Applied(call) /\ context # Source[e] THEN strays \cup {e} ELSE strays
            /\ Goto("leads", IF Promotes(e) THEN "promote" ELSE "report")
     ELSE Goto("leads", "report") /\ UNCHANGED <<stored, strays, charged>>
  /\ UNCHANGED <<routing, queues, streams, outbound, promoted, todo, cur, runs, waiting, gaveUp,
                 unheard, late, misled, dropped, foreign>>

Promote ==
  /\ pc["leads"] = "promote"
  /\ \E call \in Call :
       /\ Charge(call, Subject("leads"))
       /\ promoted' = IF Applied(call) THEN Increase(promoted, Subject("leads")) ELSE promoted
  /\ Goto("leads", "report")
  /\ UNCHANGED <<routing, queues, streams, outbound, stored, todo, cur, runs, waiting, history, foreign>>

-----------------------------------------------------------------------------
(* process_task of both consumers: XADD of the result and XACK.  Either    *)
(* exception goes to _handle_failure, which is modelled call by call in    *)
(* OrchestratorConsumer: an entry delivered too often is dead-lettered, an *)
(* error envelope published and the entry acknowledged.                    *)
Published(c, packet, error) ==
  LET reply == IF packet THEN Append(results["leads"], [task |-> cur[c], has |-> packing])
                         ELSE results["leads"] IN
  results' =
    IF c = "leads"
    THEN [results EXCEPT !["leads"] =
            IF error THEN Append(reply, [task |-> cur[c], has |-> FALSE]) ELSE reply]
    ELSE results

Spoilt(j) == entry[j] = "pending" /\ tries[j] >= MaxDeliveries

(* The local variables of Leads' execution are gone.                       *)
EndExecution(c) ==
  IF c = "leads" THEN packing' = FALSE /\ context' = "new" /\ dollar' = FALSE /\ from' = 0
                 ELSE UNCHANGED waiting

FailHolding(c) ==
  /\ entry' = IF Spoilt(cur[c]) THEN [entry EXCEPT ![cur[c]] = "dead"] ELSE entry
  /\ UNCHANGED cur
  /\ Goto(c, "take")

Fail(c) ==
  /\ entry' = IF Spoilt(cur[c]) THEN [entry EXCEPT ![cur[c]] = "dead"] ELSE entry
  /\ cur' = [cur EXCEPT ![c] = NoJob]
  /\ Goto(c, "take")

Report(c) ==
  /\ pc[c] = "report"
  /\ \E call \in Call :
       /\ Charge(call, Subject(c))
       /\ Published(c, Applied(call), call # "ok" /\ Spoilt(cur[c]))
       /\ IF call = "ok" THEN Goto(c, "ack") /\ UNCHANGED <<entry, cur>> ELSE Fail(c)
  /\ EndExecution(c)
  /\ UNCHANGED <<routing, tries, triage, queries, answers, work, todo, runs, history, foreign>>

AcknowledgeNothing(c) ==
  /\ UNCHANGED entry
  /\ cur' = [cur EXCEPT ![c] = NoJob]
  /\ Goto(c, "take")

Acknowledge(c) ==
  /\ entry' = [entry EXCEPT ![cur[c]] = "done"]
  /\ cur' = [cur EXCEPT ![c] = NoJob]
  /\ Goto(c, "take")

(* After a torn XACK nothing is pending, and the delivery count is 1.      *)
Ack(c) ==
  /\ pc[c] = "ack"
  /\ \E call \in Call :
       /\ Charge(call, Subject(c))
       /\ Published(c, FALSE, call = "lost" /\ Spoilt(cur[c]))
       /\ IF Applied(call) THEN Acknowledge(c) ELSE Fail(c)
  /\ UNCHANGED <<routing, tries, triage, queries, answers, work, todo, runs, waiting, history, foreign>>

(* A process dies with entries in hand; it comes back under its name, leads-worker-1 and        *)
(* manager-worker-1, as a container's process 1 (docker-compose.yml).      *)
Crash(c) ==
  /\ todo[c] # {} \/ cur[c] # NoJob
  /\ IF cur[c] = NoJob
     THEN Mishap /\ UNCHANGED spent
     ELSE Blame(Subject(c))
  /\ Goto(c, "down")
  /\ todo' = [todo EXCEPT ![c] = {}]
  /\ cur' = [cur EXCEPT ![c] = NoJob]
  /\ EndExecution(c)
  /\ UNCHANGED <<routing, queues, streams, work, runs, history, foreign>>

Restart(c) ==
  /\ pc[c] = "down"
  /\ Goto(c, "read")
  /\ UNCHANGED <<routing, queues, streams, work, todo, cur, runs, waiting, history, charged, foreign>>

-----------------------------------------------------------------------------
Step(c) ==
  \/ Read(c) \/ Reread(c) \/ Take(c) \/ Report(c) \/ Ack(c)
  \/ c = "manager" /\ (Plan \/ PollInbound \/ Delegate \/ PollLeads \/ Handover \/ Deadline)
  \/ c = "leads" /\ (Ask \/ FindTail \/ Hear \/ BlockForever \/ GiveUp \/ Store \/ Promote)

External ==
  \/ \E e \in Email : Submit(e)
  \/ \E t \in Task : InboundAnswers(t)
  \/ RagAnswers
  \/ \E s \in {"inbound", "leads", "rag"} : Foreign(s)

Next == External \/ \E c \in Service : Step(c) \/ Crash(c) \/ Restart(c)

(* The processes loop and are restarted, and the time of a wait passes.    *)
(* Nobody has to answer.                                                   *)
Fairness ==
  \A c \in Service : WF_vars(Step(c) \/ Restart(c))

Spec == Init /\ [][Next]_vars /\ Fairness

-----------------------------------------------------------------------------
(* Types; a service has a job in hand, and of its own, while it works.     *)
TypeOK ==
  /\ routing \in Routing
  /\ entry \in [Job -> State] /\ tries \in [Job -> Nat] /\ triage \subseteq Task
  /\ results \in [{"inbound", "leads"} -> Seq(Answer)]
  /\ queries \in Nat /\ answers \in Seq(RagAnswer)
  /\ outbound \in [Email -> Nat] /\ stored \in [Email -> Nat] /\ promoted \in [Email -> Nat]
  /\ pc \in [Service -> Location] /\ todo \in [Service -> SUBSET Job]
  /\ cur \in [Service -> Job \cup {NoJob}]
  /\ \A c \in Service :
       /\ cur[c] = NoJob <=> pc[c] \in {"read", "take", "down"}
       /\ \A j \in todo[c] \cup ({cur[c]} \ {NoJob}) : Owner(j) = c
  /\ runs \in [Email -> Nat]
  /\ packing \in BOOLEAN /\ context \in Place /\ dollar \in BOOLEAN /\ from \in Nat
  /\ gaveUp \subseteq Task
  /\ unheard \subseteq Email /\ late \subseteq Email /\ misled \subseteq Email
  /\ dropped \subseteq Email /\ strays \subseteq Email
  /\ spent \in [Email -> Nat] /\ mishaps \in 0 .. MaxMishaps /\ foreign \in Nat

(* An email is handed to Outreach, stored and promoted once, and once more *)
(* for each mishap while the Manager or Leads had it in hand.              *)
CopiesPaidFor ==
  \A e \in Email :
    /\ outbound[e] <= 1 + spent[e]
    /\ stored[e] <= 1 + spent[e]
    /\ promoted[e] <= 1 + spent[e]

(* What the Manager acknowledges was delegated to Leads and, if Leads is   *)
(* its next stop, its reply was handed to Outreach, unless Inbound dropped *)
(* it, the Manager stopped waiting, or a mishap hit it.  What Leads        *)
(* acknowledges is stored, unless a mishap hit it or Leads fast-tracked it: *)
(* a new sender's, or one whose lead it was not told of.                   *)
Untold == unheard \cup late \cup misled
FastTracked(e) == Score[e] = "fast" /\ (Source[e] = "new" \/ e \in Untold)
AckedIsHandled ==
  \A e \in Email :
    /\ entry[<<e, 0>>] = "done" =>
         \/ \E n \in Run \ {0} : entry[<<e, n>>] # "absent" /\ (routing = "leads" => outbound[e] > 0)
         \/ e \in dropped \/ spent[e] > 0
         \/ \E n \in Run : <<e, n>> \in gaveUp
    /\ (\E n \in Run \ {0} : entry[<<e, n>>] = "done") =>
         stored[e] > 0 \/ FastTracked(e) \/ spent[e] > 0

(* An email is stored elsewhere than in its sender's table only if RAG's   *)
(* answer was late, or nobody listened when it came, or it did not name    *)
(* that table, or a mishap hit the email: results of others, however many, *)
(* do not make Leads overhear an answer that came in time.                 *)
StraysPaidFor ==
  \A e \in strays : e \in Untold \/ spent[e] > 0

(* Every email that enters is stored, or dropped, or given up by the       *)
(* Manager, fast-tracked, hit by a mishap, or Leads waits without end.     *)
EveryEmailIsStored ==
  \A e \in Email :
    entry[<<e, 0>>] = "new" ~>
      \/ stored[e] > 0 \/ FastTracked(e)
      \/ e \in dropped
      \/ \E n \in Run : <<e, n>> \in gaveUp
      \/ spent[e] > 0
      \/ pc["leads"] = "stuck"

-----------------------------------------------------------------------------
(* docs/components/tier-1/manager.md: "When Leads Orchestrator returns a   *)
(* `reply_packet`, Manager chains to Outreach".                            *)
HasPacket(t) == \E i \in DOMAIN results["leads"] : results["leads"][i] = [task |-> t, has |-> TRUE]
ReplyPacketIsChained ==
  \A t \in Task : HasPacket(t) ~> outbound[t[1]] > 0 \/ t \in gaveUp \/ spent[t[1]] > 0

(* _build_inbound_email_steps: "Fast-track: High-score new leads skip      *)
(* staging and write directly to leads table".                             *)
FastTrackIsStored ==
  \A e \in Email :
    Score[e] = "fast" /\ (\E n \in Run \ {0} : entry[<<e, n>>] = "done") => stored[e] > 0
=============================================================================
