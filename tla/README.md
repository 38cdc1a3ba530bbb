# Verification of the Enterprise AI Sales Orchestrator

TLA+ specifications of the parts of this repository whose correctness depends
on the order of steps, from the mailbox to the email that answers: the inbox
pollers, the Manager and the Leads orchestrator, the consumers that move tasks
between Redis Streams, the auto-send path of the outreach orchestrator, the
channel sequencer, the compound writes that store inbound email, and the write
worker. TLC checks them on small instances; TLAPS proves the invariants that
TLC checks for every value of the constants. Paths below are relative to the
root of the repository.

Contents: [1 The system](#1-the-system), [2 Modules](#2-modules),
[3 Runs](#3-runs), [4 Bounds](#4-bounds), [5 Fairness](#5-fairness),
[6 Proofs](#6-proofs), [7 Findings](#7-findings),
[8 Not modelled](#8-not-modelled), [9 Plan](#9-plan).

## 1 The system

A task travels down three tiers, from one Redis Stream to the next. The Manager
(tier 1) plans and delegates; orchestrators (tier 2: inbound, outreach, leads,
control, audit) route; agents (tier 3: persistence, copywriter, classifier,
RAG, scheduler, channel sequencer) do the work. Each stream is read by a
consumer group of worker processes. Results go to a result stream, entries that
keep failing to a dead-letter stream (`<stream>:dlq`).

| component | state it keeps | operations | interacts through | what is hard | what makes it correct |
|---|---|---|---|---|---|
| Tier-3 consumers: `tiers/tier_3/persistence_agent/consumer.py`, `copywriter_agent/consumer.py` | position in the loop, entry in hand; in Redis the stream, the group's cursor, the pending list with delivery counts | read new, re-read own pending, execute, publish, ack, fail, dead-letter | task, result and dead-letter streams | every call may raise, applied or not; processes die between calls and come back under another name | no task vanishes; no task in two hands; dead letters only after `DLQ_MAX_RETRIES` deliveries; duplicates only after trouble; every task settles |
| Inbound orchestrator consumer: `tiers/tier_2/inbound_orchestrator/consumer.py` with `core/dlq.py` | the same, and a batch, a shutdown flag | as above in batches; `send_to_dlq`; SIGTERM | the same streams of tier 2 | an exception abandons a batch; unparsable entries are raised outside the try block; `send_to_dlq` swallows failures; replicas share a name | as above, losses only when both records failed |
| Outreach orchestrator: `tiers/tier_2/outreach_orchestrator/` | the hash `{tenant}:outreach:auto_send` of routing contexts; the pending reply tasks | enqueue copywriter request, store context, enqueue booking, publish, handle a completion, enqueue sequencing, remove context | Manager's reply packets, Copywriter's results, scheduler and sequencer streams | request and context are two calls; harness attempts and redeliveries make new requests; completions come twice | one email per completion, only with a context; contexts outlive failures; an undisturbed reply is sent |
| Compound writes: `tiers/tier_3/persistence_agent/compound_handler.py`, steps from `leads_orchestrator.py` | rows of `leads`, `conversations`, `messages` and their staging tables | upsert, update, rollback by deleting | the persistence task stream; the database and its foreign keys | no transaction; several emails share a lead and a thread; a rollback deletes what others wrote | a stored email stays; failures leave nothing behind |
| Inbox pollers and webhook: `services/email/` | suppression keys `{tenant}:inbox:seen:...`, the batch in hand; the mailbox | check the length of the Manager's stream, search, fetch, set the key, publish, mark as read; receive a post, answer it | mailbox, Redis keys, the Manager's task stream | the key is set before the mail is published and expires; IMAP marks a mail when it is fetched; the provider posts again | a mail is published once in the life of its key, lost only by a process that failed with it, and handled in the end |
| Manager: `tiers/tier_1/manager/` | the tasks it delegated and waits for | plan, delegate, poll two result streams, chain, answer | task streams of Inbound, Leads and Outreach, their result streams | polls see the newest 50 entries; deadlines; a retried task delegates again | what it acknowledges was delegated, and a reply packet was handed on |
| Leads orchestrator: `tiers/tier_2/leads_orchestrator/` | the position from which it reads the RAG results | ask RAG, wait, store the email, promote, answer with a reply packet | RAG's result stream, the persistence task stream | the wait begins after the request; others' results; the deadline | the email of a known sender is stored with that sender; each email is stored |
| Write worker `persistence_agent/write_worker.py` | entry in hand, retries, `_processing`, `_stop`; in Redis an idempotency key per entry | read new, lock, write with retries, publish, dead-letter, ack, SIGTERM | write task stream, its results and dead letters | the key outlives an attempt that died; nothing is read again; the signal handler waits on the thread it interrupts | no write twice at once, repetitions only after trouble, nothing acknowledged unanswered, shutdown ends |
| Channel sequencer: `tiers/tier_3/channel_sequencer_agent/` | position in a list of steps, attempts of the harness; an hourly counter in Redis | dispatch a list of steps, count against the limit, record what was sent, publish, ack, fail, dead-letter | sequencing stream, SMTP and webhooks, the persistence task stream | one failed step repeats the list; redelivery repeats it too; the hour changes between check and email | a step is sent again only for a mishap; what was sent is recorded; the limit holds but for emails on their way |
| Circuit breaker, shutdown helpers, workflow progress, rate limiters, adapters | counters, hashes, caches | read-modify-write | Redis, database | hardly used by the services at this commit | - |
| Gateway, portals, LLM agents, deployment | none that matters here | I/O | | | |

The complete list of components, with what is modelled of each, is in
`PROJECT.json`, together with the hazards of the code at their lines and the
properties that cover them.

## 2 Modules

| module | what it is |
|---|---|
| `TaskDelivery` | abstract specification of a task stream: a task is queued, leased, and settled only after an outcome was recorded; nothing is recorded afterwards |
| `AgentConsumer` | the Tier-3 loop, one action per Redis call; implements `TaskDelivery` |
| `AgentConsumerProofs` | theorems about it |
| `OrchestratorConsumer` | the Tier-2 inbound loop, with batches and SIGTERM |
| `OrchestratorConsumerProofs` | theorems about it |
| `AutoSend` | outreach consumer, orchestrator and the Copywriter's answers |
| `AutoSendProofs` | theorems about it |
| `CompoundWrite` | storing inbound email, with rollback, against foreign keys |
| `CompoundWriteProofs` | theorems about it |
| `WriteWorker` | the write worker, its idempotency keys and SIGTERM handler |
| `WriteWorkerProofs` | theorems about it |
| `InboxPoller` | the pollers, the webhook, the mailboxes and the suppression keys |
| `InboxPollerProofs` | theorems about it |
| `ReplyPipeline` | the composition of the Manager and the Leads orchestrator, from an inbound email to its rows and its outreach task |
| `ReplyPipelineProofs` | theorems about it |
| `ChannelSequencer` | the sequencing workers, their harness, the hourly limit and the recording of emails |
| `ChannelSequencerProofs` | theorems about it |
| `MC...` | constants for TLC |

**Redis calls.** Every command is one step, with one of three outcomes: `ok`;
`lost`, the command never reached Redis and raised; `torn`, it was applied and
raised all the same. Handlers branch on whether a call raised, the state on
whether it was applied. The bounds (`MaxFaults`, `MaxMishaps`, `Allowed`) count
calls that raise. In `InboxPoller`, `ReplyPipeline` and `ChannelSequencer` a
raised call or a crash is also charged to what the process had in hand
(`broken`, `spent`), so that a property can say which mail, email or request it
may harm.

An email passes through the modules in this order: `InboxPoller` publishes it to
the Manager's task stream; `ReplyPipeline` takes it from there to the
persistence tasks, which `AgentConsumer` carries and `CompoundWrite` executes,
and to the outreach task with its reply packet; `AutoSend` turns that into a
sequencing request; `ChannelSequencer` sends it. Each takes the stream before it
as something that may grow at any time (`Submit`, `Post`, `Arrive`).

**`AgentConsumer`.** `tail`, `cursor`, `owner`, `count` are the stream, the
group's last-delivered-id, the pending list and `times_delivered`.
`run` is `ReadNew`, `ReadHistory`; `process_task` is `Execute`, `Publish`,
`Ack`; `_handle_failure` is `HandleFailure`, `DeadLetter`, `ReportError`,
`AckDead`. The agent behind the harness is a choice: success, error status, or
an exception. `consumer_name` is `worker_{id(self)}`, modelled as the process
with its incarnation. `Decoder` is the set of workers whose Redis client
decodes replies: `DeadLetterMessage.to_dict` raises for the others, and
`main()` builds such a client.

**`OrchestratorConsumer`.** The differences are named in its header. `batch` is
what was read and not yet taken; `Abandon` is what every exception, `return`
and the end of the process do to it. `Name` is a constant: with the process id
as the name, whether two processes share one depends on the deployment.

**`AutoSend`.** `requests` is the copywriter task stream, `answers` the part of
its result stream not yet delivered, `context` the hash. `EnqueueCopywriter`,
`RegisterAutoSend`, `EnqueueScheduler` are the three calls of
`OutreachOrchestrator.execute` in their order, each of which a failed harness
attempt may repeat; `Lookup`, `EnqueueSequencing`, `Report`, `Forget`,
`AckAnswer` are `process_copywriter_result`. One read returns at most one entry
per stream here (the code reads up to ten of each and handles them one by one).
`registered`, `missed` and `sends` record history for the properties. The
pending list of the result stream is left out because it is never read.
`Refuse` is the quota of the harness, before its first attempt
(`core/harness/agent_harness.py:371-379`): `OutreachOrchestratorHarness` passes
its Redis client on, so that there is a `RedisTokenBucket` of 100 tokens,
refilled with 500 in an hour, for all executions of a process. A refused
delivery goes to `_handle_failure` without an attempt. Which ones find the
bucket empty is a choice; `refusals` counts them for `ReplyIsSent`.

**`CompoundWrite`.** The compound of an email is three upserts along the
foreign keys (lead, conversation, message) and an update with
`on_error: "warn"`. `Upsert` is `execute_step` with the outcome `_retry_upsert`
ends with; `Undo` is `rollback_step` on the last step not undone; `GiveUp` is
the failed `CompoundResult`, which `_normalize_result` publishes as a success
and which the consumer acknowledges. `Parent`, `Closed`, `AfterDelete` are the
database: it refuses a row without its parent, refuses to delete a parent in
the primary tables and cascades in the staging tables
(`supabase/migrations/20260107204036_remote_schema.sql` lines 601-661). Ids are
computed from the email, so a second execution writes the same rows.

**`WriteWorker`.** `LoopHead`, `ReadNew` are the loop of `start`; `Admit`,
`Lock`, `Skip`, `Write`, `Publish`, `Report`, `Ack` are `process` in order.
`Write` is `_handle_task`, which writes, refuses, or raises. The worker reads
undelivered entries only, so that an entry comes twice only when an operator
sets the group back (`GroupReset`, `scripts/utils/ops.py`), which is what the
key is good for; `Expire` is its time to live. `shutdown` runs on the thread
that processes: `waiting` stops `Step`, and `Resume` is the end of the thirty
seconds. `Allowed` bounds what goes wrong (`Trouble`), as a set of allowed
counts; the invariants say what each trouble may cost.

**`InboxPoller`.** `CheckBackpressure`, `Search`, `Fetch`, `TakeNext`, `Admit`,
`Publish`, `MarkRead` are the body of `run_poller`; `Receive`, `Admit`,
`Publish`, `Answer` are `ingest_email` of the webhook, one process because its
event loop awaits nothing in between. The model assumes that nobody else
expunges mail from an IMAP mailbox: `providers.py` searches (line 237), fetches
(249) and marks (314, over another connection) by message sequence number, which
is also the key of a mail without a Message-ID (287); after an expunge a number
stands for another mail. `Admit` is `should_process`: EXISTS and
SETEX are two calls, so that a process may find a key that was set since
(`overtaken`). `provider` is chosen in `Init`: IMAP's fetch marks mails as read
(RFC822 without PEEK), Gmail's does not. `length` is XLEN of the Manager's
stream, which nothing in the code trims; `caughtUp` says that the Manager has
acknowledged everything. `Expire` is the end of a key's time to live. What the
pre-filter decides is the set `Junk`.

**`ReplyPipeline`.** Two services run the same consumer loop (`Read`, `Reread`,
`Take`, `Report`, `Ack`, `Fail`); in between, the Manager is `Plan`,
`PollInbound`, `Delegate`, `PollLeads`, `Handover`, `Deadline`, and Leads is
`Ask`, `FindTail`, `Hear`, `GiveUp`, `Store`, `Promote`. A task is the email and
the number of the Manager's execution that made it. The Manager sees the last
`Window` entries of a result stream (`Recent`). Leads reads on from the tail it
found after it had asked; when the stream was empty its position is `$`
(`dollar`), the tail at each read, and an answer between two reads is missed.
It takes any envelope with the task id for the answer (`Heard`, `Learn`), and
RAG's may name the table of the sender, another one or none (`PlacesOf`): a
lookup that raises counts as one without a result, and the RAG consumer
publishes an error envelope for what it dead-letters. `misled` are the emails
whose answer did not name the sender's table; a known sender's email is then
filed elsewhere, or, if its score is high enough, fast-tracked.
`BlockForever` is the last millisecond of the wait, truncated to `BLOCK 0`.
`Unpacks` is the fast-track branch, whose return value its callers cannot
unpack; the exception is swallowed and nothing is stored. `routing` is chosen in
`Init`: `config/manager/routing.yaml` names Inbound for inbound email, the
default of the code Leads. Inbound and RAG are external: they answer early,
late, with an error or never, and RAG also without the lead. The quotas of the
two harnesses never refuse (section 8).

Both consumers' files end in a `main` that is indented wrongly
(`manager/consumer.py:267`, `leads_orchestrator/consumer.py:272`), so that they
do not compile at this commit; the classes above it are what is modelled. The
harnesses' time-outs are configured and not enforced. Leads does not look at
`actions_allowed` of its task: it stores the email in any case.

**`ChannelSequencer`.** `Read`, `Take` are `run`; `PassOver`, `Refuse`,
`Throttle`, `Send`, `Conclude` are `build_sequence` step by step, `FailAttempt`
the harness, which begins the list again; `Record` is
`_persist_email_deliveries`, `Answer` and `Ack` the end of `process_task`;
`HandleFailure`, `DeadLetter`, `AckDead` are `_handle_failure`, which is called
in the `except` branch of the loop, so that what it raises ends the process
(`Die`): an XADD or XACK that fails, or `DeadLetterMessage.to_dict` on the bytes
keys that the client of `main()` returns (`Decoder` is the set of workers with
another client). The consumer's name, `worker_{id(self)}`, is an address: a
restarted process has another one for all practical purposes, and what was
pending under the old is `stranded`. An XACK of `AckDead` that took effect and raised ends the
process with the entry gone; so does an XACK that succeeded and a crash after
it, at the same price, and the step has no outcome of its own for it.
`tickets` is the counter `throttle:outbound:hour:...`,
named after the hour; `sentNow` the emails that really left in it.

## 3 Runs

| run | expected | shows |
|---|---|---|
| `agent` | pass | `DeadOnlyAfterRetries`, `DuplicatesPaidFor`; the refinement `AtLeastOnce` (nothing leaves without an outcome); `EveryTaskSettles` unless the reader died or cannot dead-letter |
| `orchestrator` | pass | `LossPaidFor` (a loss costs two raised calls), `DuplicatesPaidFor` with SIGTERM free; `EveryTaskSettles` for entries that parse, in batches that a raised call, SIGTERM or a kill parts, unless they wait behind one that does not |
| `autosend` | pass | `OneSendPerAnswer`, `CopiesPaidFor` (how many texts one reply may be given); `ReplyIsSent` for a reply that nothing disturbs and that the quota does not refuse to the end |
| `compound` | pass | `StoredIsKept`, `FailureLeavesNothing`, `StageResurrectsNobody` |
| `rollback` | violation | a rollback deletes a lead it did not create |
| `write_worker` | pass | `WorkIsExclusive` (the key keeps two workers from one entry), `RepetitionPaidFor`, `AckedIsAnswered`, `StrandedPaidFor`; `EveryTaskIsLetGo`, `ShutdownEnds` |
| `inbox` | pass | `OnePerLife`, `ReadIsHandled` (Gmail), `LossPaidFor` (a mail is lost only by a process that failed with it); `UnreadIsHandled` while the stream is short |
| `inbox_stalls` | violation | once enough tasks were ever added, the poller never polls again |
| `reply` | pass | `CopiesPaidFor`, `AckedIsHandled`, `StraysPaidFor` (an email is stored elsewhere than in its sender's table only for an answer that was late, unheard or named another table or none); `EveryEmailIsStored` with its exceptions named |
| `reply_unchained` | violation | with the shipped routing nobody waits for Leads' reply packet |
| `fast_track` | violation | a fast-tracked sender's email is acknowledged unstored |
| `sequencer` | pass | `SendsPaidFor`, `RecordsMatchSends`, `HourlyLimit`, `OkMeansSent`; `EveryRequestSettles` unless a process that ended strands it |

The runs marked *violation* check one statement of the documentation each;
section 7 has what they show.

## 4 Bounds

* `agent`: two workers (one with the client of `main()`, one that decodes), two
  tasks of which the second is unparsable, `MaxRetries` 3 (the default), two
  raised calls and one crash. Two raised calls are what a torn XACK and a failed
  dead letter need together. Delivery counts saturate at `MaxRetries`, the only
  value they are compared with.
* `orchestrator`: two workers, three tasks in batches of two, the first
  unparsable: a worker reads it with the second, or the second and the third,
  which both parse, together. Two troubles (`MaxTrouble`): two raised calls, which
  is what a loss costs, or one of them with a SIGTERM or a crash, or both of
  these. `MaxRetries` 2.
* `autosend`: two consumers, one reply with every kind of booking, two harness
  attempts, two deliveries, requests answered once or twice, the second without
  a body. `MaxMishaps` allows two of raised calls, SIGTERMs, crashes and repeated
  answers; none when the booking cannot be parsed, which makes four requests by
  itself (two attempts of two deliveries). Two mishaps with another booking make
  three. The quota may refuse any delivery; that is no mishap. `MaxCopies` is 5,
  so that the bound of `CopiesPaidFor` does not come from it.
* `compound`: two writers; two emails in a thread of a primary lead, two in one
  of a staging lead; the first is executed twice; every set of rows that the
  foreign keys allow to begin with; one failed upsert, one mishap (an applied
  upsert that raised, a delete that did not reach the database, a crash).
  Deadlock is not checked there: after its bounded executions the system stops.
  The writers are symmetric, and the run has no liveness property.
* `write_worker`: two workers, `MaxRetries` 1, three entries: one that does not
  parse, one whose last retry is used up (dead-lettered), one ordinary. Every
  combination of at most two troubles: a replay needs one, and a second one is
  what each exemption of the invariants is about.
* `inbox`: one poller and the webhook, two mails in the box, one of them also
  posted and the other junk to the pre-filter; either provider; two mishaps
  (what a mail that is lost and found again takes: the failure and the retry);
  a limit of three entries. `MaxResults` is two, so that both mails may be in one
  batch; what a limit below the number of unread mails does to the choice of
  mails is not shown. `inbox_stalls`: a limit of one, and no failure at all.
* `reply`: two emails, one of a known lead and one of a staged sender of the
  highest grade; a window of one entry, which one foreign result fills; two
  deliveries. `Allowed` lists what may come together: two mishaps, or one and a
  foreign result, with the staged sender's email under the shipped routing; one
  mishap or one foreign result with the known lead's email under both routings,
  and both emails (two executions on the streams at once, each other's foreign
  results) under both. Each answer of RAG names any of the
  tables it may name. Deadlock is not checked in the three runs: the Manager and
  Leads block when nothing is left to read.
* `sequencer`: two workers (one with the client of `main()`), four requests (an
  email and a webhook; an email and an incomplete one; a held, a delayed and an
  ordinary step without a lead; an entry that does not parse), one email an
  hour, two attempts of the harness, two deliveries. `Allowed`: two
  mishaps and a change of the hour with the first request, two mishaps with it
  and the third, and one or none with more. The limit's bound is reached: with
  two workers three emails leave in one hour. Deadlock is not checked: the
  workers block when nothing is left to read.

## 5 Fairness

`AgentConsumer`, `OrchestratorConsumer`, `AutoSend`: weak fairness of each
worker's loop (`Step(w)`: the loop body never waits for anything but Redis,
whose blocking read has a time-out) and of each restart (`restart:
unless-stopped` in `docker-compose.yml`). Submissions, SIGTERM, crashes and
raised calls are not fair. `AutoSend` also assumes that the Copywriter answers
each request once at least; that this can fail (its worker dies, section 7) is
a matter of `AgentConsumer`. `WriteWorker` adds weak fairness of `Resume`: the
wait of `shutdown` counts to sixty. `CompoundWrite` states safety only.

`InboxPoller`: weak fairness of each process and its restart, of the end of a
key's life (Redis expires it), and of the Manager's getting through its tasks;
nobody has to send mail or to post it. `ReplyPipeline` and `ChannelSequencer`:
weak fairness of `Step \/ Restart` of each service or worker (`while True` over
Redis reads with a time-out, SMTP and HTTP calls that return or raise; `restart:
unless-stopped` in `docker-compose.yml` and `deployment/docker-compose.yml`).
The time of a wait passes: `GiveUp` and `Deadline` are steps. Nobody has to
answer: neither Inbound nor RAG is fair, and liveness holds without them.

## 6 Proofs

Every invariant that a passing run checks is a theorem, for all values of the
constants that the module's assumption admits; so are `StageResurrectsNobody`
and the refinement `AtLeastOnce`. The runs show the same formulas on small
instances.

| module | theorem | states |
|---|---|---|
| `AgentConsumerProofs` | `TypeCorrect`, `DeadAfterRetries`, `DuplicatesBounded`, `Exclusive`, `NothingDropped`, `Implements` | `TypeOK`, `DeadOnlyAfterRetries`, `DuplicatesPaidFor`, `ExclusiveHold`, `NoSilentDrop`, `AtLeastOnce` |
| `OrchestratorConsumerProofs` | `TypeCorrect`, `LossIsPaidFor`, `DuplicatesArePaidFor` | `TypeOK`, `LossPaidFor`, `DuplicatesPaidFor` |
| `AutoSendProofs` | `TypeCorrect`, `AnswersSendOnce`, `RewritingIsPaidFor` | `TypeOK`, `OneSendPerAnswer`, `CopiesPaidFor` |
| `CompoundWriteProofs` | `TypeCorrect`, `NothingStoredIsLost`, `NobodyResurrected`, `NothingIsLeft` | `TypeOK`, `StoredIsKept`, `StageResurrectsNobody`, `FailureLeavesNothing` |
| `WriteWorkerProofs` | `TypeCorrect`, `WorkersExclude`, `RepetitionIsPaidFor`, `AnsweredWhenAcked`, `StrandingIsPaidFor` | `TypeOK`, `WorkIsExclusive`, `RepetitionPaidFor`, `AckedIsAnswered`, `StrandedPaidFor` |
| `InboxPollerProofs` | `TypeCorrect`, `ReadHandled`, `LossIsPaidFor`, `PublishedOncePerLife` | `TypeOK`, `ReadIsHandled`, `LossPaidFor`, `OnePerLife` |
| `ReplyPipelineProofs` | `TypeCorrect`, `CopiesArePaidFor`, `StraysArePaidFor`, `WhatIsAckedIsHandled` | `TypeOK`, `CopiesPaidFor`, `StraysPaidFor`, `AckedIsHandled` |
| `ChannelSequencerProofs` | `TypeCorrect`, `LimitHolds`, `OkIsTrue`, `RepetitionIsPaidFor`, `RecordsAreTrue` | `TypeOK`, `HourlyLimit`, `OkMeansSent`, `SendsPaidFor`, `RecordsMatchSends` |

**Assumptions.** Each module's named `ASSUME`: counts are natural numbers, the
retry limits that the code compares with `>=` are at least two where it says so,
and the markers for "nobody" and "nothing" are not workers or entries. Where a
proof counts workers (`WriteWorker`, `AutoSend`, `ChannelSequencer`) their set
is finite. `DuplicatesArePaidFor` assumes in addition that no two processes
share a name (`OwnNames`): consumers are named after process ids, which are
distinct on one host and need not be in several containers; without the
hypothesis the statement is false, because a process re-reads its namesake's
backlog. `LossIsPaidFor` holds for shared names too.

**Layout.** Each module begins with the types, action by action. `TypeOK` also
says who has what in hand, which no action keeps without knowing more; it
follows from `Types` with the invariant next to it (`Own`; `Hands`, `Fresh`
and `Mine`; `Owned` in `AutoSendProofs`; `UndoStops`). The later proofs do not open the actions again: lemmas say what an action does to
the part that matters (a worker moves, an entry is delivered, something is
published and paid for), and the invariant is shown to survive each kind of
change. None of the invariants is inductive by itself; the following are.

**`AgentConsumerProofs`.** Each property is proved from a strengthening:

1. `Own` adds `Ownership`: a worker holds an entry exactly while it is in
   `process_task`, and the entry is pending under the worker's present name,
   except that a torn XACK may have removed it just before `_handle_failure`;
   nothing is pending or published of an entry not yet delivered. So `Backlog`
   can give an entry to nobody else, which is `ExclusiveHold`.
2. `Backed` is `Own` and `Evidence`: a worker that is about to acknowledge has
   published. This gives `NoSilentDrop`. Together with `Ownership` it also gives
   the refinement: a worker that failed after the entry was gone finds a
   delivery count of one, and `MaxRetries` is at least two, so that nothing is
   recorded about a settled task.
3. `Patient` is `Own` and `Retried`: a worker on its way to the dead letter has
   an entry whose count reached `MaxRetries`; counts never fall.
4. `Settling` is `Own` and `Budget`: the replies and dead letters of a task are
   bounded by the incidents so far, by one less while the task is pending and
   its worker is not past the reply (the dead letter).

**`OrchestratorConsumerProofs`.** `Accounted` is the types, `Hands` (what a
worker has in hand and in its batch are different entries, delivered before),
`Fresh` and `Outcomes`: an entry that left the group has an answer or two raised
calls behind it, and so has a worker that is about to acknowledge a dead letter;
one raised call when it is about to write the error envelope. For duplicates
`Ledgers` adds `Owned` (as in `Ownership` above, and for the batch) and two
ledgers, for replies and for dead letters: an entry has one of each to its
credit until it left the group or its worker is past the step that writes it.
`Advances` is the point of it: a worker that is past that step lets the entry go
either by acknowledging it or for an incident.

**`AutoSendProofs`.** `Sending`: for each request, what was sent, the workers
that carry an answer of it and the answers that wait on the stream together
never exceed the answers that the Copywriter gave; an answer without a body is
never carried to `send`. `Copying`: a reply has one request to its credit and
one for each incident, until it is done (`Modest`); one whose booking does not
parse never gets past the booking (`Futile`) and costs, besides what it cost
already, the attempts left of this delivery and of those that are left
(`Wasteful`).

**`CompoundWriteProofs`.** The inductive invariant of `NothingStoredIsLost` and
`NobodyResurrected` is `Types /\ Closed(rows) /\ UndoStops /\ Written /\ Kept`:
a failed step is not rolled back, so a rollback deletes conversations and leads
and never a message (`UndoStops`, `MessagesSurvive`); foreign keys keep
everything above a message (`Closed`, preserved by a delete: `DeleteClosed`); a
compound succeeds only after its message was written (`Written`). So an email
reported as stored keeps its path to the lead, although rollbacks of other
compounds do delete shared rows. `NothingIsLeft` adds `Closed(before)` and
`Tidy`: without a mishap each new row is above a message, or a writer that has
not written its message yet, and may still have to undo it, has upserted it. A
delete that the foreign keys refuse is refused for a row of another writer,
which is accounted for in turn.

**`WriteWorkerProofs`.** The key is a token: an entry without one has a turn
left, `SET NX` turns it into a worker that may write and answer, and only a
raised call or an expired key adds a turn (`WriteLedger`, `ReplyLedger`, over
the sets `Writing` and `Owing`). While nothing adds one, whoever works on an
entry has its key (`Keyed`), so that `SET NX` admits nobody else. `Beginnings`
and `Excuses`: a worker that has begun an entry answers it, or dies of trouble
that was spent; what is acknowledged was answered, or its dead letter was
swallowed. `Once`: while nobody sets the group back an entry is delivered once,
and no worker meets the key of another.

**`InboxPollerProofs`.** Once its key is set a mail is *settled*: handled, about
to be published by a process that holds it, or broken (`Settled`); a poller
marks only what is handled and passes over only what has a key (`Admission`),
and what the mailbox or the webhook let go is settled or in somebody's hands
(`LetGo`). For duplicates each publication, done or about to be, has used a
SETEX of its own (`Owed`, a count over the processes that are about to publish).

**`ReplyPipelineProofs`.** Types already need a ledger: a task is named after
the number of the execution that made it, and that the numbers stay within
`1 + MaxMishaps` is because each execution after the first was paid for
(`RunsPaid`: the executions of an email, and one if an entry of it has still to
be planned, are at most one more than its mishaps), and because numbers above
the present one are unused (`Numbered`). `Ledger` then bounds each effect: what
was handed to Outreach, and one if the Manager may still do so, is at most the
number of executions; what was stored (promoted), the Leads tasks that have not
come to that point (`Ahead`) and one that the Manager may still make (`ToCome`)
are at most one more than the mishaps. `Asked` is about the wait for RAG: the
position that Leads reads from has not passed its answer unless the email is in
`unheard`, the answer names the sender's table unless the email is in `misled`,
and Leads is about to store elsewhere only then, or when it stopped waiting, or
after a mishap; `StraysPaidFor` follows. `Duty` says for each
location of the Manager and of Leads what has been done by then, or excuses it,
and `AckedIsHandled` is what it says of the last one. The kinds of steps
(`Plans`, `Delegates`, `Advances`, `Delivers`, `Takes`, `Finishes`, `Crashes`)
stand between the actions and the ledgers.

**`ChannelSequencerProofs`.** `LimitHolds`: the emails of this hour and the
workers past the check are at most the tickets that were granted and one for
each worker (`Hourly`); a change of the hour leaves only the workers. `OkIsTrue`:
what a worker has no error about was dispatched, throttled or held back
(`Confirmed`), step by step and, at the end of the list, all of it.
`RepetitionIsPaidFor`: `Owned` says who has a request, and `SendLedger` that what
was dispatched of a step and what the worker may yet dispatch without a mishap
(`Owed`: in this attempt and, for an incomplete email, in those that are left)
stay within `Executions` for each mishap and one more; a request that nobody has
in hand and that is not finished leaves room for an execution. `RecordsAreTrue`:
what is recorded and what was sent in this attempt and is still to be recorded
(`Flag`) is at most what was sent, and equal for a request that met no mishap.

**Checked by TLC only.** The liveness properties (`EveryTaskSettles` of both
consumers, `ReplyIsSent`, `EveryTaskIsLetGo`, `ShutdownEnds`, `UnreadIsHandled`,
`EveryEmailIsStored`, `EveryRequestSettles`): fairness and ENABLED are beyond the
prover. The violations of section 7 are counterexamples of TLC.

## 7 Findings

| run | the documentation | the code |
|---|---|---|
| `rollback` | `compound_handler.py:323` "deleting created records" | every row of a successful upsert is deleted; in the staging tables the cascade takes stored emails of the thread along, which is why `StoredIsKept` speaks of the primary tables |
| `inbox_stalls` | `services/email/inbox_poller.py:41` "skip poll if manager stream has too many pending messages" | XLEN counts every entry ever added, and nothing trims the stream (line 96) |
| `reply_unchained` | `docs/components/tier-1/manager.md:152` "When Leads Orchestrator returns a `reply_packet`, Manager chains to Outreach" | only when "leads" is in the plan (`manager_agent.py:537`), which `routing.yaml` never makes it |
| `fast_track` | `leads_orchestrator.py:561` "High-score new leads skip staging and write directly to leads table" | the branch returns a list where its callers unpack a pair (line 749); the exception is swallowed |

Divergences that the models contain and no run of its own checks:

* A completion that is read between the enqueue of its request and the store of
  its context is ignored (`outreach_orchestrator.py:895-897`; `missed` in
  `AutoSend`), against `docs/components/tier-2/outreach.md:124`.
* A crashed Tier-3 worker's entries are never reclaimed
  (`persistence_agent/consumer.py:253`), against
  `docs/concepts/agent-harness.md:244`; nor are the sequencer's (`stranded`).
* The client that `main()` of the persistence consumer builds returns bytes, and
  `DeadLetterMessage.to_dict` raises on bytes keys (`core/dlq.py:48`): nothing is
  ever dead-lettered there. The channel sequencer's `main()` has the same client,
  and its handler is outside the try block: an entry that does not parse ends
  the process at its last delivery, and strands whatever else it had read.
* Dead-lettering counts deliveries, not attempts: an abandoned batch raises the
  count of entries that were never tried (`inbound_orchestrator/consumer.py:185`).
* `inbound-worker-{os.getpid()}` is the same name in every container, so that
  replicas share their pending entries (`inbound_orchestrator/consumer.py:58`).
* A failed compound is published with status "success" (`_normalize_result`,
  `persistence_agent/consumer.py:316`), and one failure can spread: a rollback
  that deletes a lead makes the next upsert of another compound fail.
* The write worker leaves an entry unacknowledged when its rate limiter times
  out and calls that a retry (`write_worker.py:137`), but reads undelivered
  entries only (`StrandedPaidFor`); an operator's replay within the life of the
  key acknowledges an entry without an answer (`AckedIsAnswered`).
* In the last millisecond of Leads' wait the remaining time is 0, and `BLOCK 0`
  blocks without end (`leads_orchestrator.py:1109`; `stuck`).
* An email that was sent in an execution that ended in an error is not recorded
  (`channel_sequencer_agent/consumer.py:85`), against
  `docs/components/tier-3/channel-sequencer.md:59`. Throttled and delayed steps
  are acknowledged, and nobody sends them later.
* The pre-filter's scores are sums of floats: 0.30 + 0.35 misses the threshold of
  0.65, so that the marketing mail of `docs/components/tier-2/inbound.md:55-65`
  is not taken for one (`services/email/pre_filter.py:296`).
* The promotion of a staging lead reads `staging.get("data")` of an adapter that
  returns the row itself (`persistence_agent.py:433`): it always answers "Staging
  lead not found".

## 8 Not modelled

* What the LLM agents answer, prompts, classification and scoring: the models
  choose any outcome.
* Loss of Redis's own data (docker-compose configures no persistence).
* Stream trimming (`MAXLEN`), which the modelled streams do not use for tasks.
* Other payloads of the compound handler (conditions, CREATE, DELETE), drafts
  and direct sequencing of the outreach orchestrator, `requeue_message`, which
  only scripts call.
* `WORKER_ONCE` and the token bucket of the write worker's rate limiter (its
  time-out is modelled); `core/shutdown.py`, `core/utils/graceful_shutdown.py`
  and `core/harness/circuit_breaker.py`, which only tests use;
  `workflow_progress.py`, whose updates come from one place.
* The pre-filter's patterns and scores (`Junk` stands for its decisions), OAuth
  and the sending of mail.
* Of the Manager, intents other than inbound email, the LLM classification, the
  shortcuts and the deep-agent fallback; of Leads, its LLM tools, the scoring and
  the text of the packet; several processes of one group in `ReplyPipeline`
  (groups of consumers are the subject of `AgentConsumer` and
  `OrchestratorConsumer`).
* Of the channel sequencer, the daily limit of new threads (a second counter of
  the same kind), the approval mode (drafts) and `DLQ_ENABLED=0`.
* The promotion of a staging lead inside the persistence agent, which changes
  nothing at this commit (section 7).
* `api/gateway/routers/auth.py` does not compile at this commit (line 300), nor
  does `channel_sequencer_agent.py` (stray lines from 333, after the class that
  is modelled).
* A mailbox from which somebody else expunges mail (section 2, `InboxPoller`).
* The quotas of the Manager's and of Leads' harness, which never refuse at this
  commit. Leads' is in memory (`leads_orchestrator_harness.py:83-84`), and nothing
  calls `record_execution`, which would count (`in_memory_quota.py:124`). The
  Manager's is in memory too in development; elsewhere it is configured for
  Redis, but `manager_agent_harness.py:85-89` passes no client, without which
  `agent_harness.py:280-284` makes none. The Tier-3 agents' quotas belong to the
  choice of outcomes of `AgentConsumer`.
* Gateway, portals, mail and vector-store I/O, deployment files.

## 9 Plan

The state machines that carry a task from the mailbox to the answer are
modelled. What is left, in order:

1. Proofs. An abstract contract like `TaskDelivery` for the consumers that do
   not meet it as it stands: `OrchestratorConsumer` may drop an entry for two
   raised calls, and `WriteWorker` acknowledges on a key. The contract with
   these prices in it, and the two refinements.
2. The daily limit and the approval mode in `ChannelSequencer`; the pre-filter's
   scores as operators over small inputs, checked against the documented
   examples.
