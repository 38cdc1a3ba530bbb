---------------------------- MODULE InboxPoller -----------------------------
(***************************************************************************)
(* Tier-0 ingress: the inbox pollers (services/email/inbox_poller.py), the *)
(* mailbox they read (services/email/providers.py) and the webhook         *)
(* receiver (services/email/webhook_receiver.py).                          *)
(*                                                                         *)
(* Both ingresses publish a mail to {tenant}:manager:tasks once its        *)
(* suppression key {tenant}:inbox:seen:{provider}:{message_id} could be    *)
(* set.  The key is set before the mail is published and lives for         *)
(* INBOX_DEDUP_TTL_SECONDS; a poller marks the mail as read afterwards.    *)
(* What keeps a mail from being lost is that it stays unread; what keeps   *)
(* it from being published twice is the key.                               *)
(*                                                                         *)
(* Assumption: nobody else expunges mail from the mailbox.  The IMAP       *)
(* provider searches, fetches and stores by message sequence number, the   *)
(* store over another connection, and it takes the number as the key of a  *)
(* mail without a Message-ID.  The numbers shift when a mail is removed,   *)
(* and then stand for other mails; here a mail is always itself.           *)
(***************************************************************************)
EXTENDS Naturals, FiniteSets

CONSTANTS
  Poller,       \* the poller processes of a tenant's mailbox
  Hook,         \* the webhook receiver: one event loop, which handles a call without awaiting
  Boxed,        \* the mails that arrive in the mailbox
  Pushed,       \* the mails that the provider posts to the webhook
  Junk,         \* the mails whose pre-filter category the poller skips
  MaxResults,   \* max_results of the providers
  MaxPending,   \* INBOX_MAX_PENDING
  MaxMishaps,   \* bound: calls that raise, messages that cannot be fetched, crashes
  NoMail

Mail == Boxed \cup Pushed
Process == Poller \cup {Hook}

ASSUME InboxAssumption ==
  /\ Hook \notin Poller /\ NoMail \notin Mail
  /\ IsFiniteSet(Poller) /\ Junk \subseteq Mail
  /\ MaxResults \in Nat \ {0} /\ MaxPending \in Nat \ {0}
  /\ MaxMishaps \in Nat

VARIABLES
  provider,   \* the configured INBOX_PROVIDER
  box,        \* [Boxed -> {"away", "unread", "read"}]: the mailbox
  push,       \* [Pushed -> {"none", "due", "answered"}]: the provider's posts
  seen,       \* SUBSET Mail: the suppression keys that are alive
  length,     \* XLEN of {tenant}:manager:tasks, which nothing trims
  caughtUp,   \* whether the Manager has dealt with all its entries
  published,  \* [Mail -> Nat]: the entries of it for a mail
  skipped,    \* SUBSET Mail: mails that a poller's pre-filter skipped
  lives,      \* [Mail -> Nat]: the times SETEX found no key of the mail
  overtaken,  \* [Mail -> Nat]: the times it found one, set since EXISTS
  broken,     \* SUBSET Mail: mails a process held when it failed
  pc,         \* [Process -> Location]
  todo,       \* [Process -> SUBSET Mail]: the rest of the batch
  cur,        \* [Process -> Mail or NoMail]: the mail in hand
  mishaps

mailbox == <<provider, box, push>>
stream == <<length, caughtUp, published>>
keys == <<seen, lives, overtaken>>
local == <<pc, todo, cur>>
vars == <<mailbox, stream, keys, skipped, broken, local, mishaps>>

Location == {"check", "search", "fetch", "next", "admit", "publish", "mark", "listen", "answer", "down"}
Home(p) == IF p = Hook THEN "listen" ELSE "check"

Init ==
  /\ provider \in {"gmail", "imap"}
  /\ box = [m \in Boxed |-> "away"] /\ push = [m \in Pushed |-> "none"]
  /\ seen = {} /\ lives = [m \in Mail |-> 0] /\ overtaken = [m \in Mail |-> 0]
  /\ length = 0 /\ caughtUp = TRUE /\ published = [m \in Mail |-> 0]
  /\ skipped = {} /\ broken = {}
  /\ pc = [p \in Process |-> Home(p)]
  /\ todo = [p \in Process |-> {}] /\ cur = [p \in Process |-> NoMail]
  /\ mishaps = 0

-----------------------------------------------------------------------------
(* A call succeeds, raises without effect ("lost") or raises after it took *)
(* effect ("torn").                                                        *)
Call == {"ok", "lost", "torn"}
Applied(call) == call # "lost"

Charge(call) ==
  IF call = "ok" THEN UNCHANGED mishaps
                 ELSE mishaps < MaxMishaps /\ mishaps' = mishaps + 1

Goto(p, location) == pc' = [pc EXCEPT ![p] = location]
Held(p) == todo[p] \cup ({cur[p]} \ {NoMail})
Handled(m) == published[m] > 0 \/ m \in skipped

(* An exception leaves run_poller's batch, or ends the webhook's call with *)
(* a 500; a crash ends the process.                                        *)
AbandonHolding(p, location) ==
  /\ Goto(p, location)
  /\ todo' = [todo EXCEPT ![p] = {}]
  /\ UNCHANGED cur
  /\ broken' = broken \cup Held(p)
Abandon(p, location) ==
  /\ Goto(p, location)
  /\ todo' = [todo EXCEPT ![p] = {}]
  /\ cur' = [cur EXCEPT ![p] = NoMail]
  /\ broken' = broken \cup Held(p)

-----------------------------------------------------------------------------
(* External: mail arrives, and the provider posts it.                      *)
Arrive(m) ==
  /\ m \in Boxed /\ box[m] = "away"
  /\ box' = [box EXCEPT ![m] = "unread"]
  /\ UNCHANGED <<provider, push, stream, keys, skipped, broken, local, mishaps>>

Post(m) ==
  /\ m \in Pushed /\ push[m] = "none"
  /\ push' = [push EXCEPT ![m] = "due"]
  /\ UNCHANGED <<provider, box, stream, keys, skipped, broken, local, mishaps>>

(* External: the Manager deals with its entries.  It acknowledges them,    *)
(* which does not shorten the stream.                                      *)
CatchUp ==
  /\ ~caughtUp
  /\ caughtUp' = TRUE
  /\ UNCHANGED <<mailbox, length, published, keys, skipped, broken, local, mishaps>>

(* External: Redis drops a suppression key at the end of its time.         *)
ExpireNever(m) == FALSE
Expire(m) ==
  /\ m \in seen
  /\ seen' = seen \ {m}
  /\ UNCHANGED <<mailbox, stream, lives, overtaken, skipped, broken, local, mishaps>>

-----------------------------------------------------------------------------
(* check_backpressure: a cycle is skipped when the stream has MaxPending   *)
(* entries; when XLEN raises the cycle goes on.                            *)
CheckBackpressure(p) ==
  /\ p \in Poller /\ pc[p] = "check"
  /\ \E call \in {"ok", "lost"} :
       /\ Charge(call)
       /\ Goto(p, IF call = "ok" /\ length >= MaxPending THEN "check" ELSE "search")
  /\ UNCHANGED <<mailbox, stream, keys, skipped, broken, todo, cur>>

(* fetch_new_messages lists unread mails, as many as max_results ...       *)
Search(p) ==
  /\ pc[p] = "search"
  /\ \E call \in {"ok", "lost"} :
       /\ Charge(call)
       /\ IF call = "ok"
          THEN \E batch \in SUBSET {m \in Boxed : box[m] = "unread"} :
                 /\ Cardinality(batch) <= MaxResults
                 /\ \/ Cardinality(batch) = MaxResults
                    \/ batch = {m \in Boxed : box[m] = "unread"}
                 /\ todo' = [todo EXCEPT ![p] = batch]
                 /\ Goto(p, "fetch")
          ELSE Goto(p, "check") /\ UNCHANGED todo
  /\ UNCHANGED <<mailbox, stream, keys, skipped, broken, cur>>

(* IMAP's FETCH of RFC822 marks a message as read (the mailbox is selected *)
(* with readonly=False); Gmail's get does not.                             *)
AfterFetch(batch) ==
  IF provider = "imap" THEN [m \in Boxed |-> IF m \in batch THEN "read" ELSE box[m]] ELSE box

(* ... and fetches each; one that cannot be fetched or parsed is left out. *)
Fetch(p) ==
  /\ pc[p] = "fetch"
  /\ \E unfetched \in {{}} \cup {{m} : m \in todo[p]} :
       /\ Charge(IF unfetched = {} THEN "ok" ELSE "torn")
       /\ box' = AfterFetch(todo[p])
       /\ todo' = [todo EXCEPT ![p] = @ \ unfetched]
       /\ broken' = broken \cup unfetched
  /\ Goto(p, "next")
  /\ UNCHANGED <<provider, push, stream, keys, skipped, cur>>

PollComplete(p) ==
  /\ pc[p] = "next" /\ todo[p] = {}
  /\ Goto(p, "check")
  /\ UNCHANGED <<mailbox, stream, keys, skipped, broken, todo, cur, mishaps>>

(* run_poller takes the next mail; should_process: EXISTS.  A duplicate is *)
(* passed over and not marked as read.                                     *)
TakeNextMarking(p) ==
  /\ pc[p] = "next"
  /\ \E m \in todo[p] :
       /\ todo' = [todo EXCEPT ![p] = @ \ {m}]
       /\ cur' = [cur EXCEPT ![p] = m]
       /\ Goto(p, IF m \in seen THEN "mark" ELSE "admit")
  /\ UNCHANGED <<mailbox, stream, keys, skipped, broken, mishaps>>
TakeNextStopping(p) ==
  /\ pc[p] = "next"
  /\ \E m \in todo[p] :
       /\ todo' = [todo EXCEPT ![p] = IF m \in seen THEN {} ELSE @ \ {m}]
       /\ cur' = [cur EXCEPT ![p] = IF m \in seen THEN NoMail ELSE m]
       /\ Goto(p, IF m \in seen THEN "next" ELSE "admit")
  /\ UNCHANGED <<mailbox, stream, keys, skipped, broken, mishaps>>
TakeNext(p) ==
  /\ pc[p] = "next"
  /\ \E m \in todo[p], call \in {"ok", "lost"} :
       /\ Charge(call)
       /\ IF call = "ok"
          THEN /\ todo' = [todo EXCEPT ![p] = @ \ {m}]
               /\ cur' = [cur EXCEPT ![p] = IF m \in seen THEN NoMail ELSE m]
               /\ Goto(p, IF m \in seen THEN "next" ELSE "admit")
               /\ UNCHANGED broken
          ELSE Abandon(p, "check")
  /\ UNCHANGED <<mailbox, stream, keys, skipped>>

(* ingest_email: a post is answered at once when EXISTS finds the key.     *)
Receive(p) ==
  /\ pc[p] = "listen"
  /\ \E m \in Pushed, call \in {"ok", "lost"} :
       /\ push[m] = "due"
       /\ Charge(call)
       /\ IF call = "ok"
          THEN /\ cur' = [cur EXCEPT ![p] = m]
               /\ Goto(p, IF m \in seen THEN "answer" ELSE "admit")
          ELSE UNCHANGED <<pc, cur>>
  /\ UNCHANGED <<mailbox, stream, keys, skipped, broken, todo>>

(* A poller skips what the pre-filter is sure about; the webhook nothing.  *)
Skips(p, m) == p \in Poller /\ m \in Junk

(* should_process: SETEX, whatever has happened since EXISTS.              *)
Admit(p) ==
  /\ pc[p] = "admit"
  /\ \E call \in Call :
       LET m == cur[p] IN
       /\ Charge(call)
       /\ IF Applied(call)
          THEN /\ seen' = seen \cup {m}
               /\ IF m \in seen
                  THEN overtaken' = [overtaken EXCEPT ![m] = @ + 1] /\ UNCHANGED lives
                  ELSE lives' = [lives EXCEPT ![m] = @ + 1] /\ UNCHANGED overtaken
          ELSE UNCHANGED keys
       /\ IF call # "ok"
          THEN Abandon(p, Home(p)) /\ UNCHANGED skipped
          ELSE /\ IF Skips(p, m)
                  THEN skipped' = skipped \cup {m} /\ Goto(p, "mark")
                  ELSE UNCHANGED skipped /\ Goto(p, "publish")
               /\ UNCHANGED <<todo, cur, broken>>
  /\ UNCHANGED <<mailbox, stream>>

(* publish_event: XADD to the Manager's task stream.                       *)
PublishAgain(p) ==
  /\ pc[p] = "publish"
  /\ \E call \in Call :
       LET m == cur[p] IN
       /\ Charge(call)
       /\ IF Applied(call)
          THEN /\ length' = length + 1 /\ caughtUp' = FALSE
               /\ published' = [published EXCEPT ![m] = @ + 1]
          ELSE UNCHANGED stream
       /\ IF call = "ok" THEN Goto(p, IF p = Hook THEN "answer" ELSE "mark") ELSE UNCHANGED pc
  /\ UNCHANGED <<mailbox, keys, skipped, broken, todo, cur>>
Publish(p) ==
  /\ pc[p] = "publish"
  /\ \E call \in Call :
       LET m == cur[p] IN
       /\ Charge(call)
       /\ IF Applied(call)
          THEN /\ length' = length + 1 /\ caughtUp' = FALSE
               /\ published' = [published EXCEPT ![m] = @ + 1]
          ELSE UNCHANGED stream
       /\ IF call = "ok"
          THEN Goto(p, IF p = Hook THEN "answer" ELSE "mark") /\ UNCHANGED <<todo, cur, broken>>
          ELSE Abandon(p, Home(p))
  /\ UNCHANGED <<mailbox, keys, skipped>>

(* mark_as_read; its exceptions are swallowed.                             *)
MarkRead(p) ==
  /\ pc[p] = "mark"
  /\ \E call \in Call :
       /\ Charge(call)
       /\ box' = IF Applied(call) THEN [box EXCEPT ![cur[p]] = "read"] ELSE box
  /\ Goto(p, "next")
  /\ cur' = [cur EXCEPT ![p] = NoMail]
  /\ UNCHANGED <<provider, push, stream, keys, skipped, broken, todo>>

(* The webhook's response; the provider repeats a post that got none.      *)
Answer(p) ==
  /\ pc[p] = "answer"
  /\ \E call \in {"ok", "lost"} :
       /\ Charge(call)
       /\ push' = IF call = "ok" THEN [push EXCEPT ![cur[p]] = "answered"] ELSE push
  /\ Goto(p, "listen")
  /\ cur' = [cur EXCEPT ![p] = NoMail]
  /\ UNCHANGED <<provider, box, stream, keys, skipped, broken, todo>>

-----------------------------------------------------------------------------
Crash(p) ==
  /\ pc[p] # "down"
  /\ mishaps < MaxMishaps
  /\ mishaps' = mishaps + 1
  /\ Abandon(p, "down")
  /\ UNCHANGED <<mailbox, stream, keys, skipped>>

(* docker-compose.yml: restart: unless-stopped.                            *)
Restart(p) ==
  /\ pc[p] = "down"
  /\ Goto(p, Home(p))
  /\ UNCHANGED <<mailbox, stream, keys, skipped, broken, todo, cur, mishaps>>

Step(p) ==
  \/ CheckBackpressure(p) \/ Search(p) \/ Fetch(p) \/ PollComplete(p) \/ TakeNext(p)
  \/ Receive(p) \/ Admit(p) \/ Publish(p) \/ MarkRead(p) \/ Answer(p)

Next ==
  \/ \E m \in Mail : Arrive(m) \/ Post(m) \/ Expire(m)
  \/ CatchUp
  \/ \E p \in Process : Step(p) \/ Crash(p) \/ Restart(p)

(* The processes loop and are restarted, keys expire, and the Manager gets *)
(* through its tasks.                                                      *)
Fairness ==
  /\ \A p \in Process : WF_vars(Step(p)) /\ WF_vars(Restart(p))
  /\ \A m \in Mail : WF_vars(Expire(m))
  /\ WF_vars(CatchUp)

Spec == Init /\ [][Next]_vars /\ Fairness

-----------------------------------------------------------------------------
(* Types; who has a mail in hand, and that the stream's length is what was *)
(* published.                                                              *)
TypeOK ==
  /\ provider \in {"gmail", "imap"}
  /\ box \in [Boxed -> {"away", "unread", "read"}]
  /\ push \in [Pushed -> {"none", "due", "answered"}]
  /\ seen \subseteq Mail /\ skipped \subseteq Junk /\ broken \subseteq Mail
  /\ length \in Nat /\ caughtUp \in BOOLEAN
  /\ published \in [Mail -> Nat] /\ lives \in [Mail -> Nat] /\ overtaken \in [Mail -> Nat]
  /\ pc \in [Process -> Location]
  /\ todo \in [Process -> SUBSET Boxed]
  /\ cur \in [Process -> Mail \cup {NoMail}]
  /\ \A p \in Process :
       /\ cur[p] # NoMail <=> pc[p] \in {"admit", "publish", "mark", "answer"}
       /\ pc[p] \in {"check", "search", "fetch", "next", "mark"} => p \in Poller
       /\ pc[p] \in {"listen", "answer"} => p = Hook
  /\ mishaps \in 0 .. MaxMishaps

(* A mail is published once in the life of its suppression key, and once   *)
(* more for each process that had asked EXISTS before the key was set.     *)
OnePerLife == \A m \in Mail : published[m] <= lives[m] + overtaken[m]

(* "Mark as read after successful publish": with Gmail a mail that is read *)
(* was published, or skipped by the pre-filter, so that a mail of which    *)
(* neither is true will be found again.                                    *)
ReadIsHandled ==
  provider = "gmail" => \A m \in Boxed : box[m] = "read" => Handled(m)

(* A mail nobody will find again - IMAP has marked it, or the webhook has  *)
(* answered its post, perhaps as a duplicate - was published or skipped,   *)
(* or a process has it in hand, or had when a call raised or it crashed.   *)
LossPaidFor ==
  \A m \in Mail :
    \/ m \in Boxed /\ box[m] = "read"
    \/ m \in Pushed /\ push[m] = "answered"
    => Handled(m) \/ m \in broken \/ \E p \in Process : m \in Held(p)

(* Mail in the mailbox is published or skipped in the end, failures and    *)
(* all, as long as the task stream is below the limit; an IMAP mailbox     *)
(* forgets what a process held when it failed.                             *)
UnreadIsHandled ==
  \A m \in Boxed :
    box[m] = "unread" ~> Handled(m) \/ length >= MaxPending \/ (provider = "imap" /\ m \in broken)

-----------------------------------------------------------------------------
(* inbox_poller.py: "Backpressure: skip poll if manager stream has too     *)
(* many pending messages".  The Manager deals with every message, so that  *)
(* a poll that is skipped is made up for and unread mail is handled.       *)
BackpressurePasses == \A m \in Boxed : box[m] = "unread" ~> Handled(m)
=============================================================================
