-------------------------- MODULE InboxPollerProofs --------------------------
(***************************************************************************)
(* What the two ingresses guarantee, for any number of pollers and mails   *)
(* and any number of failures.                                             *)
(*                                                                         *)
(* Loss: once its key is set, a mail is settled - handled, about to be     *)
(* published, or broken - and stays so (Settled).  A poller marks what is  *)
(* handled, and passes over what has a key.                                *)
(* Duplicates: a publication is preceded by a SETEX, which a process that  *)
(* is about to publish has not used up yet (Ready).                        *)
(***************************************************************************)
EXTENDS InboxPoller, FiniteSetTheorems, TLAPS

Ready(m) == {p \in Process : pc[p] = "publish" /\ cur[p] = m}

(* A mail that will not be lost without a failure in between.              *)
Settled(m) == Handled(m) \/ m \in broken \/ Ready(m) # {}

Admission ==
  /\ \A m \in seen : Settled(m)
  /\ \A p \in Process : /\ pc[p] = "mark" => cur[p] \in Boxed /\ Handled(cur[p])
                        /\ pc[p] = "answer" => cur[p] \in Pushed /\ Settled(cur[p])
                        /\ pc[p] \in {"admit", "publish"} => cur[p] \in (IF p = Hook THEN Pushed ELSE Boxed)

(* What the mailbox and the webhook have let go.                           *)
LetGo ==
  /\ provider = "gmail" => \A m \in Boxed : box[m] = "read" => Handled(m)
  /\ \A m \in Boxed : box[m] = "read" => Settled(m) \/ \E p \in Process : m \in Held(p)
  /\ \A m \in Pushed : push[m] = "answered" => Settled(m)

(* Each publication, done or about to be, has used a SETEX of its own.     *)
Owed == \A m \in Mail : published[m] + Cardinality(Ready(m)) <= lives[m] + overtaken[m]

(* A batch is fetched with empty hands.                                    *)
EmptyHanded == \A p \in Process : pc[p] \in {"check", "search", "down"} => todo[p] = {}

IInv == TypeOK /\ EmptyHanded /\ Admission /\ LetGo

USE InboxAssumption DEF Mail, Process

-----------------------------------------------------------------------------
LEMMA InitTypes == Init => TypeOK
BY DEF Init, TypeOK, Location, Home

(* Every step keeps the types.                                             *)
LEMMA StepTypes ==
  ASSUME TypeOK, [Next]_vars
  PROVE  TypeOK'
<1>. USE DEF TypeOK, Location, Charge, Applied, Goto
<1>1. CASE UNCHANGED vars
  BY <1>1 DEF vars, mailbox, stream, keys, local
<1>2. ASSUME NEW m \in Mail, Arrive(m)
      PROVE  TypeOK'
  BY <1>2 DEF Arrive, stream, keys, local
<1>3. ASSUME NEW m \in Mail, Post(m)
      PROVE  TypeOK'
  BY <1>3 DEF Post, stream, keys, local
<1>4. ASSUME NEW m \in Mail, Expire(m)
      PROVE  TypeOK'
  BY <1>4 DEF Expire, mailbox, stream, local
<1>5. CASE CatchUp
  BY <1>5 DEF CatchUp, mailbox, keys, local
<1>6. ASSUME NEW p \in Process, CheckBackpressure(p)
      PROVE  TypeOK'
  BY <1>6 DEF CheckBackpressure, mailbox, stream, keys
<1>7. ASSUME NEW p \in Process, Search(p)
      PROVE  TypeOK'
  BY <1>7 DEF Search, mailbox, stream, keys
<1>8. ASSUME NEW p \in Process, Fetch(p)
      PROVE  TypeOK'
  BY <1>8 DEF Fetch, AfterFetch, stream, keys
<1>9. ASSUME NEW p \in Process, PollComplete(p)
      PROVE  TypeOK'
  BY <1>9 DEF PollComplete, mailbox, stream, keys
<1>10. ASSUME NEW p \in Process, TakeNext(p)
       PROVE  TypeOK'
  BY <1>10 DEF TakeNext, Abandon, Held, mailbox, stream, keys
<1>11. ASSUME NEW p \in Process, Receive(p)
       PROVE  TypeOK'
  BY <1>11 DEF Receive, mailbox, stream, keys
<1>12. ASSUME NEW p \in Process, Admit(p)
       PROVE  TypeOK'
  BY <1>12 DEF Admit, Skips, Abandon, Held, Home, mailbox, stream, keys
<1>13. ASSUME NEW p \in Process, Publish(p)
       PROVE  TypeOK'
  <2>1. PICK call \in Call :
          /\ Charge(call)
          /\ IF Applied(call)
             THEN /\ length' = length + 1 /\ caughtUp' = FALSE
                  /\ published' = [published EXCEPT ![cur[p]] = @ + 1]
             ELSE UNCHANGED stream
          /\ IF call = "ok"
             THEN Goto(p, IF p = Hook THEN "answer" ELSE "mark") /\ UNCHANGED <<todo, cur, broken>>
             ELSE Abandon(p, Home(p))
    BY <1>13 DEF Publish
  <2>2. length' \in Nat /\ caughtUp' \in BOOLEAN /\ published' \in [Mail -> Nat]
    <3>1. CASE Applied(call)
      <4>1. /\ length' = length + 1 /\ caughtUp' = FALSE
            /\ published' = [published EXCEPT ![cur[p]] = @ + 1]
        BY <2>1, <3>1
      <4>2. cur[p] \in Mail
        BY <1>13 DEF Publish
      <4>3. published' \in [Mail -> Nat]
        BY <4>1, <4>2
      <4>4. length' \in Nat
        BY <4>1
      <4>5. caughtUp' \in BOOLEAN
        BY <4>1
      <4>. QED BY <4>3, <4>4, <4>5
    <3>2. CASE ~Applied(call)
      BY <2>1, <3>2 DEF stream
    <3>. QED BY <3>1, <3>2
  <2>3. mishaps' \in 0 .. MaxMishaps
    BY <2>1
  <2>4. pc[p] = "publish" /\ UNCHANGED <<provider, box, push, seen, lives, overtaken, skipped>>
    BY <1>13 DEF Publish, mailbox, keys
  <2>5. CASE call = "ok"
    BY <2>1, <2>2, <2>3, <2>4, <2>5
  <2>6. CASE call # "ok"
    BY <2>1, <2>2, <2>3, <2>4, <2>6 DEF Abandon, Held, Home
  <2>. QED BY <2>5, <2>6
<1>14. ASSUME NEW p \in Process, MarkRead(p)
       PROVE  TypeOK'
  <2>1. PICK call \in Call : /\ Charge(call)
                             /\ box' = IF Applied(call) THEN [box EXCEPT ![cur[p]] = "read"] ELSE box
    BY <1>14 DEF MarkRead
  <2>2. box' \in [Boxed -> {"away", "unread", "read"}]
    BY <2>1
  <2>3. mishaps' \in 0 .. MaxMishaps
    BY <2>1
  <2>4. /\ pc[p] = "mark" /\ pc' = [pc EXCEPT ![p] = "next"]
        /\ cur' = [cur EXCEPT ![p] = NoMail]
        /\ UNCHANGED <<provider, push, seen, lives, overtaken, stream, skipped, broken, todo>>
    BY <1>14 DEF MarkRead, keys
  <2>. QED BY <2>2, <2>3, <2>4 DEF stream
<1>15. ASSUME NEW p \in Process, Answer(p)
       PROVE  TypeOK'
  <2>1. PICK call \in {"ok", "lost"} : /\ Charge(call)
                                       /\ push' = IF call = "ok" THEN [push EXCEPT ![cur[p]] = "answered"] ELSE push
    BY <1>15 DEF Answer
  <2>2. push' \in [Pushed -> {"none", "due", "answered"}]
    BY <2>1
  <2>3. mishaps' \in 0 .. MaxMishaps
    BY <2>1
  <2>4. /\ pc[p] = "answer" /\ pc' = [pc EXCEPT ![p] = "listen"]
        /\ cur' = [cur EXCEPT ![p] = NoMail]
        /\ UNCHANGED <<provider, box, seen, lives, overtaken, stream, skipped, broken, todo>>
    BY <1>15 DEF Answer, keys
  <2>. QED BY <2>2, <2>3, <2>4 DEF stream
<1>16. ASSUME NEW p \in Process, Crash(p)
       PROVE  TypeOK'
  BY <1>16 DEF Crash, Abandon, Held, mailbox, stream, keys
<1>17. ASSUME NEW p \in Process, Restart(p)
       PROVE  TypeOK'
  BY <1>17 DEF Restart, Home, mailbox, stream, keys
<1>. QED
  BY <1>1, <1>2, <1>3, <1>4, <1>5, <1>6, <1>7, <1>8, <1>9, <1>10, <1>11, <1>12, <1>13, <1>14,
     <1>15, <1>16, <1>17 DEF Next, Step

-----------------------------------------------------------------------------
(* What every step does to the ledgers: a handled mail stays handled, a    *)
(* broken one broken.                                                      *)
LEMMA LedgersGrow ==
  ASSUME TypeOK, [Next]_vars
  PROVE  /\ broken \subseteq broken' /\ skipped \subseteq skipped'
         /\ \A m \in Mail : Handled(m) => Handled(m)'
<1>. USE DEF TypeOK, Handled
<1>1. ASSUME NEW p \in Process, Publish(p)
      PROVE  /\ broken \subseteq broken' /\ skipped \subseteq skipped'
             /\ \A m \in Mail : published[m] > 0 => published'[m] > 0
  <2>1. cur[p] \in Mail
    BY <1>1 DEF Publish
  <2>2. \/ published' = [published EXCEPT ![cur[p]] = @ + 1]
        \/ published' = published
    BY <1>1 DEF Publish, stream
  <2>3. \A m \in Mail : published[m] > 0 => published'[m] > 0
    BY <2>1, <2>2
  <2>4. broken \subseteq broken' /\ skipped \subseteq skipped'
    BY <1>1 DEF Publish, Abandon
  <2>. QED BY <2>3, <2>4
<1>2. ASSUME NEW p \in Process, Fetch(p) \/ TakeNext(p) \/ Admit(p) \/ Crash(p)
      PROVE  broken \subseteq broken' /\ skipped \subseteq skipped' /\ published' = published
  BY <1>2 DEF Fetch, AfterFetch, TakeNext, Admit, Skips, Crash, Abandon, stream
<1>3. ASSUME NEW p \in Process,
             \/ CheckBackpressure(p) \/ Search(p) \/ PollComplete(p) \/ Receive(p)
             \/ MarkRead(p) \/ Answer(p) \/ Restart(p)
      PROVE  broken = broken' /\ skipped = skipped' /\ published' = published
  BY <1>3 DEF CheckBackpressure, Search, PollComplete, Receive, MarkRead, Answer, Restart, stream
<1>4. ASSUME \/ \E m \in Mail : Arrive(m) \/ Post(m) \/ Expire(m)
             \/ CatchUp
             \/ UNCHANGED vars
      PROVE  broken = broken' /\ skipped = skipped' /\ published' = published
  BY <1>4 DEF Arrive, Post, Expire, CatchUp, vars, stream
<1>. QED
  <2>1. CASE \E p \in Process : Publish(p)
    BY <1>1, <2>1, SMTT(30)
  <2>2. CASE \E p \in Process : Fetch(p) \/ TakeNext(p) \/ Admit(p) \/ Crash(p)
    BY <1>2, <2>2
  <2>3. CASE \E p \in Process : \/ CheckBackpressure(p) \/ Search(p) \/ PollComplete(p) \/ Receive(p)
                                \/ MarkRead(p) \/ Answer(p) \/ Restart(p)
    BY <1>3, <2>3
  <2>. QED BY <1>4, <2>1, <2>2, <2>3 DEF Next, Step

(* A process that is about to publish does so, or the mail is broken.      *)
LEMMA PublisherFate ==
  ASSUME TypeOK, [Next]_vars, NEW q \in Process, pc[q] = "publish"
  PROVE  \/ pc'[q] = "publish" /\ cur'[q] = cur[q]
         \/ cur[q] \in broken'
         \/ published'[cur[q]] > 0
<1>. USE DEF TypeOK, Goto
<1>1. cur[q] \in Mail /\ cur[q] # NoMail
  OBVIOUS
<1>2. CASE Publish(q)
  <2>1. PICK call \in Call :
          /\ Applied(call) => published' = [published EXCEPT ![cur[q]] = @ + 1]
          /\ call # "ok" => broken' = broken \cup Held(q)
    BY <1>2 DEF Publish, Abandon
  <2>2. CASE call = "ok"
    <3>1. published' = [published EXCEPT ![cur[q]] = @ + 1]
      BY <2>1, <2>2 DEF Applied
    <3>2. published'[cur[q]] = published[cur[q]] + 1 /\ published[cur[q]] \in Nat
      BY <1>1, <3>1
    <3>. QED BY <3>2
  <2>3. CASE call # "ok"
    BY <1>1, <2>1, <2>3 DEF Held
  <2>. QED BY <2>2, <2>3
<1>3. CASE Crash(q)
  BY <1>1, <1>3 DEF Crash, Abandon, Held
<1>4. ASSUME NEW p \in Process, p # q,
             Publish(p) \/ Fetch(p) \/ TakeNext(p) \/ Admit(p) \/ Crash(p)
      PROVE  pc'[q] = pc[q] /\ cur'[q] = cur[q]
  BY <1>4 DEF Publish, Fetch, AfterFetch, TakeNext, Admit, Skips, Crash, Abandon
<1>5. ASSUME NEW p \in Process, p # q,
             \/ CheckBackpressure(p) \/ Search(p) \/ PollComplete(p) \/ Receive(p)
             \/ MarkRead(p) \/ Answer(p) \/ Restart(p)
      PROVE  pc'[q] = pc[q] /\ cur'[q] = cur[q]
  BY <1>5 DEF CheckBackpressure, Search, PollComplete, Receive, MarkRead, Answer, Restart
<1>6. ASSUME \/ \E m \in Mail : Arrive(m) \/ Post(m) \/ Expire(m)
             \/ CatchUp
             \/ UNCHANGED vars
      PROVE  pc' = pc /\ cur' = cur
  BY <1>6 DEF Arrive, Post, Expire, CatchUp, vars, local
<1>7. ASSUME Step(q) \/ Restart(q)
      PROVE  Publish(q)
  BY <1>7 DEF Step, CheckBackpressure, Search, Fetch, AfterFetch, PollComplete, TakeNext, Receive, Admit, Skips,
              MarkRead, Answer, Restart
<1>. QED BY <1>2, <1>3, <1>4, <1>5, <1>6, <1>7 DEF Next, Step

(* Settled is for ever.                                                    *)
LEMMA SettledStays ==
  ASSUME TypeOK, [Next]_vars, NEW m \in Mail, Settled(m)
  PROVE  Settled(m)'
<1>1. CASE Handled(m) \/ m \in broken
  BY <1>1, LedgersGrow DEF Settled
<1>2. CASE Ready(m) # {}
  <2>1. PICK q \in Process : pc[q] = "publish" /\ cur[q] = m
    BY <1>2 DEF Ready
  <2>. QED BY <2>1, PublisherFate DEF Settled, Handled, Ready
<1>. QED BY <1>1, <1>2 DEF Settled

-----------------------------------------------------------------------------
LEMMA InitIInv == Init => IInv
BY InitTypes DEF Init, IInv, EmptyHanded, Admission, LetGo, TypeOK, Home

(* A key is set by a process that goes on to publish the mail, skips it or *)
(* breaks; nobody gets to mark or to answer without.                       *)
LEMMA StepAdmission ==
  ASSUME TypeOK, Admission, [Next]_vars, TypeOK'
  PROVE  Admission'
<1>. DEFINE Sound(p) ==
       /\ pc[p] = "mark" => cur[p] \in Boxed /\ Handled(cur[p])
       /\ pc[p] = "answer" => cur[p] \in Pushed /\ Settled(cur[p])
       /\ pc[p] \in {"admit", "publish"} => cur[p] \in (IF p = Hook THEN Pushed ELSE Boxed)
<1>1. ASSUME NEW p \in Process, pc'[p] = pc[p], cur'[p] = cur[p]
      PROVE  Sound(p)'
  <2>1. CASE pc[p] = "mark"
    BY <1>1, <2>1, LedgersGrow DEF Admission
  <2>2. CASE pc[p] = "answer"
    BY <1>1, <2>2, SettledStays DEF Admission
  <2>3. CASE pc[p] \notin {"mark", "answer"}
    BY <1>1, <2>3 DEF Admission
  <2>. QED BY <2>1, <2>2, <2>3
<1>2. ASSUME seen' \subseteq seen
      PROVE  \A m \in seen' : Settled(m)'
  BY <1>2, SettledStays DEF Admission, TypeOK
<1>3. ASSUME NEW p \in Process, Step(p) \/ Crash(p) \/ Restart(p)
      PROVE  \A q \in Process : q # p => pc'[q] = pc[q] /\ cur'[q] = cur[q]
  BY <1>3 DEF TypeOK, Step, CheckBackpressure, Search, Fetch, AfterFetch, PollComplete, TakeNext, Receive, Admit, Skips,
              Publish, MarkRead, Answer, Crash, Restart, Abandon, Goto
<1>4. ASSUME NEW p \in Process, Admit(p)
      PROVE  Sound(p)' /\ \A m \in seen' : Settled(m)'
  <2>1. PICK call \in Call :
          /\ IF Applied(call) THEN seen' = seen \cup {cur[p]} ELSE seen' = seen
          /\ call # "ok" => Abandon(p, Home(p))
          /\ call = "ok" => /\ IF p \in Poller /\ cur[p] \in Junk
                               THEN skipped' = skipped \cup {cur[p]} /\ Goto(p, "mark")
                               ELSE Goto(p, "publish")
                            /\ cur' = cur
    BY <1>4 DEF Admit, Skips, keys
  <2>2. PICK m \in Mail : pc[p] = "admit" /\ cur[p] = m /\ m # NoMail
    BY <1>4 DEF Admit, Skips, Admission, TypeOK
  <2>3. m \in (IF p = Hook THEN Pushed ELSE Boxed)
    BY <2>2 DEF Admission
  <2>4. Sound(p)' /\ Settled(m)'
    <3>1. CASE call # "ok"
      <4>1. m \in broken'
        BY <2>1, <2>2, <3>1 DEF Abandon, Held
      <4>2. pc'[p] \in {"check", "listen"}
        BY <2>1, <2>2, <3>1 DEF Abandon, Goto, Home, TypeOK
      <4>. QED BY <4>1, <4>2 DEF Settled
    <3>2. CASE call = "ok" /\ p \in Poller /\ cur[p] \in Junk
      BY <2>1, <2>2, <2>3, <3>2 DEF Goto, Settled, Handled, TypeOK
    <3>3. CASE call = "ok" /\ ~(p \in Poller /\ cur[p] \in Junk)
      BY <2>1, <2>2, <2>3, <3>3 DEF Goto, Settled, Ready, TypeOK
    <3>. QED BY <3>1, <3>2, <3>3
  <2>5. \A k \in seen : Settled(k)'
    BY SettledStays DEF Admission, TypeOK
  <2>. QED BY <2>1, <2>2, <2>4, <2>5
<1>5. ASSUME NEW p \in Process, Publish(p)
      PROVE  Sound(p)'
  <2>1. PICK call \in Call :
          /\ Applied(call) => published' = [published EXCEPT ![cur[p]] = @ + 1]
          /\ call = "ok" => Goto(p, IF p = Hook THEN "answer" ELSE "mark") /\ cur' = cur
          /\ call # "ok" => Goto(p, Home(p))
    BY <1>5 DEF Publish, Abandon
  <2>2. cur[p] \in (IF p = Hook THEN Pushed ELSE Boxed)
    BY <1>5 DEF Publish, Admission
  <2>3. CASE call = "ok"
    <3>1. published' = [published EXCEPT ![cur[p]] = @ + 1]
      BY <2>1, <2>3 DEF Applied
    <3>2. published'[cur[p]] = published[cur[p]] + 1 /\ published[cur[p]] \in Nat
      BY <2>2, <3>1 DEF TypeOK
    <3>3. Handled(cur[p])'
      BY <2>1, <2>3, <3>2 DEF Handled
    <3>. QED BY <2>1, <2>2, <2>3, <3>3 DEF Goto, TypeOK, Settled
  <2>4. CASE call # "ok"
    BY <2>1, <2>4 DEF Goto, Home, TypeOK
  <2>. QED BY <2>3, <2>4
<1>6. ASSUME NEW p \in Process, Receive(p)
      PROVE  Sound(p)'
  <2>1. PICK m \in Pushed, call \in {"ok", "lost"} :
          IF call = "ok" THEN /\ cur' = [cur EXCEPT ![p] = m]
                              /\ Goto(p, IF m \in seen THEN "answer" ELSE "admit")
                         ELSE UNCHANGED <<pc, cur>>
    BY <1>6 DEF Receive
  <2>2. CASE call = "ok"
    <3>1. cur'[p] = m /\ pc'[p] = IF m \in seen THEN "answer" ELSE "admit"
      BY <2>1, <2>2 DEF Goto, TypeOK
    <3>2. m \in seen => Settled(m)'
      BY SettledStays DEF Admission, TypeOK
    <3>3. p = Hook
      BY <1>6 DEF Receive, TypeOK
    <3>. QED BY <3>1, <3>2, <3>3
  <2>3. CASE call # "ok"
    BY <1>1, <2>1, <2>3
  <2>. QED BY <2>2, <2>3
<1>7. ASSUME NEW p \in Process, TakeNext(p)
      PROVE  Sound(p)'
  BY <1>7 DEF TakeNext, Abandon, Goto, TypeOK
<1>8. ASSUME NEW p \in Process,
             \/ CheckBackpressure(p) \/ Search(p) \/ Fetch(p) \/ PollComplete(p)
             \/ MarkRead(p) \/ Answer(p) \/ Crash(p) \/ Restart(p)
      PROVE  Sound(p)'
  BY <1>8 DEF CheckBackpressure, Search, Fetch, AfterFetch, PollComplete, MarkRead, Answer, Crash, Restart,
              Abandon, Home, Goto, TypeOK
<1>9. ASSUME NEW p \in Process, (Step(p) /\ ~Admit(p)) \/ Crash(p) \/ Restart(p)
      PROVE  seen' = seen
  BY <1>9 DEF Step, CheckBackpressure, Search, Fetch, AfterFetch, PollComplete, TakeNext, Receive,
              Publish, MarkRead, Answer, Crash, Restart, keys
<1>10. ASSUME \/ \E m \in Mail : Arrive(m) \/ Post(m) \/ Expire(m)
              \/ CatchUp
              \/ UNCHANGED vars
       PROVE  pc' = pc /\ cur' = cur /\ seen' \subseteq seen
  BY <1>10 DEF Arrive, Post, Expire, CatchUp, vars, local, keys
<1>11. CASE \E p \in Process : Step(p) \/ Crash(p) \/ Restart(p)
  <2>1. PICK p \in Process : Step(p) \/ Crash(p) \/ Restart(p)
    BY <1>11
  <2>2. \A q \in Process : q # p => Sound(q)'
    BY <1>1, <1>3, <2>1
  <2>3. Sound(p)' /\ \A m \in seen' : Settled(m)'
    BY <1>2, <1>4, <1>5, <1>6, <1>7, <1>8, <1>9, <2>1 DEF Step
  <2>4. \A q \in Process : Sound(q)'
    BY <2>2, <2>3
  <2>. QED BY <2>3, <2>4 DEF Admission
<1>12. CASE \/ \E m \in Mail : Arrive(m) \/ Post(m) \/ Expire(m)
            \/ CatchUp
            \/ UNCHANGED vars
  <2>1. \A q \in Process : Sound(q)'
    BY <1>1, <1>10, <1>12
  <2>. QED BY <2>1, <1>2, <1>10, <1>12 DEF Admission
<1>. QED BY <1>11, <1>12 DEF Next

LEMMA StepEmptyHanded ==
  ASSUME TypeOK, EmptyHanded, [Next]_vars
  PROVE  EmptyHanded'
<1>. USE DEF TypeOK, EmptyHanded, Goto
<1>1. ASSUME NEW p \in Process,
             \/ Search(p) \/ Fetch(p) \/ PollComplete(p) \/ TakeNext(p)
             \/ Admit(p) \/ Publish(p) \/ Crash(p)
      PROVE  EmptyHanded'
  BY <1>1 DEF Search, Fetch, AfterFetch, PollComplete, TakeNext, Admit, Skips, Publish, Crash, Abandon
<1>2. ASSUME NEW p \in Process,
             CheckBackpressure(p) \/ Receive(p) \/ MarkRead(p) \/ Answer(p) \/ Restart(p)
      PROVE  EmptyHanded'
  BY <1>2 DEF CheckBackpressure, Receive, MarkRead, Answer, Restart, Home
<1>3. ASSUME \/ \E m \in Mail : Arrive(m) \/ Post(m) \/ Expire(m)
             \/ CatchUp
             \/ UNCHANGED vars
      PROVE  EmptyHanded'
  BY <1>3 DEF Arrive, Post, Expire, CatchUp, vars, local
<1>. QED BY <1>1, <1>2, <1>3 DEF Next, Step

(* What a process holds it goes on to hold, unless it settles it.          *)
LEMMA HeldFate ==
  ASSUME TypeOK, EmptyHanded, Admission, [Next]_vars,
         NEW m \in Mail, NEW q \in Process, m \in Held(q)
  PROVE  m \in Held(q)' \/ Settled(m)'
<1>. USE DEF TypeOK, Held, Goto
<1>1. m # NoMail
  OBVIOUS
<1>2. ASSUME todo'[q] = todo[q], cur'[q] = cur[q]
      PROVE  m \in Held(q)'
  BY <1>2
<1>3. ASSUME NEW p \in Process, p # q, Step(p) \/ Crash(p) \/ Restart(p)
      PROVE  todo'[q] = todo[q] /\ cur'[q] = cur[q]
  BY <1>3 DEF Step, CheckBackpressure, Search, Fetch, AfterFetch, PollComplete, TakeNext, Receive, Admit, Skips,
              Publish, MarkRead, Answer, Crash, Restart, Abandon
<1>4. ASSUME Abandon(q, "check") \/ Abandon(q, "down") \/ Abandon(q, Home(q))
      PROVE  Settled(m)'
  BY <1>4 DEF Abandon, Settled
<1>5. CASE Crash(q)
  BY <1>4, <1>5 DEF Crash
<1>6. CASE Publish(q)
  <2>1. UNCHANGED <<todo, cur>> \/ Abandon(q, Home(q))
    BY <1>6 DEF Publish
  <2>. QED BY <1>2, <1>4, <2>1
<1>7. CASE Admit(q)
  <2>1. UNCHANGED <<todo, cur>> \/ Abandon(q, Home(q))
    BY <1>7 DEF Admit, Skips
  <2>. QED BY <1>2, <1>4, <2>1
<1>8. CASE TakeNext(q)
  <2>1. PICK k \in todo[q] :
          \/ /\ todo' = [todo EXCEPT ![q] = @ \ {k}]
             /\ cur' = [cur EXCEPT ![q] = IF k \in seen THEN NoMail ELSE k]
          \/ Abandon(q, "check")
    BY <1>8 DEF TakeNext
  <2>2. CASE Abandon(q, "check")
    BY <1>4, <2>2
  <2>3. CASE ~Abandon(q, "check")
    <3>1. m \in todo[q]
      BY <1>8 DEF TakeNext
    <3>2. m = k /\ m \in seen => Settled(m)'
      BY SettledStays DEF Admission
    <3>. QED BY <1>1, <2>1, <2>3, <3>1, <3>2
  <2>. QED BY <2>2, <2>3
<1>9. CASE Fetch(q)
  BY <1>9 DEF Fetch, AfterFetch, Settled
<1>10. CASE Search(q)
  BY <1>1, <1>10 DEF Search, EmptyHanded
<1>11. CASE MarkRead(q) \/ Answer(q)
  <2>1. todo'[q] = todo[q]
    BY <1>11 DEF MarkRead, Answer
  <2>2. m = cur[q] => Settled(m)
    BY <1>11 DEF MarkRead, Answer, Admission, Settled
  <2>. QED BY <2>1, <2>2, SettledStays
<1>12. CASE Receive(q)
  BY <1>1, <1>12 DEF Receive
<1>13. CASE CheckBackpressure(q) \/ PollComplete(q) \/ Restart(q)
  BY <1>2, <1>13 DEF CheckBackpressure, PollComplete, Restart
<1>14. ASSUME \/ \E k \in Mail : Arrive(k) \/ Post(k) \/ Expire(k)
              \/ CatchUp
              \/ UNCHANGED vars
       PROVE  todo' = todo /\ cur' = cur
  BY <1>14 DEF Arrive, Post, Expire, CatchUp, vars, local
<1>. QED
  BY <1>2, <1>3, <1>5, <1>6, <1>7, <1>8, <1>9, <1>10, <1>11, <1>12, <1>13, <1>14 DEF Next, Step

(* Only a fetch over IMAP and mark_as_read take a mail from the unread     *)
(* ones, only an answer ends a post.                                       *)
LEMMA StepLetGo ==
  ASSUME TypeOK, EmptyHanded, Admission, LetGo, [Next]_vars
  PROVE  LetGo'
<1>. DEFINE Kept(m) == Settled(m) \/ \E p \in Process : m \in Held(p)
<1>1. \A m \in Mail : Kept(m) => Kept(m)'
  BY SettledStays, HeldFate
<1>2. \A m \in Mail : Handled(m) => Handled(m)'
  BY LedgersGrow
<1>3. provider' = provider
  BY DEF Next, Step, Arrive, Post, Expire, CatchUp, CheckBackpressure, Search, Fetch, AfterFetch, PollComplete,
         TakeNext, Receive, Admit, Skips, Publish, MarkRead, Answer, Crash, Restart, vars, mailbox
<1>4. ASSUME \A m \in Boxed : box'[m] = "read" => box[m] = "read",
             \A m \in Pushed : push'[m] = "answered" => push[m] = "answered"
      PROVE  LetGo'
  BY <1>1, <1>2, <1>3, <1>4, SettledStays DEF LetGo
<1>5. ASSUME NEW p \in Process, Fetch(p)
      PROVE  LetGo'
  <2>1. UNCHANGED push
    BY <1>5 DEF Fetch, AfterFetch
  <2>2. CASE provider = "imap"
    <3>1. ASSUME NEW m \in Boxed, box'[m] = "read", box[m] # "read"
          PROVE  Kept(m)
      BY <1>5, <3>1 DEF Fetch, AfterFetch, Held, TypeOK
    <3>2. \A m \in Boxed : box'[m] = "read" => Kept(m)
      BY <3>1 DEF LetGo
    <3>. QED BY <1>1, <1>3, <2>1, <2>2, <3>2, SettledStays DEF LetGo
  <2>3. CASE provider # "imap"
    BY <1>4, <1>5, <2>1, <2>3 DEF Fetch, AfterFetch
  <2>. QED BY <2>2, <2>3
<1>6. ASSUME NEW p \in Process, MarkRead(p)
      PROVE  LetGo'
  <2>1. UNCHANGED push
    BY <1>6 DEF MarkRead
  <2>2. cur[p] \in Boxed /\ Handled(cur[p])
    BY <1>6 DEF MarkRead, Admission
  <2>3. \A m \in Boxed : box'[m] = "read" => box[m] = "read" \/ m = cur[p]
    BY <1>6 DEF MarkRead, TypeOK
  <2>4. \A m \in Boxed : box'[m] = "read" => Kept(m)' /\ (provider = "gmail" => Handled(m)')
    <3>1. \A m \in Boxed : box'[m] = "read" => Kept(m) /\ (provider = "gmail" => Handled(m))
      BY <2>2, <2>3 DEF LetGo, Settled
    <3>. QED BY <1>1, <1>2, <3>1
  <2>. QED BY <1>3, <2>1, <2>4, SettledStays DEF LetGo
<1>7. ASSUME NEW p \in Process, Answer(p)
      PROVE  LetGo'
  <2>1. UNCHANGED box
    BY <1>7 DEF Answer
  <2>2. cur[p] \in Pushed /\ Settled(cur[p])
    BY <1>7 DEF Answer, Admission
  <2>3. \A m \in Pushed : push'[m] = "answered" => Settled(m)
    BY <1>7, <2>2 DEF Answer, TypeOK, LetGo
  <2>4. \A m \in Pushed : push'[m] = "answered" => Settled(m)'
    BY <2>3, SettledStays
  <2>. QED BY <1>1, <1>2, <1>3, <2>1, <2>4 DEF LetGo
<1>8. ASSUME NEW p \in Process,
             \/ CheckBackpressure(p) \/ Search(p) \/ PollComplete(p) \/ TakeNext(p) \/ Receive(p)
             \/ Admit(p) \/ Publish(p) \/ Crash(p) \/ Restart(p)
      PROVE  UNCHANGED <<box, push>>
  BY <1>8 DEF CheckBackpressure, Search, PollComplete, TakeNext, Receive, Admit, Skips, Publish, Crash,
              Restart, mailbox
<1>9. ASSUME NEW m \in Mail, Arrive(m) \/ Post(m) \/ Expire(m)
      PROVE  /\ \A k \in Boxed : box'[k] = "read" => box[k] = "read"
             /\ \A k \in Pushed : push'[k] = "answered" => push[k] = "answered"
  BY <1>9 DEF Arrive, Post, Expire, mailbox, TypeOK
<1>10. ASSUME CatchUp \/ UNCHANGED vars
       PROVE  UNCHANGED <<box, push>>
  BY <1>10 DEF CatchUp, vars, mailbox
<1>. QED BY <1>4, <1>5, <1>6, <1>7, <1>8, <1>9, <1>10 DEF Next, Step

(* The state a run is ever in.                                             *)
LEMMA IInvHolds == Spec => []IInv
<1>1. IInv /\ [Next]_vars => IInv'
  BY StepTypes, StepEmptyHanded, StepAdmission, StepLetGo DEF IInv
<1>. QED BY InitIInv, <1>1, PTL DEF Spec

-----------------------------------------------------------------------------
(* The state variables keep their types.                                   *)
THEOREM TypeCorrect == Spec => []TypeOK
<1>1. IInv => TypeOK
  BY DEF IInv
<1>. QED BY IInvHolds, <1>1, PTL

(* Gmail: what is read was published or skipped.                           *)
THEOREM ReadHandled == Spec => []ReadIsHandled
<1>1. IInv => ReadIsHandled
  BY DEF IInv, LetGo, ReadIsHandled
<1>. QED BY IInvHolds, <1>1, PTL

(* Mail is lost only if a process failed while it held it.                 *)
THEOREM LossIsPaidFor == Spec => []LossPaidFor
<1>1. ASSUME IInv, NEW m \in Mail, Settled(m)
      PROVE  Handled(m) \/ m \in broken \/ \E p \in Process : m \in Held(p)
  <2>1. CASE Handled(m) \/ m \in broken
    BY <2>1
  <2>2. CASE Ready(m) # {}
    BY <2>2 DEF Ready, Held
  <2>. QED BY <1>1, <2>1, <2>2 DEF Settled
<1>2. IInv => LossPaidFor
  BY <1>1 DEF IInv, LetGo, LossPaidFor
<1>. QED BY IInvHolds, <1>2, PTL

-----------------------------------------------------------------------------
LEMMA ReadyFinite == \A m \in Mail : IsFiniteSet(Ready(m)) /\ Cardinality(Ready(m)) \in Nat
<1>1. IsFiniteSet(Process)
  BY FS_Singleton, FS_Union
<1>. QED BY <1>1, FS_Subset, FS_CardinalityType DEF Ready

(* SETEX is counted, and whoever is then ready to publish is one more.     *)
LEMMA AdmitOwes ==
  ASSUME TypeOK, TypeOK', Owed, NEW p \in Process, Admit(p), NEW k \in Mail
  PROVE  published'[k] + Cardinality(Ready(k)') <= lives'[k] + overtaken'[k]
<1>. USE DEF TypeOK
<1>1. PICK call \in Call :
        /\ IF Applied(call)
           THEN IF cur[p] \in seen
                THEN overtaken' = [overtaken EXCEPT ![cur[p]] = @ + 1] /\ lives' = lives
                ELSE lives' = [lives EXCEPT ![cur[p]] = @ + 1] /\ overtaken' = overtaken
           ELSE lives' = lives /\ overtaken' = overtaken
        /\ call # "ok" => pc'[p] \in {"check", "listen"}
        /\ call = "ok" => pc'[p] \in {"publish", "mark"} /\ cur'[p] = cur[p]
  BY DEF Admit, Skips, Abandon, Home, Goto, keys
<1>2. /\ pc[p] = "admit" /\ cur[p] \in Mail /\ published' = published
      /\ \A q \in Process : q # p => pc'[q] = pc[q] /\ cur'[q] = cur[q]
  BY DEF Admit, Skips, Abandon, Goto, stream
<1>3. p \notin Ready(k)
  BY <1>2 DEF Ready
<1>4. /\ published[k] \in Nat /\ lives[k] \in Nat /\ overtaken[k] \in Nat
      /\ published[k] + Cardinality(Ready(k)) <= lives[k] + overtaken[k]
      /\ Cardinality(Ready(k)) \in Nat
  BY ReadyFinite DEF Owed
<1>5. CASE pc'[p] = "publish" /\ cur[p] = k
  <2>1. call = "ok" /\ Applied(call)
    BY <1>1, <1>5 DEF Applied
  <2>2. Ready(k)' = Ready(k) \cup {p}
    BY <1>1, <1>2, <1>5, <2>1 DEF Ready
  <2>3. Cardinality(Ready(k)') = Cardinality(Ready(k)) + 1
    <3>1. IsFiniteSet(Ready(k))
      BY ReadyFinite
    <3>2. Cardinality(Ready(k) \cup {p}) = Cardinality(Ready(k)) + 1
      BY ONLY <1>3, <3>1, FS_AddElement
    <3>. QED BY <2>2, <3>2
  <2>4. CASE k \in seen
    <3>1. lives'[k] = lives[k] /\ overtaken'[k] = overtaken[k] + 1
      BY <1>1, <1>5, <2>1, <2>4
    <3>. QED BY <1>2, <1>4, <2>3, <3>1
  <2>5. CASE k \notin seen
    <3>1. lives'[k] = lives[k] + 1 /\ overtaken'[k] = overtaken[k]
      BY <1>1, <1>5, <2>1, <2>5
    <3>. QED BY <1>2, <1>4, <2>3, <3>1
  <2>. QED BY <2>4, <2>5
<1>6. CASE ~(pc'[p] = "publish" /\ cur[p] = k)
  <2>1. Ready(k)' = Ready(k)
    BY <1>1, <1>2, <1>6 DEF Ready
  <2>2. lives[k] + overtaken[k] <= lives'[k] + overtaken'[k]
    <3>1. CASE ~Applied(call)
      BY <1>1, <1>4, <3>1
    <3>2. CASE Applied(call) /\ cur[p] \in seen
      <4>1. lives' = lives /\ overtaken'[k] \in {overtaken[k], overtaken[k] + 1}
        BY <1>1, <3>2
      <4>. QED BY <1>4, <4>1
    <3>3. CASE Applied(call) /\ cur[p] \notin seen
      <4>1. overtaken' = overtaken /\ lives'[k] \in {lives[k], lives[k] + 1}
        BY <1>1, <3>3
      <4>. QED BY <1>4, <4>1
    <3>. QED BY <3>1, <3>2, <3>3
  <2>3. lives'[k] \in Nat /\ overtaken'[k] \in Nat
    OBVIOUS
  <2>. QED BY <1>2, <1>4, <2>1, <2>2, <2>3
<1>. QED BY <1>5, <1>6

(* The XADD uses up the SETEX of the process, or is not made.              *)
LEMMA PublishOwes ==
  ASSUME TypeOK, Owed, NEW p \in Process, Publish(p), NEW k \in Mail
  PROVE  published'[k] + Cardinality(Ready(k)') <= lives'[k] + overtaken'[k]
<1>. USE DEF TypeOK
<1>1. /\ pc[p] = "publish" /\ cur[p] \in Mail /\ lives' = lives /\ overtaken' = overtaken
      /\ pc'[p] \in {"answer", "mark", "check", "listen"}
      /\ published' = [published EXCEPT ![cur[p]] = @ + 1] \/ published' = published
      /\ \A q \in Process : q # p => pc'[q] = pc[q] /\ cur'[q] = cur[q]
  BY DEF Publish, Abandon, Home, Goto, stream, keys
<1>2. /\ published[k] \in Nat /\ lives[k] \in Nat /\ overtaken[k] \in Nat
      /\ published[k] + Cardinality(Ready(k)) <= lives[k] + overtaken[k]
      /\ Cardinality(Ready(k)) \in Nat
  BY ReadyFinite DEF Owed
<1>3. CASE cur[p] = k
  <2>1. p \in Ready(k) /\ Ready(k)' = Ready(k) \ {p}
    BY <1>1, <1>3 DEF Ready
  <2>2. Cardinality(Ready(k)') = Cardinality(Ready(k)) - 1
    BY <2>1, ReadyFinite, FS_RemoveElement
  <2>3. published'[k] \in {published[k], published[k] + 1}
    BY <1>1, <1>3
  <2>. QED BY <1>1, <1>2, <2>2, <2>3
<1>4. CASE cur[p] # k
  <2>1. Ready(k)' = Ready(k) /\ published'[k] = published[k]
    BY <1>1, <1>4 DEF Ready
  <2>. QED BY <1>1, <1>2, <2>1
<1>. QED BY <1>3, <1>4

LEMMA StepOwed ==
  ASSUME TypeOK, TypeOK', Owed, [Next]_vars
  PROVE  Owed'
<1>. USE DEF TypeOK
<1>1. ASSUME UNCHANGED <<published, lives, overtaken>>,
             \A k \in Mail : Ready(k)' \subseteq Ready(k)
      PROVE  Owed'
  <2>. SUFFICES ASSUME NEW k \in Mail
                PROVE  published'[k] + Cardinality(Ready(k)') <= lives'[k] + overtaken'[k]
    BY DEF Owed
  <2>1. /\ Cardinality(Ready(k)') \in Nat /\ Cardinality(Ready(k)) \in Nat
        /\ Cardinality(Ready(k)') <= Cardinality(Ready(k))
    <3>1. IsFiniteSet(Ready(k)) /\ Ready(k)' \subseteq Ready(k)
      BY <1>1, ReadyFinite
    <3>. QED BY <3>1, FS_Subset, FS_CardinalityType
  <2>2. published[k] + Cardinality(Ready(k)) <= lives[k] + overtaken[k]
    BY DEF Owed
  <2>. QED BY <1>1, <2>1, <2>2
<1>2. ASSUME NEW p \in Process, Admit(p)
      PROVE  Owed'
  BY <1>2, AdmitOwes DEF Owed
<1>3. ASSUME NEW p \in Process, Publish(p)
      PROVE  Owed'
  BY <1>3, PublishOwes DEF Owed
<1>4. ASSUME NEW p \in Process,
             \/ CheckBackpressure(p) \/ Search(p) \/ Fetch(p) \/ PollComplete(p) \/ TakeNext(p)
             \/ Receive(p) \/ MarkRead(p) \/ Answer(p) \/ Crash(p) \/ Restart(p)
      PROVE  /\ UNCHANGED <<published, lives, overtaken>>
             /\ \A k \in Mail : Ready(k)' \subseteq Ready(k)
  <2>1. UNCHANGED <<published, lives, overtaken>>
    BY <1>4 DEF CheckBackpressure, Search, Fetch, AfterFetch, PollComplete, TakeNext, Receive, MarkRead, Answer,
                Crash, Restart, stream, keys
  <2>2. /\ pc'[p] # "publish"
        /\ \A q \in Process : q # p => pc'[q] = pc[q] /\ cur'[q] = cur[q]
    BY <1>4 DEF CheckBackpressure, Search, Fetch, AfterFetch, PollComplete, TakeNext, Receive, MarkRead, Answer,
                Crash, Restart, Abandon, Home, Goto
  <2>. QED BY <2>1, <2>2 DEF Ready
<1>5. ASSUME \/ \E m \in Mail : Arrive(m) \/ Post(m) \/ Expire(m)
             \/ CatchUp
             \/ UNCHANGED vars
      PROVE  UNCHANGED <<published, lives, overtaken, pc, cur>>
  BY <1>5 DEF Arrive, Post, Expire, CatchUp, vars, local, stream, keys
<1>6. ASSUME UNCHANGED <<pc, cur>>
      PROVE  \A k \in Mail : Ready(k)' \subseteq Ready(k)
  BY <1>6 DEF Ready
<1>. QED BY <1>1, <1>2, <1>3, <1>4, <1>5, <1>6 DEF Next, Step

(* A mail is published once per SETEX.                                     *)
THEOREM PublishedOncePerLife == Spec => []OnePerLife
<1>1. Init => Owed
  <2>1. Init => \A m \in Mail : Ready(m) = {}
    BY DEF Init, Ready, Home
  <2>. QED BY <2>1, FS_EmptySet DEF Init, Owed
<1>2. TypeOK /\ TypeOK' /\ Owed /\ [Next]_vars => Owed'
  BY StepOwed
<1>3. TypeOK /\ Owed => OnePerLife
  <2>. SUFFICES ASSUME TypeOK, Owed, NEW m \in Mail
                PROVE  published[m] <= lives[m] + overtaken[m]
    BY DEF OnePerLife
  <2>1. published[m] + Cardinality(Ready(m)) <= lives[m] + overtaken[m]
    BY DEF Owed
  <2>. QED BY <2>1, ReadyFinite DEF TypeOK
<1>. QED BY TypeCorrect, <1>1, <1>2, <1>3, PTL DEF Spec
=============================================================================
