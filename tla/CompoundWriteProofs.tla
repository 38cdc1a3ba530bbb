------------------------- MODULE CompoundWriteProofs -------------------------
(***************************************************************************)
(* What a compound write guarantees in the primary tables, for any number  *)
(* of writers, leads, threads and emails: an email reported as stored is   *)
(* never lost to the rollback of another one.                              *)
(*                                                                         *)
(* The argument: message rows are never deleted, because the message is    *)
(* the last step that can fail a compound, and a failed step is not rolled *)
(* back (UndoStops); foreign keys keep every row above a row that is there *)
(* (Closed); and a compound succeeds only after its message was written    *)
(* (Written).                                                              *)
(***************************************************************************)
EXTENDS CompoundWrite, TLAPS

(* What each variable may hold.                                            *)
Types ==
  /\ before \subseteq Row
  /\ rows \subseteq Row
  /\ pc \in [Writer -> {"idle", "do", "undo"}]
  /\ email \in [Writer -> Email \cup {NoEmail}]
  /\ done \in [Writer -> 0 .. 3]
  /\ runs \in [Email -> Nat] /\ \A e \in Email : runs[e] <= MaxRuns[e]
  /\ stored \subseteq Email
  /\ faults \in 0 .. MaxFaults /\ mishaps \in 0 .. MaxMishaps
  /\ \A w \in Writer : pc[w] # "idle" => email[w] \in Email

Primary(e) == RootOf(e) \notin Staging

(* A rollback only ever deletes conversations and leads, and a compound    *)
(* begins with its first step.                                             *)
UndoStops ==
  \A w \in Writer : /\ pc[w] = "undo" => done[w] \in 0 .. 2
                    /\ pc[w] = "idle" => done[w] = 0 /\ email[w] = NoEmail

(* After the third upsert the message row is there, and it stays.          *)
Written ==
  \A w \in Writer :
    pc[w] = "do" /\ done[w] = 3 /\ Primary(email[w]) => email[w] \in rows

Kept == \A e \in stored : Primary(e) => e \in rows

IInv == Types /\ Closed(rows) /\ UndoStops /\ Written /\ Kept

(* The rows of a compound are rows of the database schema.                 *)
LEMMA PathRows ==
  ASSUME NEW e \in Email
  PROVE  /\ threadOf[e] \in Thread
         /\ leadOf[threadOf[e]] \in Lead
         /\ Target(e, 1) = leadOf[threadOf[e]]
         /\ Target(e, 2) = threadOf[e]
         /\ Target(e, 3) = e
         /\ \A k \in 1 .. 3 : Target(e, k) \in Row
BY CompoundAssumption DEF Target, Row

(* Parents are leads or conversations, of the same root.                   *)
LEMMA Parents ==
  ASSUME NEW c \in Thread \cup Email
  PROVE  /\ Parent(c) \in Lead \cup Thread
         /\ RootOf(Parent(c)) = RootOf(c)
         /\ c \in Thread => Parent(c) \in Lead
BY CompoundAssumption DEF Parent, RootOf

(* Deleting a conversation or a lead removes no message of a primary       *)
(* table: a refused delete removes nothing, a cascading one stays in its   *)
(* own tree.                                                               *)
LEMMA MessagesSurvive ==
  ASSUME NEW r \in Lead \cup Thread,
         NEW e \in Email, Primary(e), e \in rows
  PROVE  e \in AfterDelete(r)
<1>1. e # r
  BY CompoundAssumption
<1>2. CASE RootOf(r) \notin Staging
  BY <1>1, <1>2 DEF AfterDelete
<1>3. CASE RootOf(r) \in Staging
  <2>1. e \notin Children(r)
    BY <1>3, Parents DEF Children, Primary
  <2>2. \A c \in Children(r) : e \notin Children(c)
    <3> SUFFICES ASSUME NEW c \in Children(r), e \in Children(c)
                 PROVE  FALSE
      OBVIOUS
    <3>1. c \in Thread \cup Email /\ RootOf(c) = RootOf(r)
      BY Parents DEF Children
    <3>2. RootOf(e) = RootOf(c)
      BY <3>1, Parents DEF Children
    <3>. QED BY <3>1, <3>2, <1>3 DEF Primary
  <2>. QED BY <1>1, <1>3, <2>1, <2>2 DEF AfterDelete, Below
<1>. QED BY <1>2, <1>3

(* A delete keeps the foreign keys whole.                                  *)
LEMMA DeleteClosed ==
  ASSUME rows \subseteq Row, Closed(rows), NEW r \in Lead \cup Thread
  PROVE  Closed(AfterDelete(r)) /\ AfterDelete(r) \subseteq rows
<1>1. AfterDelete(r) \subseteq rows
  BY DEF AfterDelete
<1>2. SUFFICES ASSUME NEW c \in AfterDelete(r), c \notin Lead
               PROVE  Parent(c) \in AfterDelete(r)
  BY <1>1 DEF Closed
<1>3. c \in Thread \cup Email /\ Parent(c) \in rows
  BY <1>1, <1>2 DEF Closed, Row
<1>4. CASE RootOf(r) \notin Staging /\ Children(r) \cap rows # {}
  BY <1>3, <1>4 DEF AfterDelete
<1>5. CASE RootOf(r) \notin Staging /\ Children(r) \cap rows = {}
  <2>1. AfterDelete(r) = rows \ {r}
    BY <1>5 DEF AfterDelete
  <2>2. c \in rows
    BY <1>1
  <2>3. Parent(c) # r
    BY <2>2, <1>3, <1>5 DEF Children
  <2>. QED BY <2>1, <2>3, <1>3
<1>6. CASE RootOf(r) \in Staging
  <2>1. AfterDelete(r) = rows \ Below(r)
    BY <1>6 DEF AfterDelete
  <2>2. c \notin Below(r)
    BY <2>1
  <2>3. Parent(c) # r
    BY <2>2, <1>3 DEF Below, Children
  <2>4. Parent(c) \notin Children(r)
    BY <2>2, <1>3 DEF Below, Children
  <2>5. ASSUME NEW d \in Children(r)
        PROVE  Parent(c) \notin Children(d)
    <3>1. d \in Thread \cup Email /\ Parent(d) = r
      BY DEF Children
    <3>2. ASSUME Parent(c) \in Children(d)
          PROVE  FALSE
      <4>1. Parent(c) \in Thread /\ Parent(Parent(c)) = d
        BY <1>3, <3>2, Parents, CompoundAssumption DEF Children
      <4>2. d \in Lead
        BY <4>1, Parents
      <4>. QED BY <4>2, <3>1, CompoundAssumption
    <3>. QED BY <3>2
  <2>. QED BY <2>1, <2>3, <2>4, <2>5, <1>3 DEF Below
<1>. QED BY <1>1, <1>4, <1>5, <1>6

-----------------------------------------------------------------------------
LEMMA Initially == Init => IInv
<1> SUFFICES ASSUME Init PROVE IInv
  OBVIOUS
<1>1. Types
  BY CompoundAssumption DEF Init, Types
<1>2. Closed(rows) /\ UndoStops /\ Written /\ Kept
  BY DEF Init, UndoStops, Written, Kept
<1>. QED BY <1>1, <1>2 DEF IInv

(* Type correctness is inductive by itself, given that no undo goes below  *)
(* the first step.                                                         *)
LEMMA TypeStep == Types /\ UndoStops /\ [Next]_vars => Types'
<1> SUFFICES ASSUME Types, UndoStops, [Next]_vars PROVE Types'
  OBVIOUS
<1> USE CompoundAssumption DEF Types
<1>1. CASE UNCHANGED vars
  BY <1>1 DEF vars
<1>2. ASSUME NEW w \in Writer, NEW e \in Email, Begin(w, e) PROVE Types'
  BY <1>2 DEF Begin
<1>3. ASSUME NEW w \in Writer, Upsert(w) PROVE Types'
  <2>1. email[w] \in Email /\ done[w] \in 0 .. 2
    BY <1>3 DEF Upsert
  <2>2. Target(email[w], done[w] + 1) \in Row
    BY <2>1, PathRows
  <2>3. rows' \subseteq Row
    BY <1>3, <2>2 DEF Upsert
  <2>4. /\ pc' \in [Writer -> {"idle", "do", "undo"}]
        /\ done' \in [Writer -> 0 .. 3]
    BY <1>3, <2>1 DEF Upsert, Fail, Succeed
  <2>5. faults' \in 0 .. MaxFaults /\ mishaps' \in 0 .. MaxMishaps
    BY <1>3 DEF Upsert, Fault, Mishap
  <2>6. UNCHANGED <<before, email, runs, stored>>
    BY <1>3 DEF Upsert
  <2>7. \A v \in Writer : pc'[v] # "idle" => email[v] \in Email
    BY <1>3, <2>1 DEF Upsert, Fail, Succeed
  <2>. QED BY <2>3, <2>4, <2>5, <2>6, <2>7
<1>4. ASSUME NEW w \in Writer, UpdateStage(w) PROVE Types'
  <2>1. email[w] \in Email
    BY <1>4 DEF UpdateStage
  <2>2. rows' \subseteq Row /\ stored' \subseteq Email
    BY <1>4, <2>1, PathRows DEF UpdateStage
  <2>. QED BY <1>4, <2>2 DEF UpdateStage, Finish
<1>5. ASSUME NEW w \in Writer, Undo(w) PROVE Types'
  <2>1. rows' \subseteq Row
    BY <1>5 DEF Undo, AfterDelete
  <2>2. faults' \in 0 .. MaxFaults /\ mishaps' \in 0 .. MaxMishaps
    BY <1>5 DEF Undo, Mishap
  <2>3. done' \in [Writer -> 0 .. 3]
    BY <1>5 DEF Undo
  <2>. QED BY <1>5, <2>1, <2>2, <2>3 DEF Undo
<1>6. ASSUME NEW w \in Writer, GiveUp(w) PROVE Types'
  BY <1>6 DEF GiveUp, Finish
<1>7. ASSUME NEW w \in Writer, Crash(w) PROVE Types'
  BY <1>7 DEF Crash, Finish, Mishap
<1>. QED BY <1>1, <1>2, <1>3, <1>4, <1>5, <1>6, <1>7 DEF Next

(* The row an Undo deletes is a conversation or a lead.                    *)
LEMMA UndoTarget ==
  ASSUME IInv, NEW w \in Writer, Undo(w)
  PROVE  Target(email[w], done[w]) \in Lead \cup Thread
<1>1. email[w] \in Email /\ done[w] \in {1, 2}
  BY DEF IInv, Types, Undo, UndoStops
<1>. QED BY <1>1, PathRows

(* No step of any writer removes a message of a primary table.             *)
LEMMA MessagesStay ==
  ASSUME IInv, [Next]_vars, NEW e \in Email, Primary(e), e \in rows
  PROVE  e \in rows'
<1>1. CASE UNCHANGED vars
  BY <1>1 DEF vars
<1>2. ASSUME NEW w \in Writer, NEW f \in Email, Begin(w, f) PROVE e \in rows'
  BY <1>2 DEF Begin
<1>3. ASSUME NEW w \in Writer, Upsert(w) PROVE e \in rows'
  BY <1>3 DEF Upsert
<1>4. ASSUME NEW w \in Writer, UpdateStage(w) PROVE e \in rows'
  BY <1>4 DEF UpdateStage
<1>5. ASSUME NEW w \in Writer, Undo(w) PROVE e \in rows'
  <2>1. e \in AfterDelete(Target(email[w], done[w]))
    BY <1>5, UndoTarget, MessagesSurvive
  <2>. QED BY <1>5, <2>1 DEF Undo
<1>6. ASSUME NEW w \in Writer, GiveUp(w) PROVE e \in rows'
  BY <1>6 DEF GiveUp
<1>7. ASSUME NEW w \in Writer, Crash(w) PROVE e \in rows'
  BY <1>7 DEF Crash
<1>. QED BY <1>1, <1>2, <1>3, <1>4, <1>5, <1>6, <1>7 DEF Next

(* With its conversation and lead, by the foreign keys.                    *)
LEMMA MessageHasPath ==
  ASSUME Closed(rows), NEW e \in Email, e \in rows
  PROVE  Path(e) \subseteq rows
<1>1. threadOf[e] \in Thread /\ leadOf[threadOf[e]] \in Lead
  BY PathRows
<1>2. Parent(e) = threadOf[e] /\ e \notin Lead
  BY CompoundAssumption DEF Parent
<1>3. threadOf[e] \in rows
  BY <1>2 DEF Closed
<1>4. Parent(threadOf[e]) = leadOf[threadOf[e]] /\ threadOf[e] \notin Lead
  BY <1>1, CompoundAssumption DEF Parent
<1>5. leadOf[threadOf[e]] \in rows
  BY <1>3, <1>4 DEF Closed
<1>. QED BY <1>3, <1>5 DEF Path

LEMMA ClosedStep == IInv /\ [Next]_vars => Closed(rows)'
<1> SUFFICES ASSUME IInv, [Next]_vars PROVE Closed(rows')
  BY DEF Closed, Parent
<1>0. Closed(rows) /\ rows \subseteq Row
  BY DEF IInv, Types
<1>1. CASE rows' = rows
  BY <1>0, <1>1
<1>2. ASSUME NEW w \in Writer, Upsert(w) PROVE Closed(rows')
  <2> DEFINE r == Target(email[w], done[w] + 1)
  <2>1. rows' = rows \/ (rows' = rows \cup {r} /\ (r \in Lead \/ Parent(r) \in rows))
    BY <1>2 DEF Upsert
  <2>. QED BY <2>1, <1>0 DEF Closed
<1>3. ASSUME NEW w \in Writer, UpdateStage(w) PROVE Closed(rows')
  <2>1. Target(email[w], 1) \in Lead
    BY <1>3, PathRows DEF IInv, Types, UpdateStage
  <2>. QED BY <1>3, <2>1, <1>0 DEF UpdateStage, Closed
<1>4. ASSUME NEW w \in Writer, Undo(w) PROVE Closed(rows')
  <2>1. Closed(AfterDelete(Target(email[w], done[w])))
    BY <1>0, <1>4, UndoTarget, DeleteClosed
  <2>. QED BY <1>0, <1>4, <2>1 DEF Undo
<1>5. \/ rows' = rows
      \/ \E w \in Writer : Upsert(w) \/ UpdateStage(w) \/ Undo(w)
  BY DEF Next, vars, Begin, GiveUp, Crash
<1>. QED BY <1>1, <1>2, <1>3, <1>4, <1>5

LEMMA UndoStopsStep == IInv /\ [Next]_vars => UndoStops'
<1> DEFINE Bound(v) == /\ pc'[v] = "undo" => done'[v] \in 0 .. 2
                       /\ pc'[v] = "idle" => done'[v] = 0 /\ email'[v] = NoEmail
<1> SUFFICES ASSUME IInv, [Next]_vars, NEW v \in Writer PROVE Bound(v)
  BY DEF UndoStops
<1> USE DEF IInv, Types, UndoStops
<1>1. CASE UNCHANGED vars
  BY <1>1 DEF vars
<1>2. ASSUME NEW w \in Writer, NEW f \in Email, Begin(w, f) PROVE Bound(v)
  BY <1>2 DEF Begin
<1>3. ASSUME NEW w \in Writer, Upsert(w) PROVE Bound(v)
  BY <1>3 DEF Upsert, Fail, Succeed
<1>4. ASSUME NEW w \in Writer, Undo(w) PROVE Bound(v)
  BY <1>4 DEF Undo
<1>5. ASSUME NEW w \in Writer, UpdateStage(w) \/ GiveUp(w) \/ Crash(w) PROVE Bound(v)
  BY <1>5 DEF UpdateStage, GiveUp, Crash, Finish
<1>. QED BY <1>1, <1>2, <1>3, <1>4, <1>5 DEF Next

LEMMA WrittenStep == IInv /\ [Next]_vars => Written'
<1> SUFFICES ASSUME IInv, [Next]_vars, NEW v \in Writer,
                    pc'[v] = "do", done'[v] = 3, Primary(email'[v])
             PROVE  email'[v] \in rows'
  BY DEF Written, Primary, RootOf
<1>1. ASSUME pc[v] = "do", done[v] = 3, email'[v] = email[v]
      PROVE  email'[v] \in rows'
  BY <1>1, MessagesStay DEF IInv, Types, Written
<1> USE DEF IInv, Types
<1>2. CASE UNCHANGED vars
  BY <1>1, <1>2 DEF vars
<1>3. ASSUME NEW w \in Writer, NEW f \in Email, Begin(w, f) PROVE email'[v] \in rows'
  <2>1. w # v
    BY <1>3 DEF Begin, UndoStops, IInv
  <2>. QED BY <2>1, <1>1, <1>3 DEF Begin
<1>4. ASSUME NEW w \in Writer, Upsert(w) PROVE email'[v] \in rows'
  <2>1. CASE w = v
    <3>1. done[v] = 2 /\ email[v] \in Email
      BY <2>1, <1>4 DEF Upsert, Fail, Succeed
    <3>2. Target(email[v], done[v] + 1) = email[v]
      BY <3>1, PathRows
    <3>3. rows' = rows \cup {Target(email[v], done[v] + 1)}
      BY <2>1, <1>4, <3>1 DEF Upsert, Fail, Succeed
    <3>. QED BY <1>4, <3>2, <3>3 DEF Upsert
  <2>2. CASE w # v
    BY <2>2, <1>1, <1>4 DEF Upsert, Fail, Succeed
  <2>. QED BY <2>1, <2>2
<1>5. ASSUME NEW w \in Writer, Undo(w) PROVE email'[v] \in rows'
  BY <1>1, <1>5 DEF Undo
<1>6. ASSUME NEW w \in Writer, UpdateStage(w) \/ GiveUp(w) \/ Crash(w)
      PROVE  email'[v] \in rows'
  BY <1>1, <1>6 DEF UpdateStage, GiveUp, Crash, Finish
<1>. QED BY <1>2, <1>3, <1>4, <1>5, <1>6 DEF Next

LEMMA KeptStep == IInv /\ [Next]_vars => Kept'
<1> SUFFICES ASSUME IInv, [Next]_vars, NEW e \in stored', Primary(e)
             PROVE  e \in rows'
  BY DEF Kept, Primary, RootOf
<1>1. CASE e \in stored
  BY <1>1, MessagesStay DEF IInv, Kept, Types
<1>2. CASE e \notin stored
  <2>1. PICK w \in Writer : UpdateStage(w)
    BY <1>2 DEF Next, vars, Begin, Upsert, Undo, GiveUp, Crash
  <2>2. e = email[w] /\ e \in Email /\ pc[w] = "do" /\ done[w] = 3
    BY <1>2, <2>1 DEF UpdateStage, IInv, Types
  <2>. QED BY <2>2, MessagesStay DEF IInv, Written
<1>. QED BY <1>1, <1>2

LEMMA Inductive == IInv /\ [Next]_vars => IInv'
BY TypeStep, ClosedStep, UndoStopsStep, WrittenStep, KeptStep DEF IInv

LEMMA Invariant == Spec => []IInv
BY Initially, Inductive, PTL DEF Spec

-----------------------------------------------------------------------------
(* The variables keep their types, and no rollback includes the message    *)
(* step: the compound's failed step is never rolled back                   *)
(* (execute_compound).                                                     *)
THEOREM TypeCorrect == Spec => []TypeOK
<1>1. IInv => TypeOK
  BY CompoundAssumption DEF IInv, Types, TypeOK, UndoStops
<1>. QED BY <1>1, Invariant, PTL

(* However many writers fail and roll back around it, an email of the      *)
(* primary tables that was reported as stored keeps its message, its       *)
(* conversation and its lead.                                              *)
THEOREM NothingStoredIsLost == Spec => []StoredIsKept
<1>1. IInv => StoredIsKept
  BY MessageHasPath DEF IInv, Kept, Primary, StoredIsKept, Types
<1>. QED BY <1>1, Invariant, PTL

(* The update of the stage never inserts the lead it updates.              *)
THEOREM NobodyResurrected == Spec => StageResurrectsNobody
<1>1. IInv /\ [Next]_vars =>
        [\A w \in Writer :
           UpdateStage(w) /\ RootOf(email[w]) \notin Staging => rows' = rows]_vars
  <2> SUFFICES ASSUME IInv, NEW w \in Writer, UpdateStage(w),
                      RootOf(email[w]) \notin Staging
               PROVE  rows' = rows
    OBVIOUS
  <2>1. email[w] \in Email /\ email[w] \in rows
    BY DEF UpdateStage, IInv, Types, Written, Primary
  <2>2. Target(email[w], 1) \in rows
    BY <2>1, MessageHasPath, PathRows DEF IInv, Path
  <2>. QED BY <2>2 DEF UpdateStage
<1>. QED BY <1>1, Invariant, PTL DEF Spec, StageResurrectsNobody
-----------------------------------------------------------------------------
(* What failed compounds leave.  Without a mishap, every row that was not  *)
(* there before is above a message, or a writer that has not written its   *)
(* message yet, and so may still have to undo it, has upserted it.         *)
Covered(r) == \E e \in Email \cap rows : r \in Path(e)
Begun(w, r) == done[w] < 3 /\ \E k \in 1 .. done[w] : Target(email[w], k) = r
Accounted(r) == Covered(r) \/ \E w \in Writer : Begun(w, r)
Tidy == mishaps = 0 => \A r \in rows \ (before \cup Staging) : Accounted(r)

TInv == IInv /\ Closed(before) /\ Tidy

(* A writer has begun a row of its compound, while it has one.             *)
LEMMA BegunRow ==
  ASSUME IInv, NEW w \in Writer, NEW r, Begun(w, r)
  PROVE  /\ email[w] \in Email /\ done[w] \in 1 .. 2 /\ pc[w] # "idle"
         /\ \/ r = leadOf[threadOf[email[w]]] /\ r \in Lead
            \/ r = threadOf[email[w]] /\ r \in Thread /\ done[w] = 2
<1>1. done[w] \in 1 .. 2 /\ pc[w] # "idle" /\ email[w] \in Email
  BY DEF Begun, IInv, Types, UndoStops
<1>2. PICK k \in 1 .. done[w] : Target(email[w], k) = r
  BY DEF Begun
<1>3. k = 1 \/ (k = 2 /\ done[w] = 2)
  BY <1>1, <1>2
<1>. QED BY <1>1, <1>2, <1>3, PathRows

(* A parent is accounted for with its child.                               *)
LEMMA AccountedAbove ==
  ASSUME IInv, NEW c \in Thread, Accounted(c)
  PROVE  Covered(leadOf[c]) \/ \E w \in Writer : Begun(w, leadOf[c]) /\ done[w] = 2
<1>1. ASSUME NEW e \in Email \cap rows, c \in Path(e)
      PROVE  Covered(leadOf[c])
  <2>1. c = threadOf[e]
    BY <1>1, PathRows, CompoundAssumption DEF Path
  <2>. QED BY <2>1 DEF Covered, Path
<1>2. ASSUME NEW w \in Writer, Begun(w, c)
      PROVE  Begun(w, leadOf[c]) /\ done[w] = 2
  <2>1. email[w] \in Email /\ c = threadOf[email[w]] /\ done[w] = 2
    BY <1>2, BegunRow, CompoundAssumption
  <2>2. Target(email[w], 1) = leadOf[c]
    BY <2>1 DEF Target
  <2>. QED BY <2>1, <2>2 DEF Begun
<1>. QED BY <1>1, <1>2 DEF Accounted, Covered

(* What stays accounted for: no message above which it is goes, and the    *)
(* writer that began it has not ended.                                     *)
LEMMA AccountedKept ==
  ASSUME NEW r, Accounted(r),
         \A e \in Email \cap rows : r \in Path(e) => e \in rows',
         \A w \in Writer : Begun(w, r) => Begun(w, r)' \/ Covered(r)'
  PROVE  Accounted(r)'
<1>1. Covered(r) => Covered(r)'
  BY DEF Covered, Path
<1>. QED BY <1>1 DEF Accounted

(* An upsert.                                                              *)
LEMMA TidyUpsert ==
  ASSUME IInv, Tidy, NEW w \in Writer, Upsert(w), mishaps' = 0, NEW r \in rows' \ (before \cup Staging)
  PROVE  Accounted(r)'
<1>1. pc[w] = "do" /\ done[w] \in 0 .. 2 /\ email[w] \in Email /\ email' = email
  BY DEF Upsert, IInv, Types
<1>2. PICK k, s : k = done[w] + 1 /\ s = Target(email[w], k)
  OBVIOUS
<1>3. /\ mishaps = 0
      /\ \/ rows' = rows /\ done' = done
         \/ rows' = rows \cup {s} /\ done' = [done EXCEPT ![w] = k]
  BY <1>1, <1>2 DEF Upsert, Fail, Succeed, Fault, Mishap, IInv, Types
<1>4. k = 3 => s = email[w]
  BY <1>1, <1>2, PathRows
<1>5. /\ k \in 1 .. 3 /\ done'[w] \in {done[w], k} /\ (\A v \in Writer : v # w => done'[v] = done[v])
      /\ rows \subseteq rows'
  BY <1>1, <1>2, <1>3 DEF IInv, Types
<1>6. ASSUME NEW v \in Writer, NEW q, Begun(v, q)
      PROVE  Begun(v, q)' \/ Covered(q)'
  <2>1. CASE done'[v] = done[v]
    BY <1>1, <1>6, <2>1 DEF Begun, Target
  <2>2. CASE done'[v] # done[v]
    <3>1. v = w /\ done'[v] = k /\ s \in rows' /\ done[v] + 1 = k
      BY <1>2, <1>3, <1>5, <2>2 DEF IInv, Types
    <3>2. CASE k < 3
      <4>1. \A j \in 1 .. done[v] : j \in 1 .. done'[v]
        BY <1>1, <1>5, <3>1
      <4>2. \E j \in 1 .. done'[v] : Target(email'[v], j) = q
        BY <1>1, <1>6, <4>1 DEF Begun
      <4>3. done'[v] < 3
        BY <3>1, <3>2
      <4>. QED BY <4>2, <4>3 DEF Begun, Target
    <3>3. CASE k = 3
      <4>1. q \in Path(email[w])
        BY <1>6, <3>1, BegunRow DEF Path
      <4>. QED BY <1>1, <1>4, <3>1, <3>3, <4>1 DEF Covered, Path
    <3>. QED BY <1>5, <3>2, <3>3
  <2>. QED BY <2>1, <2>2
<1>7. CASE r \in rows
  <2>1. Accounted(r)
    BY <1>3, <1>7 DEF Tidy
  <2>. QED BY <1>5, <1>6, <2>1, AccountedKept
<1>8. CASE r \notin rows
  <2>1. r = s /\ done'[w] = k
    BY <1>1, <1>3, <1>8 DEF IInv, Types
  <2>2. CASE k = 3
    BY <1>1, <1>4, <2>1, <2>2 DEF Accounted, Covered, Path
  <2>3. CASE k < 3
    <3>1. k \in 1 .. done'[w] /\ Target(email'[w], k) = r /\ done'[w] < 3
      BY <1>1, <1>2, <1>5, <2>1, <2>3
    <3>2. Begun(w, r)'
      BY <3>1 DEF Begun, Target
    <3>. QED BY <3>2 DEF Accounted
  <2>. QED BY <1>5, <2>2, <2>3
<1>. QED BY <1>7, <1>8

(* A rollback: what it does not delete is above what is there.             *)
LEMMA TidyUndo ==
  ASSUME TInv, NEW w \in Writer, Undo(w), mishaps' = 0, NEW r \in rows' \ (before \cup Staging)
  PROVE  Accounted(r)'
<1>1. /\ pc[w] = "undo" /\ done[w] \in 1 .. 2 /\ email[w] \in Email /\ email' = email /\ before' = before
      /\ mishaps = 0 /\ rows' = AfterDelete(Target(email[w], done[w]))
      /\ done' = [done EXCEPT ![w] = done[w] - 1]
  BY DEF Undo, TInv, IInv, Types, UndoStops, Mishap
<1>2. PICK s : s = Target(email[w], done[w])
  OBVIOUS
<1>3. s \in Lead \cup Thread /\ rows' \subseteq rows /\ r \in rows
  BY <1>1, <1>2, UndoTarget DEF TInv, AfterDelete
<1>4. Accounted(r)
  BY <1>1, <1>3 DEF TInv, Tidy
<1>5. \A v \in Writer : done'[v] = IF v = w THEN done[w] - 1 ELSE done[v]
  BY <1>1 DEF TInv, IInv, Types
<1>6. ASSUME NEW v \in Writer, NEW q, Begun(v, q), q # s \/ v # w
      PROVE  Begun(v, q)'
  <2>1. CASE v # w
    BY <1>1, <1>5, <1>6, <2>1 DEF Begun, Target
  <2>2. CASE v = w
    <3>1. PICK k \in 1 .. done[w] : Target(email[w], k) = q
      BY <1>6, <2>2 DEF Begun
    <3>2. k # done[w]
      BY <1>2, <1>6, <2>2, <3>1
    <3>3. k \in 1 .. done'[v] /\ done'[v] < 3 /\ Target(email'[v], k) = q
      BY <1>1, <1>5, <2>2, <3>1, <3>2
    <3>. QED BY <3>3 DEF Begun, Target
  <2>. QED BY <2>1, <2>2
(* No message above which it is goes, unless it goes along.                *)
<1>7. ASSUME NEW e \in Email \cap rows, r \in Path(e)
      PROVE  e \in rows'
  <2>1. CASE RootOf(s) \notin Staging
    <3>1. e # s
      BY <1>3, CompoundAssumption
    <3>. QED BY <1>1, <1>2, <1>7, <2>1, <3>1 DEF AfterDelete
  <2>2. CASE RootOf(s) \in Staging
    <3>1. rows' = rows \ Below(s) /\ r \notin Below(s)
      BY <1>1, <1>2, <2>2 DEF AfterDelete
    <3>2. ASSUME e \in Below(s)
          PROVE  FALSE
      <4>1. e # s /\ Parent(e) = threadOf[e] /\ threadOf[e] \in Thread
        BY <1>3, CompoundAssumption DEF Parent
      <4>2. Parent(threadOf[e]) = leadOf[threadOf[e]]
        BY <4>1, CompoundAssumption DEF Parent
      <4>3. CASE e \in Children(s)
        <5>1. s = threadOf[e]
          BY <4>1, <4>3 DEF Children
        <5>2. r # e /\ r # s
          BY <3>1, <3>2 DEF Below
        <5>3. r = leadOf[threadOf[e]] /\ RootOf(s) = r
          BY <1>7, <4>1, <5>1, <5>2, CompoundAssumption DEF Path, RootOf
        <5>. QED BY <2>2, <5>3
      <4>4. CASE \E c \in Children(s) : e \in Children(c)
        <5>1. PICK c \in Children(s) : e \in Children(c)
          BY <4>4
        <5>2. c = threadOf[e] /\ s = leadOf[threadOf[e]]
          BY <4>1, <4>2, <5>1 DEF Children
        <5>3. r \in Below(s)
          BY <1>7, <3>2, <5>1, <5>2 DEF Path, Below
        <5>. QED BY <3>1, <5>3
      <4>. QED BY <3>2, <4>1, <4>3, <4>4 DEF Below
    <3>. QED BY <3>1, <3>2
  <2>. QED BY <2>1, <2>2
<1>8. CASE r # s
  BY <1>4, <1>6, <1>7, <1>8, AccountedKept
(* A refused delete has found a child.                                     *)
<1>9. CASE r = s
  <2>1. RootOf(s) \notin Staging /\ rows' = rows
    <3>1. s \in Below(s)
      BY DEF Below
    <3>. QED BY <1>1, <1>2, <1>9, <3>1 DEF AfterDelete
  <2>2. PICK c \in rows : c \in Thread \cup Email /\ Parent(c) = s
    BY <1>1, <1>2, <1>9, <2>1 DEF AfterDelete, Children
  <2>3. CASE s \in Thread
    <3>1. c \in Email /\ s \in Path(c)
      BY <2>2, <2>3, CompoundAssumption DEF Parent, Path
    <3>. QED BY <1>9, <2>1, <2>2, <3>1 DEF Accounted, Covered, Path
  <2>4. CASE s \in Lead
    <3>1. c \in Thread /\ s = leadOf[c] /\ c \notin Lead /\ c \notin Staging
      BY <2>2, <2>4, CompoundAssumption DEF Parent
    <3>2. c \notin before
      BY <1>9, <2>2, <3>1 DEF TInv, Closed
    <3>3. Accounted(c)
      BY <1>1, <2>2, <3>1, <3>2 DEF TInv, Tidy
    <3>4. CASE Covered(s)
      BY <1>9, <2>1, <3>4 DEF Accounted, Covered, Path
    <3>5. ASSUME NEW v \in Writer, Begun(v, s), done[v] = 2
          PROVE  Accounted(r)'
      <4>1. v # w
        <5>1. done[w] = 2 => s \in Thread
          BY <1>1, <1>2, PathRows
        <5>. QED BY <2>4, <3>5, <5>1, CompoundAssumption
      <4>. QED BY <1>6, <1>9, <3>5, <4>1 DEF Accounted
    <3>. QED BY <3>1, <3>3, <3>4, <3>5, AccountedAbove DEF TInv
  <2>. QED BY <1>3, <2>3, <2>4
<1>. QED BY <1>8, <1>9

LEMMA TidyStep == TInv /\ [Next]_vars => TInv'
<1> SUFFICES ASSUME TInv, [Next]_vars PROVE TInv'
  OBVIOUS
<1>1. IInv' /\ IInv
  BY Inductive DEF TInv
<1>2. before' = before
  BY DEF Next, vars, Begin, Upsert, UpdateStage, Undo, GiveUp, Crash
<1>3. SUFFICES ASSUME mishaps' = 0, NEW r \in rows' \ (before \cup Staging)
               PROVE  Accounted(r)'
  BY <1>1, <1>2 DEF TInv, Tidy, Closed, Parent
<1> USE DEF IInv, Types
<1>4. ASSUME rows' = rows, mishaps = 0, \A w \in Writer : Begun(w, r) => Begun(w, r)'
      PROVE  Accounted(r)'
  <2>1. Accounted(r)
    BY <1>3, <1>4 DEF TInv, Tidy
  <2>. QED BY <1>4, <2>1, AccountedKept
<1>5. ASSUME NEW w \in Writer, done[w] \in {0, 3}, Finish(w)
      PROVE  \A v \in Writer : Begun(v, r) => Begun(v, r)'
  <2>1. ~Begun(w, r)
    BY <1>5 DEF Begun
  <2>2. \A v \in Writer : v # w => done'[v] = done[v] /\ email'[v] = email[v]
    BY <1>1, <1>5 DEF Finish
  <2>. QED BY <2>1, <2>2 DEF Begun, Target
<1>6. CASE UNCHANGED vars
  BY <1>3, <1>4, <1>6 DEF vars, Begun, Target
<1>7. ASSUME NEW w \in Writer, NEW e \in Email, Begin(w, e)
      PROVE  Accounted(r)'
  <2>1. rows' = rows /\ mishaps' = mishaps /\ done' = done /\ done[w] = 0
    BY <1>1, <1>7 DEF Begin, UndoStops
  <2>2. ~Begun(w, r) /\ \A v \in Writer : v # w => email'[v] = email[v]
    BY <1>1, <1>7, <2>1 DEF Begin, Begun
  <2>. QED BY <1>3, <1>4, <2>1, <2>2 DEF Begun, Target
<1>8. ASSUME NEW w \in Writer, UpdateStage(w)
      PROVE  Accounted(r)'
  <2>1. done[w] = 3 /\ Finish(w) /\ mishaps' = mishaps /\ email[w] \in Email /\ pc[w] = "do"
    BY <1>1, <1>8 DEF UpdateStage
  <2>2. r \in rows /\ rows \subseteq rows'
    <3>1. Target(email[w], 1) = leadOf[threadOf[email[w]]] /\ leadOf[threadOf[email[w]]] \in Lead
          /\ threadOf[email[w]] \in Thread
      BY <2>1, PathRows
    <3>2. RootOf(email[w]) = leadOf[threadOf[email[w]]]
      BY <2>1, CompoundAssumption DEF RootOf
    <3>3. Target(email[w], 1) \in rows \cup Staging
      <4>1. CASE Primary(email[w])
        <5>1. email[w] \in rows
          BY <1>1, <2>1, <4>1 DEF Written
        <5>. QED BY <1>1, <2>1, <3>1, <5>1, MessageHasPath DEF Path
      <4>2. CASE ~Primary(email[w])
        BY <3>1, <3>2, <4>2 DEF Primary
      <4>. QED BY <4>1, <4>2
    <3>. QED BY <1>3, <1>8, <3>3 DEF UpdateStage
  <2>3. Accounted(r)
    BY <1>3, <2>1, <2>2 DEF TInv, Tidy
  <2>. QED BY <1>5, <2>1, <2>2, <2>3, AccountedKept
<1>9. ASSUME NEW w \in Writer, GiveUp(w)
      PROVE  Accounted(r)'
  BY <1>3, <1>4, <1>5, <1>9 DEF GiveUp
<1>10. ASSUME NEW w \in Writer, Crash(w)
       PROVE  FALSE
  BY <1>1, <1>3, <1>10 DEF Crash, Mishap
<1>. QED
  BY <1>3, <1>6, <1>7, <1>8, <1>9, <1>10, TidyUpsert, TidyUndo DEF Next, TInv

(* With no mishap, once every compound has ended, whatever failed has      *)
(* taken back every lead and conversation that no message needs, although  *)
(* several compounds used the same rows (execute_compound, rollback_step). *)
THEOREM NothingIsLeft == Spec => []FailureLeavesNothing
<1>1. Init => TInv
  BY Initially DEF Init, TInv, Tidy
<1>2. TInv => FailureLeavesNothing
  <2> SUFFICES ASSUME TInv, mishaps = 0, \A w \in Writer : pc[w] = "idle",
                      NEW r \in rows \ (before \cup Staging)
               PROVE  Covered(r)
    BY DEF FailureLeavesNothing, Covered
  <2>1. \A w \in Writer : ~Begun(w, r)
    BY BegunRow DEF TInv
  <2>. QED BY <2>1 DEF TInv, Tidy, Accounted
<1>. QED BY <1>1, <1>2, TidyStep, PTL DEF Spec
=============================================================================
