---------------------------- MODULE CompoundWrite ----------------------------
(***************************************************************************)
(* Storing an inbound email: the compound write of the persistence agent   *)
(* (tiers/tier_3/persistence_agent/compound_handler.py) with the steps     *)
(* that LeadsOrchestrator._build_inbound_email_steps gives it: upsert the  *)
(* lead, upsert its conversation, upsert the message, update the stage.    *)
(*                                                                         *)
(* Each step is a request of its own to the database; nothing is a         *)
(* transaction.  When one of the upserts fails, the steps before it are    *)
(* rolled back in reverse order by deleting their rows, whether they       *)
(* inserted the row or found it; SupabaseAdapter.delete returns its errors *)
(* instead of raising them, and nobody looks at what it returns.  Ids are  *)
(* computed from the email, so a compound that runs again writes the same  *)
(* rows.                                                                   *)
(*                                                                         *)
(* The database is external: foreign keys refuse a row without its parent, *)
(* and refuse to delete a parent (leads, conversations, messages) or take  *)
(* what hangs below it along (the staging tables: ON DELETE CASCADE).      *)
(***************************************************************************)
EXTENDS Naturals, FiniteSets

CONSTANTS
  Writer,      \* the persistence worker processes
  Lead,        \* ids of lead rows
  Thread,      \* ids of conversation rows
  Email,       \* ids of message rows, one for each inbound email
  leadOf,      \* [Thread -> Lead]
  threadOf,    \* [Email -> Thread]
  Staging,     \* the leads that are in the staging tables, where deletes cascade
  MaxRuns,     \* bound: [Email -> Nat], executions of an email's compound
  MaxFaults,   \* bound: upserts that fail and change nothing
  MaxMishaps,  \* bound: other trouble (see Mishap)
  NoEmail      \* a writer that has nothing to do

ASSUME CompoundAssumption ==
  /\ leadOf \in [Thread -> Lead]
  /\ threadOf \in [Email -> Thread]
  /\ Lead \cap Thread = {} /\ Lead \cap Email = {} /\ Thread \cap Email = {}
  /\ Staging \subseteq Lead
  /\ MaxRuns \in [Email -> Nat]
  /\ MaxFaults \in Nat /\ MaxMishaps \in Nat
  /\ NoEmail \notin Email

VARIABLES
  before,   \* the rows that were there when the system started
  rows,     \* the rows of the database
  pc,       \* [Writer -> {"idle", "do", "undo"}]
  email,    \* [Writer -> Email or NoEmail]: the compound being executed
  done,     \* [Writer -> 0 .. 3]: how many upserts succeeded, or are left to undo
  runs,     \* [Email -> Nat]: executions begun
  stored,   \* SUBSET Email: the compounds that returned success
  faults, mishaps

vars == <<before, rows, pc, email, done, runs, stored, faults, mishaps>>

Row == Lead \cup Thread \cup Email

Parent(r) == IF r \in Thread THEN leadOf[r] ELSE threadOf[r]
Children(r) == {c \in Thread \cup Email : Parent(c) = r}
Closed(R) == \A c \in R : c \notin Lead => Parent(c) \in R

(* The row that the k-th upsert of an email's compound writes.             *)
Target(e, k) == IF k = 1 THEN leadOf[threadOf[e]] ELSE IF k = 2 THEN threadOf[e] ELSE e
RootOf(r) ==
  IF r \in Lead THEN r ELSE IF r \in Thread THEN leadOf[r] ELSE leadOf[threadOf[r]]
Path(e) == {leadOf[threadOf[e]], threadOf[e], e}

Init ==
  /\ before \in {R \in SUBSET Row : Closed(R)}
  /\ rows = before
  /\ pc = [w \in Writer |-> "idle"]
  /\ email = [w \in Writer |-> NoEmail]
  /\ done = [w \in Writer |-> 0]
  /\ runs = [e \in Email |-> 0]
  /\ stored = {}
  /\ faults = 0 /\ mishaps = 0

-----------------------------------------------------------------------------
(* An upsert that fails and changes nothing is a fault.  A mishap is an    *)
(* upsert that was applied although it raised, a delete that did not reach *)
(* the database, or the end of the process.                                *)
Fault == faults < MaxFaults /\ faults' = faults + 1 /\ UNCHANGED mishaps
Mishap == mishaps < MaxMishaps /\ mishaps' = mishaps + 1 /\ UNCHANGED faults

Finish(w) ==
  /\ pc' = [pc EXCEPT ![w] = "idle"]
  /\ email' = [email EXCEPT ![w] = NoEmail]
  /\ done' = [done EXCEPT ![w] = 0]

(* A writer takes an email's compound from the task stream: for the first  *)
(* time, or again because it was redelivered or submitted once more.  The  *)
(* consumer group gives an entry to one worker at a time.                  *)
Begin(w, e) ==
  /\ pc[w] = "idle"
  /\ \A v \in Writer : email[v] # e
  /\ runs[e] < MaxRuns[e]
  /\ runs' = [runs EXCEPT ![e] = @ + 1]
  /\ pc' = [pc EXCEPT ![w] = "do"]
  /\ email' = [email EXCEPT ![w] = e]
  /\ UNCHANGED <<before, rows, done, stored, faults, mishaps>>

(* execute_compound after a failed step with on_error "fail": the failed   *)
(* step itself is not rolled back.                                         *)
FailUndoingAll(w) ==
  /\ pc' = [pc EXCEPT ![w] = "undo"]
  /\ done' = [done EXCEPT ![w] = @ + 1]
FailKeepingAll(w) ==
  /\ pc' = [pc EXCEPT ![w] = "undo"]
  /\ done' = [done EXCEPT ![w] = 0]
Fail(w) ==
  /\ pc' = [pc EXCEPT ![w] = "undo"]
  /\ UNCHANGED done

Succeed(w) ==
  /\ done' = [done EXCEPT ![w] = @ + 1]
  /\ UNCHANGED pc

(* execute_step, UPSERT, with the outcome that _retry_upsert ends with.    *)
Upsert(w) ==
  /\ pc[w] = "do" /\ done[w] < 3
  /\ LET r == Target(email[w], done[w] + 1)
     IN  IF r \notin Lead /\ Parent(r) \notin rows
         THEN Fail(w) /\ UNCHANGED <<rows, faults, mishaps>>
         ELSE \/ rows' = rows \cup {r} /\ Succeed(w) /\ UNCHANGED <<faults, mishaps>>
              \/ Fault /\ Fail(w) /\ UNCHANGED rows
              \/ Mishap /\ Fail(w) /\ rows' = rows \cup {r}
  /\ UNCHANGED <<before, email, runs, stored>>

(* execute_step, UPDATE by id, which is an upsert too: it would insert a   *)
(* lead that is not there, unless the schema refuses the columns.  on_error *)
(* is "warn": the compound succeeds either way.                            *)
UpdateStageEarly(w) ==
  /\ pc[w] = "do" /\ done[w] >= 2
  /\ rows' \in {rows, rows \cup {Target(email[w], 1)}}
  /\ stored' = stored \cup {email[w]}
  /\ Finish(w)
  /\ UNCHANGED <<before, runs, faults, mishaps>>
UpdateStage(w) ==
  /\ pc[w] = "do" /\ done[w] = 3
  /\ rows' \in {rows, rows \cup {Target(email[w], 1)}}
  /\ stored' = stored \cup {email[w]}
  /\ Finish(w)
  /\ UNCHANGED <<before, runs, faults, mishaps>>

(* What the database does with a delete of row r.                          *)
Below(r) == {r} \cup Children(r) \cup UNION {Children(c) : c \in Children(r)}
AfterDelete(r) ==
  IF RootOf(r) \in Staging THEN rows \ Below(r)
  ELSE IF Children(r) \cap rows = {} THEN rows \ {r} ELSE rows

(* rollback_step of the last step not yet rolled back.                     *)
Undo(w) ==
  /\ pc[w] = "undo" /\ done[w] > 0
  /\ \/ rows' = AfterDelete(Target(email[w], done[w])) /\ UNCHANGED <<faults, mishaps>>
     \/ Mishap /\ UNCHANGED rows
  /\ done' = [done EXCEPT ![w] = @ - 1]
  /\ UNCHANGED <<before, pc, email, runs, stored>>

(* execute_compound returns success = False; the consumer publishes that   *)
(* as a result and acknowledges the task.                                  *)
GiveUp(w) ==
  /\ pc[w] = "undo" /\ done[w] = 0
  /\ Finish(w)
  /\ UNCHANGED <<before, rows, runs, stored, faults, mishaps>>

(* The process ends between two requests; its database rows stay.          *)
Crash(w) ==
  /\ pc[w] # "idle"
  /\ Mishap
  /\ Finish(w)
  /\ UNCHANGED <<before, rows, runs, stored>>

Next ==
  \E w \in Writer :
    \/ \E e \in Email : Begin(w, e)
    \/ Upsert(w) \/ UpdateStage(w) \/ Undo(w) \/ GiveUp(w) \/ Crash(w)

Spec == Init /\ [][Next]_vars

-----------------------------------------------------------------------------
(* The type invariant.  A writer has a compound exactly while it works on  *)
(* one, begins each with its first step, and a rollback never includes the *)
(* message: the last upsert either failed, and a failed step is not rolled *)
(* back, or ended what can fail the compound (execute_compound).           *)
TypeOK ==
  /\ before \subseteq Row
  /\ rows \subseteq Row
  /\ pc \in [Writer -> {"idle", "do", "undo"}]
  /\ email \in [Writer -> Email \cup {NoEmail}]
  /\ done \in [Writer -> 0 .. 3]
  /\ runs \in [Email -> Nat] /\ \A e \in Email : runs[e] <= MaxRuns[e]
  /\ stored \subseteq Email
  /\ faults \in 0 .. MaxFaults /\ mishaps \in 0 .. MaxMishaps
  /\ \A w \in Writer : /\ pc[w] = "idle" <=> email[w] = NoEmail
                       /\ pc[w] = "idle" => done[w] = 0
                       /\ pc[w] = "undo" => done[w] <= 2

(* In the primary tables an email that was reported as stored keeps its    *)
(* message, conversation and lead, however many other compounds on the     *)
(* same lead and thread fail and roll back around it.                      *)
StoredIsKept ==
  \A e \in stored : RootOf(e) \notin Staging => Path(e) \subseteq rows

(* With no mishap, compounds that failed leave no lead or conversation     *)
(* behind that no message needs, although several of them shared the rows. *)
(* (A staging lead may come back from UpdateStage.)                        *)
FailureLeavesNothing ==
  mishaps = 0 /\ (\A w \in Writer : pc[w] = "idle") =>
    \A r \in rows \ (before \cup Staging) : \E e \in Email \cap rows : r \in Path(e)

(* In the primary tables the final update of the lead never inserts one: a *)
(* lead that another writer's rollback deleted does not come back.         *)
StageResurrectsNobody ==
  [][\A w \in Writer :
       UpdateStage(w) /\ RootOf(email[w]) \notin Staging => rows' = rows]_vars

-----------------------------------------------------------------------------
(* compound_handler.py, rollback_step: "Rollback a successful              *)
(* create/upsert step by deleting created records": in particular it never *)
(* removes a row that was there before or that a stored email needs.       *)
Needed == before \cup UNION {Path(e) : e \in stored}
RollbackDeletesCreated ==
  [][\A w \in Writer : Undo(w) => (rows \ rows') \cap Needed = {}]_vars
=============================================================================
