---------------------------- MODULE TaskDelivery ----------------------------
(***************************************************************************)
(* What a Tier-3 task stream promises to the orchestrators that feed it:   *)
(* at-least-once handling.  A task is queued, then leased to the consumer  *)
(* group, and it leaves the group only when at least one outcome (a result *)
(* envelope, an error envelope or a dead letter) has been recorded for it. *)
(* After that nothing more is ever recorded about it.                      *)
(*                                                                         *)
(* Nothing is said here about workers, Redis calls, retries or crashes:    *)
(* AgentConsumer adds those and is shown to implement this specification.  *)
(***************************************************************************)
CONSTANTS Task,      \* the tasks that may be submitted
          Outcome    \* the kinds of outcome a task may be given

VARIABLES phase,     \* [Task -> Phase]: where the task is
          recorded   \* [Task -> SUBSET Outcome]: the outcomes recorded for it

vars == <<phase, recorded>>

Phase == {"absent", "queued", "leased", "settled"}

Init ==
  /\ phase = [t \in Task |-> "absent"]
  /\ recorded = [t \in Task |-> {}]

Advance(t, from, to) ==
  /\ phase[t] = from
  /\ phase' = [phase EXCEPT ![t] = to]
  /\ UNCHANGED recorded

Submit(t) == Advance(t, "absent", "queued")

Lease(t) == Advance(t, "queued", "leased")

(* An outcome may be recorded more than once while the task is leased.     *)
Record(t, k) ==
  /\ phase[t] = "leased"
  /\ recorded' = [recorded EXCEPT ![t] = @ \cup {k}]
  /\ UNCHANGED phase

Settle(t) ==
  /\ recorded[t] # {}
  /\ Advance(t, "leased", "settled")

Next ==
  \E t \in Task :
    \/ Submit(t)
    \/ Lease(t)
    \/ \E k \in Outcome : Record(t, k)
    \/ Settle(t)

Spec == Init /\ [][Next]_vars
=============================================================================
