---------------------------- MODULE MCWriteWorker ----------------------------
(* WriteWorker on a small instance: any troubles, but at most two of them. *)
EXTENDS WriteWorker, FiniteSetsExt

CONSTANTS w1, w2

Kinds == {"fault", "crash", "stop", "throttle", "rewind", "expiry"}
TwoTroubles == {s \in [Kinds -> 0 .. 2] : MapThenSumSet(LAMBDA k : s[k], Kinds) <= 2}
=============================================================================
