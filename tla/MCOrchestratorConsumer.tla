----------------------- MODULE MCOrchestratorConsumer -----------------------
(* OrchestratorConsumer on a small instance of two consumer processes.     *)
EXTENDS OrchestratorConsumer

CONSTANTS w1, w2

(* Two processes on one host: the process ids differ.                      *)
OwnPid == [w \in Worker |-> w]
=============================================================================
