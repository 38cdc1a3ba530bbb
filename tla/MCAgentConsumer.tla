--------------------------- MODULE MCAgentConsumer ---------------------------
(* AgentConsumer on a small instance: two workers, one of them with the    *)
(* undecoded client that main() builds.                                    *)
EXTENDS AgentConsumer

CONSTANTS w1, w2
=============================================================================
