-------------------------- MODULE MCReplyPipeline --------------------------
(* Two emails for the reply pipeline: a from a lead, b from a staged sender *)
(* of the highest grade; and one from a new sender of that grade.           *)
EXTENDS ReplyPipeline

CONSTANTS a, b

MCSource == [e \in Email |-> IF e = a THEN "leads" ELSE "staging"]
MCScore == [e \in Email |-> IF e = a THEN "promote" ELSE "fast"]
MCNew == [e \in Email |-> "new"]
MCFast == [e \in Email |-> "fast"]

MCAllowed == {<<2, 0, {b}, {"inbound"}>>, <<1, 1, {b}, {"inbound"}>>,
              <<1, 0, {a}, Routing>>, <<0, 1, {a}, Routing>>, <<0, 0, {a, b}, Routing>>}
MCQuiet == {<<0, 0, {a}, Routing>>}
=============================================================================
