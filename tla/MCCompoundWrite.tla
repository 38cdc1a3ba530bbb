--------------------------- MODULE MCCompoundWrite ---------------------------
(* CompoundWrite on a small instance: a lead with two threads, one of two   *)
(* emails, and a staging lead with one thread of two emails.                *)
EXTENDS CompoundWrite, TLC

CONSTANTS w1, w2, l1, s1, t1, t2, u1, e1, e2, e3, f1, f2

Leads == [t \in Thread |-> IF t = u1 THEN s1 ELSE l1]
Threads == [e \in Email |-> IF e \in {f1, f2} THEN u1 ELSE IF e = e3 THEN t2 ELSE t1]

(* One email is executed twice.                                            *)
Runs == [e \in Email |-> IF e = e1 THEN 2 ELSE 1]

Writers == Permutations(Writer)
=============================================================================
