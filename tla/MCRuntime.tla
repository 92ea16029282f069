----------------------------- MODULE MCRuntime -----------------------------
(* An instance of Runtime for TLC: three runs that share a thread and one
   whose agent is not serialized. *)
EXTENDS Runtime

CONSTANTS r1, r2, r3, r4, t1

MCThreadOf == [r \in Runs |-> IF r = r4 THEN None ELSE t1]
=============================================================================
