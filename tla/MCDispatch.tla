----------------------------- MODULE MCDispatch -----------------------------
(* Instances of Dispatch for TLC: one run, with as many rounds as it pauses,
   on one agent of a provider that takes one run at a time. *)
EXTENDS Dispatch

CONSTANTS r1, a1, p1

MCAgentOf == [r \in Runs |-> a1]
MCOwner == [a \in Agents |-> p1]
MCLimit == [p \in Providers |-> 1]
=============================================================================
