------------------------------ MODULE MCBroker ------------------------------
(* Instances of Broker for TLC: two runs that contend for one place of one
   provider, which may serve a second agent besides theirs. *)
EXTENDS Broker, TLC

CONSTANTS r1, r2, a1, a2, p1

MCOneAgent == [r \in Runs |-> a1]
MCOwner == [a \in Agents |-> p1]
MCLimitOne == [p \in Providers |-> 1]

(* Run ids are interchangeable when every run is of the same agent. *)
MCRunSymmetry == Permutations(Runs)
=============================================================================
