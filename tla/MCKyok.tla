------------------------------- MODULE MCKyok -------------------------------
(* Instances of Kyok for TLC: links, runs and offerings are interchangeable. *)
EXTENDS Kyok, TLC

MCSymmetry ==
  Permutations(Connections) \cup Permutations(Nonces) \cup Permutations(Runs) \cup Permutations(Names)
=============================================================================
