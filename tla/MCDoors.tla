------------------------------ MODULE MCDoors ------------------------------
(* An instance of Doors for TLC: one request through each door.  A head h1
   acts itself, through a session key s1 or as the origin of a chain of two;
   the provider p1 acts too; an expired hop is refused. *)
EXTENDS Doors, TLC

CONSTANTS q1, q2, q3, h1, p1, s1

MCDoorOf == q1 :> "ag-ui" @@ q2 :> "a2a" @@ q3 :> "start_run"

MCCertificate == sign_delegation(h1, s1, "in date")

MCCallers ==
  {[chain |-> None, delegation |-> None],
   [chain |-> new_chain(p1, "in date"), delegation |-> None],
   [chain |-> extend_chain(p1, new_chain(h1, "expired"), "in date"), delegation |-> None],
   [chain |-> new_chain(s1, "in date"), delegation |-> MCCertificate],
   [chain |-> new_chain(h1, "expired"), delegation |-> None]}

MCResolutions ==
  {[resolution |-> sign_resolution(k, r, "in date"), delegation |-> d] :
     k \in {p1, s1}, r \in Requests, d \in {None, MCCertificate}}
=============================================================================
