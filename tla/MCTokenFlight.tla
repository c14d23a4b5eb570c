---------------------------- MODULE MCTokenFlight ----------------------------
(* Instances of the token cache for TLC: callers that ask it for anything at   *)
(* any time (TokenFlight), or whose requests do (AuthRequest). A history is    *)
(* one of the two.                                                             *)
EXTENDS AuthRequest, TLC

CONSTANT Parts

VARIABLE active

ASSUME RequestAssumption

(* Requests of either kind. *)
MCWorkloads == {[kinds |-> {"plain", "body"}, keys |-> Keys, requests |-> 3]}

FlightInit == active \in Parts /\ RequestInit

FlightNext ==
  \/ active = "calls" /\ Next /\ UNCHANGED <<active, requestVars>>
  \/ active = "requests" /\ RequestNext /\ UNCHANGED active

FlightSpec == FlightInit /\ [][FlightNext]_<<active, allVars>>

(* Flight identities are used only when no Arc is left, and one caller     *)
(* holds at most one, so as many as there are callers are enough.          *)
FlightSymmetry == Permutations(FlightIds) \cup Permutations(Callers)
=============================================================================
