------------------------------ MODULE MCLosses ------------------------------
(***************************************************************************)
(* A small instance of Losses: the desk of MCBusSystem, where a rider and  *)
(* the administrator log in, and a session where they do so elsewhere.     *)
(***************************************************************************)
EXTENDS Losses, MCBusSystem

ElsewhereRequests ==
  Credentials("LOGIN", {alice}, {secret1}) \cup Admin
  \cup {[type |-> "SET_VOTES", votes |-> <<>>],
        [type |-> "UPDATE_SCHEDULE", routeId |-> 1, schedule |-> <<>>]}
=============================================================================
