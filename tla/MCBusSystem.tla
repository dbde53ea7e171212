---------------------------- MODULE MCBusSystem ----------------------------
(***************************************************************************)
(* Small instances of BusSystem: a phone where two riders and the          *)
(* administrator log in, a desk shared by a rider and the administrator,   *)
(* the administrator's office.                                             *)
(***************************************************************************)
EXTENDS BusSystem, MCBusinessLogic

CONSTANTS phone, desk, office, other   \* sessions

OneRoute == <<"AUC -> Nasr City">>

Admin == Credentials("LOGIN", {admin}, {adminpw})
Alice == Credentials("REGISTER", {alice}, {secret1})

MCLogins ==
  [c \in {phone, desk, office} |->
     CASE c = phone -> Alice \cup Admin \cup Credentials("LOGIN", {bob}, {secret1})
       [] c = desk -> Alice \cup Admin
       [] c = office -> Admin]

LateTrip == {[time |-> evening, destination |-> "Zayed"]}

(* Bob registers elsewhere.                                                *)
OtherRequests == Credentials("REGISTER", {bob}, {secret1})
=============================================================================
