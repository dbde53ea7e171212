-------------------------- MODULE MCUserDashboard --------------------------
(***************************************************************************)
(* Small instances of UserDashboard: one or two riders' clients, and the   *)
(* administrator's session where a route is closed.                        *)
(***************************************************************************)
EXTENDS UserDashboard, MCBusinessLogic

CONSTANTS phone, office   \* sessions

OneRoute == <<"AUC -> Nasr City">>

(* Alice registers on her phone.                                           *)
OneAccount == [c \in {phone} |-> Credentials("REGISTER", {alice}, {secret1})]

(* Alice and Bob share a phone, one logging in after the other.            *)
SharedPhone ==
  [c \in {phone} |-> Credentials("REGISTER", {alice, bob}, {secret1})]

(* The administrator closes a route.                                       *)
OfficeRequests == Credentials("LOGIN", {admin}, {adminpw}) \cup OnRoute("DEL_ROUTE", {1})
=============================================================================
