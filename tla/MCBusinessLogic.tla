-------------------------- MODULE MCBusinessLogic --------------------------
(***************************************************************************)
(* Small instances of BusinessLogic.  The strings are model values; each   *)
(* run takes the requests of one concern, so that the others' tables stay  *)
(* small.                                                                  *)
(***************************************************************************)
EXTENDS BusinessLogic

CONSTANTS alice, bob, admin, empty, secret1, secret2, adminpw, abc,
          morning, afternoon, evening, university

MCUserNames == {alice, bob, admin}
MCPasswords == {secret1, secret2, adminpw, abc, empty}
MCShortPasswords == {adminpw, abc, empty}
MCRouteNames == {"AUC -> Nasr City", "AUC -> Maadi", "AUC -> Heliopolis", "AUC -> Zayed", empty}
MCSeedRoutes == <<"AUC -> Nasr City", "AUC -> Maadi", "AUC -> Heliopolis">>
MCTimes == {morning, afternoon, evening}
MCDestinations == {university, "Nasr City", "Maadi", "Heliopolis", "Zayed", "Other Stop"}
MCRouteEnd == [n \in MCRouteNames |->
  CASE n = "AUC -> Nasr City" -> "Nasr City"
    [] n = "AUC -> Maadi" -> "Maadi"
    [] n = "AUC -> Heliopolis" -> "Heliopolis"
    [] n = "AUC -> Zayed" -> "Zayed"
    [] OTHER -> "Other Stop"]

Bare(type) == [type |-> type]
OnRoute(type, rids) == {[type |-> type, routeId |-> rid] : rid \in rids}
Credentials(type, names, passwords) ==
  {[type |-> type, username |-> n, password |-> p] : n \in names, p \in passwords}

Vote(rid, slot) == [routeId |-> rid, slot |-> slot]

(* Two riders and the administrator register, log in, and are refused for  *)
(* names taken, passwords short, wrong or missing, and requests of another *)
(* role.  The riders ask for slots, the same one twice if they like, and   *)
(* the routes and a schedule change.                                       *)
AccountRequests ==
  Credentials("REGISTER", {alice, bob}, {secret1})
  \cup Credentials("REGISTER", {admin}, {secret1, abc})
  \cup Credentials("LOGIN", {admin}, {adminpw, secret2})
  \cup Credentials("LOGIN", {alice}, {secret1}) \cup {Bare("REGISTER")}
  \cup {[type |-> "SET_VOTES", votes |-> vs] :
          vs \in {<<>>, <<Vote(1, "Sun 07")>>,
                  <<Vote(1, "Mon 07"), Vote(1, "Sun 07"), Vote(1, "Mon 07")>>}}
  \cup {Bare(t) : t \in {"GET_VOTES", "GET_DEMAND", "GET_TICKETS", "GET_ROUTES", "PING"}}
  \cup {[type |-> "UPDATE_SCHEDULE", routeId |-> 1,
          schedule |-> <<[time |-> evening, destination |-> "Zayed"]>>]}
  \cup OnRoute("RIDE", {1}) \cup OnRoute("DEL_ROUTE", {1})
=============================================================================
