--------------------------- MODULE MCHandlerSteps ---------------------------
(***************************************************************************)
(* A small instance of HandlerSteps: a rider's session and the             *)
(* administrator's, with routes that come and go.                          *)
(***************************************************************************)
EXTENDS HandlerSteps, MCBusinessLogic

StepRequests ==
  Credentials("REGISTER", {alice}, {secret1})
  \cup Credentials("LOGIN", {admin}, {adminpw})
  \cup {[type |-> "ADD_ROUTE", name |-> "AUC -> Zayed"]}
  \cup {[type |-> "UPDATE_SCHEDULE", routeId |-> 1]}
  \cup {[type |-> "get_user_detail", userId |-> uid] : uid \in {2, 3}}
  \cup {Bare("GET_USERS"), Bare("GET_DEMAND")}
  \cup OnRoute("DEL_ROUTE", {1}) \cup OnRoute("SUBSCRIBE", {1, 2})
  \cup OnRoute("UNSUBSCRIBE", {1}) \cup OnRoute("RIDE", {1})

StepRoutes == <<"AUC -> Nasr City">>
=============================================================================
