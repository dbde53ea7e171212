---------------------------- MODULE HandlerSteps ----------------------------
(***************************************************************************)
(* The request handlers call by call.  DataStore locks its mutex in each   *)
(* method and a handler calls several of them, so that nothing but the     *)
(* single thread in io_context::run keeps another session's handler from   *)
(* running between two calls.  A handler that looks something up first is  *)
(* two steps here, on the thread that runs it: the look-up, and what it    *)
(* then does.  handleGetUserDetail looks up more, one call after another,  *)
(* and is as many steps.  The others are one.                              *)
(*                                                                         *)
(* handleRegister is one of the others: the row its second call looks for  *)
(* is the one its first call added, which nothing removes.                 *)
(***************************************************************************)
EXTENDS BusinessLogic

VARIABLE running   \* the handler in progress on each thread, or NoHandler

stepVars == <<logicVars, running>>

NoHandler == [session |-> "none"]

(* Mutant: a pool of two.                                                  *)
ThreadPool == {"main", "worker"}

(* The threads that are in io_context::run.                                *)
Threads == {"main"}

LooksUp == {"ADD_ROUTE", "DEL_ROUTE", "UPDATE_SCHEDULE", "GET_USERS",
            "get_user_detail", "GET_DEMAND", "SUBSCRIBE", "RIDE"}
----------------------------------------------------------------------------
(* A session reads its next request when its handler has returned.         *)
CanRun(t, s) ==
  /\ running[t] = NoHandler
  /\ \A u \in Threads : running[u] # NoHandler => running[u].session # s

(* What the handler's first call to the store tells it.                    *)
LookUp(s, req) ==
  LET rid == Value(req, "routeId", 0) IN
  IF req.type = "SUBSCRIBE" THEN FindRouteById(rid) # {}
  ELSE IF req.type = "RIDE" THEN IsSubscribed(sessionUserId[s], rid)
  ELSE IsAdmin(s)

(* A handler in progress: its session and request, what its first call     *)
(* found, and of handleGetUserDetail the user found, the routes not looked *)
(* up yet and those that were.                                             *)
InHand(s, req, found, stage, user, unread, listed) ==
  [session |-> s, req |-> req, found |-> found, stage |-> stage,
   user |-> user, unread |-> unread, listed |-> listed]

Start(t, s, req) ==
  /\ CanRun(t, s)
  /\ sessionUserId[s] # 0 /\ req.type \in LooksUp
  /\ req.type = "ADD_ROUTE" => nextRouteId <= MaxRoutes
  /\ req.type = "RIDE" => nextTicketId <= MaxTickets
  /\ running' = [running EXCEPT ![t] = InHand(s, req, LookUp(s, req), "begun", {}, {}, {})]
  /\ UNCHANGED logicVars

(* handleGetUserDetail goes on: the user, the numbers of the routes they   *)
(* are subscribed to, and each of these routes by a call of its own.       *)
GoOn(t, stage, user, unread, listed) ==
  LET h == running[t] IN
  /\ running' = [running EXCEPT ![t] =
                   InHand(h.session, h.req, h.found, stage, user, unread, listed)]
  /\ UNCHANGED logicVars

Target(h) == Value(h.req, "userId", 0)

LookUpUser(t) ==
  LET h == running[t] IN
  /\ h # NoHandler /\ h.req.type = "get_user_detail" /\ h.stage = "begun" /\ h.found
  /\ FindUserById(Target(h)) # {}
  /\ GoOn(t, "user", FindUserById(Target(h)), {}, {})

LookUpSubscriptions(t) ==
  LET h == running[t] IN
  /\ h # NoHandler /\ h.stage = "user"
  /\ GoOn(t, "routes", h.user, SubscribedRouteIds(Target(h)), {})

LookUpRoute(t) ==
  LET h == running[t] IN
  /\ h # NoHandler /\ h.stage = "routes"
  /\ \E rid \in h.unread :
       GoOn(t, "routes", h.user, h.unread \ {rid}, h.listed \cup FindRouteById(rid))

FinishUserDetail(h) ==
  /\ h.stage = "routes" /\ h.unread = {}
  /\ \E u \in h.user :
       Answer(h.session, [type |-> "user_detail", user |-> ToPublicJson(u),
                          subscriptions |-> h.listed,
                          tickets |-> RowsOf(Target(h), tickets)])

(* The rest of the handlers that need the administrator's role.            *)
FinishAsAdmin(s, req, isAdmin) ==
  LET rid == Value(req, "routeId", 0)
      target == Value(req, "userId", 0)
  IN
  /\ req.type \in LooksUp \ {"SUBSCRIBE", "RIDE"}
  /\ \/ ~isAdmin /\ Refuse(s, "Unauthorized")
     \/ /\ isAdmin /\ req.type = "ADD_ROUTE"
        /\ AddRoute(Value(req, "name", EmptyText), Value(req, "schedule", EmptyText))
        /\ Send(s, [type |-> "ROUTE_OK"]) /\ UNCHANGED sessionUserId
     \/ /\ isAdmin /\ req.type = "DEL_ROUTE" /\ FindRouteById(rid) = {}
        /\ Refuse(s, "Failed to delete")
     \/ /\ isAdmin /\ req.type = "DEL_ROUTE"
        /\ DeleteRoute(rid)
        /\ Send(s, MakeOk("Deleted")) /\ UNCHANGED sessionUserId
     \/ /\ isAdmin /\ req.type = "UPDATE_SCHEDULE"
        /\ UpdateRouteSchedule(rid, Value(req, "schedule", <<>>))
        /\ Send(s, MakeOk("Schedule updated")) /\ UNCHANGED sessionUserId
     \/ /\ isAdmin /\ req.type = "GET_USERS"
        /\ Answer(s, [type |-> "USERS_LIST", users |-> {ToPublicJson(u) : u \in users}])
     \/ /\ isAdmin /\ req.type = "GET_DEMAND"
        /\ Answer(s, [type |-> "DEMAND_LIST", demand |-> AggregatedDemand])
     \/ /\ isAdmin /\ req.type = "get_user_detail" /\ FindUserById(target) = {}
        /\ Refuse(s, "User not found")

FinishSubscribe(s, req, routeExists) ==
  LET uid == sessionUserId[s]
      rid == Value(req, "routeId", 0)
  IN
  /\ req.type = "SUBSCRIBE"
  /\ \/ ~routeExists /\ Refuse(s, "Route does not exist.")
     \/ /\ routeExists /\ IsSubscribed(uid, rid)
        /\ Refuse(s, "Already subscribed to this route.")
     \/ /\ routeExists
        /\ Subscribe(uid, rid)
        /\ Send(s, MakeOk("Subscribed successfully!")) /\ UNCHANGED sessionUserId

(* Mutant: a ride on a route that has been deleted is not charged.         *)
FinishRideOnRoutes(s, req, subscribed) ==
  LET rid == Value(req, "routeId", 0) IN
  /\ req.type = "RIDE"
  /\ \/ (subscribed \/ FindRouteById(rid) = {}) /\ RideRecorded(s, rid)
     \/ ~subscribed /\ FindRouteById(rid) # {} /\ RideCharged(s, rid)
  /\ UNCHANGED sessionUserId

(* A ride is free if a subscription was found, and charged otherwise.      *)
FinishRide(s, req, subscribed) ==
  LET rid == Value(req, "routeId", 0) IN
  /\ req.type = "RIDE"
  /\ \/ subscribed /\ RideRecorded(s, rid)
     \/ ~subscribed /\ RideCharged(s, rid)
  /\ UNCHANGED sessionUserId

Finish(t) ==
  LET h == running[t] IN
  /\ h # NoHandler
  /\ \/ /\ h.stage = "begun"
        /\ \/ FinishAsAdmin(h.session, h.req, h.found)
           \/ FinishSubscribe(h.session, h.req, h.found)
           \/ FinishRide(h.session, h.req, h.found)
     \/ FinishUserDetail(h)
  /\ running' = [running EXCEPT ![t] = NoHandler]

(* All other requests, and everything on a session that is nobody's.       *)
RunWhole(t, s, req) ==
  /\ CanRun(t, s)
  /\ sessionUserId[s] = 0 \/ req.type \notin LooksUp
  /\ HandleMessage(s, req)
  /\ UNCHANGED running

AcceptOn(t, s) == CanRun(t, s) /\ Accept(s) /\ UNCHANGED running

StepsInit == Init /\ running = [t \in Threads |-> NoHandler]

StepsNext ==
  \E t \in Threads :
    \/ LookUpUser(t) \/ LookUpSubscriptions(t) \/ LookUpRoute(t) \/ Finish(t)
    \/ \E s \in Sessions : \/ AcceptOn(t, s)
                           \/ \E req \in Requests : Start(t, s, req) \/ RunWhole(t, s, req)

StepsSpec == StepsInit /\ [][StepsNext]_stepVars
----------------------------------------------------------------------------
(* Properties *)

(* Taken call by call, the handlers do what they do as whole actions in    *)
(* BusinessLogic, about which everything else is said and proved.          *)
ImplementsHandlers == Spec
=============================================================================
