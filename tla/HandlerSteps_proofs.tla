------------------------ MODULE HandlerSteps_proofs ------------------------
(***************************************************************************)
(* That one thread makes the handlers indivisible: taken call by call they *)
(* implement the handlers of BusinessLogic.                                *)
(***************************************************************************)
EXTENDS HandlerSteps, TLAPS

(* The stage a handler has reached, and what it found on the way.          *)
Found(h) ==
  \/ h.stage = "begun"
  \/ /\ h.stage \in {"user", "routes"}
     /\ h.req.type = "get_user_detail" /\ h.found
     /\ h.user = FindUserById(Target(h)) /\ h.user # {}
     /\ h.stage = "routes" =>
          /\ h.unread \subseteq SubscribedRouteIds(Target(h))
          /\ h.listed = UNION {FindRouteById(rid) :
                                rid \in SubscribedRouteIds(Target(h)) \ h.unread}

(* A handler in progress is of a session that is somebody's, its request   *)
(* is one of those that look something up, and what it found is so.        *)
InProgress(h) ==
  /\ h.session \in Sessions /\ h.req \in Requests
  /\ sessionUserId[h.session] # 0 /\ h.req.type \in LooksUp
  /\ h.found = LookUp(h.session, h.req)
  /\ Found(h)

StepsInv ==
  /\ running \in [Threads -> {running[t] : t \in Threads}]
  /\ \A t \in Threads : running[t] # NoHandler => InProgress(running[t])

(* A handler goes on, and changes no table.                                *)
Becomes(t, h) == running' = [running EXCEPT ![t] = h] /\ UNCHANGED logicVars

(* The second part of a handler that looked up the route is the whole      *)
(* handler.                                                                *)
LEMMA SubscribeWhole ==
  ASSUME NEW s, NEW req, sessionUserId[s] # 0,
         FinishSubscribe(s, req, LookUp(s, req))
  PROVE  HandleMessage(s, req)
<1>1. req.type = "SUBSCRIBE"
  BY Zenon DEF FinishSubscribe
<1>2. LookUp(s, req) = (FindRouteById(Value(req, "routeId", 0)) # {})
  BY <1>1, Zenon DEF LookUp
<1>3. HandleSubscribe(s, req)
  BY <1>1, <1>2, Zenon DEF FinishSubscribe, HandleSubscribe
<1> QED
  BY <1>3, Zenon DEF HandleMessage, HandleAuthenticated

(* So is that of a ride,                                                   *)
LEMMA RideWhole ==
  ASSUME NEW s, NEW req, sessionUserId[s] # 0,
         FinishRide(s, req, LookUp(s, req))
  PROVE  HandleMessage(s, req)
<1>1. req.type = "RIDE"
  BY Zenon DEF FinishRide
<1>2. LookUp(s, req) = IsSubscribed(sessionUserId[s], Value(req, "routeId", 0))
  BY <1>1 DEF LookUp
<1>3. HandleRide(s, req)
  BY <1>1, <1>2, Zenon DEF FinishRide, HandleRide
<1> QED
  BY <1>3, Zenon DEF HandleMessage, HandleAuthenticated

(* and that of each handler which looks at the role.                       *)
LEMMA AdminWhole ==
  ASSUME NEW s, NEW req, sessionUserId[s] # 0,
         FinishAsAdmin(s, req, LookUp(s, req))
  PROVE  HandleMessage(s, req)
<1>1. req.type \in LooksUp \ {"SUBSCRIBE", "RIDE"}
  BY Zenon DEF FinishAsAdmin
<1>2. LookUp(s, req) = IsAdmin(s)
  BY <1>1 DEF LookUp
<1>3. FinishAsAdmin(s, req, IsAdmin(s))
  BY <1>2
<1>4. \/ HandleAddRoute(s, req) \/ HandleDelRoute(s, req) \/ HandleUpdateSchedule(s, req)
      \/ HandleGetUsers(s, req) \/ HandleGetUserDetail(s, req) \/ HandleGetDemand(s, req)
  <2>1. CASE ~IsAdmin(s)
    <3>1. Refuse(s, "Unauthorized")
      BY <1>3, <2>1, Zenon DEF FinishAsAdmin
    <3>2. req.type \in {"ADD_ROUTE", "DEL_ROUTE", "UPDATE_SCHEDULE", "GET_USERS",
                        "get_user_detail", "GET_DEMAND"}
      BY <1>1 DEF LooksUp
    <3> QED
      BY <2>1, <3>1, <3>2, Zenon DEF HandleAddRoute, HandleDelRoute, HandleUpdateSchedule,
         HandleGetUsers, HandleGetUserDetail, HandleGetDemand
  <2>2. CASE IsAdmin(s)
    BY <1>3, <2>2, Zenon DEF FinishAsAdmin, HandleAddRoute, HandleDelRoute,
       HandleUpdateSchedule, HandleGetUsers, HandleGetUserDetail, HandleGetDemand
  <2> QED
    BY <2>1, <2>2
<1> QED
  BY <1>4, Zenon DEF HandleMessage, HandleAuthenticated

(* The last part of handleGetUserDetail, which has looked up all it needs, *)
(* is the whole handler.                                                   *)
LEMMA DetailWhole ==
  ASSUME NEW h, InProgress(h), FinishUserDetail(h)
  PROVE  HandleMessage(h.session, h.req)
<1>1. h.stage = "routes" /\ h.unread = {}
  BY DEF FinishUserDetail
<1>2. /\ h.req.type = "get_user_detail" /\ h.found
      /\ h.user = FindUserById(Target(h))
      /\ h.listed = UNION {FindRouteById(rid) : rid \in SubscribedRouteIds(Target(h))}
  BY <1>1 DEF InProgress, Found
<1>3. IsAdmin(h.session)
  BY <1>2 DEF InProgress, LookUp
<1>4. HandleGetUserDetail(h.session, h.req)
  BY <1>2, <1>3, Zenon DEF FinishUserDetail, HandleGetUserDetail, Target
<1> QED
  BY <1>4, Zenon DEF HandleMessage, HandleAuthenticated, InProgress

(* What was found stays so while the tables do not change.                 *)
LEMMA StillFound ==
  ASSUME NEW h, InProgress(h), UNCHANGED logicVars
  PROVE  InProgress(h)'
<1>1. UNCHANGED <<users, routes, subscriptions, sessionUserId>>
  BY DEF logicVars, store
<1>2. /\ \A id : FindUserById(id)' = FindUserById(id)
      /\ \A id : FindRouteById(id)' = FindRouteById(id)
  BY <1>1, Zenon DEF FindUserById, FindRouteById
<1>3. \A uid, rid : IsSubscribed(uid, rid)' <=> IsSubscribed(uid, rid)
  BY <1>1, Zenon DEF IsSubscribed
<1>4. \A uid : SubscribedRouteIds(uid)' = SubscribedRouteIds(uid)
  BY <1>3 DEF SubscribedRouteIds
<1>5. \A s : IsAdmin(s)' <=> IsAdmin(s)
  BY <1>1, <1>2, Zenon DEF IsAdmin
<1>6. \A s, req : LookUp(s, req)' = LookUp(s, req)
  <2> TAKE s, req
  <2>1. CASE req.type = "SUBSCRIBE"
    BY <1>2, <2>1, Zenon DEF LookUp
  <2>2. CASE req.type = "RIDE"
    BY <1>1, <1>3, <2>2 DEF LookUp, IsSubscribed
  <2>3. CASE req.type \notin {"SUBSCRIBE", "RIDE"}
    BY <1>1, <1>2, <2>3 DEF LookUp, IsAdmin
  <2> QED
    BY <2>1, <2>2, <2>3
<1>7. Found(h)'
  <2> DEFINE L(S) == {FindRouteById(rid) : rid \in S}
  <2>1. \A S : L(S)' = L(S)
    BY <1>2
  <2> QED
    BY <1>2, <1>4, Zenon DEF InProgress, Found, Target
<1> QED
  BY <1>1, <1>6, <1>7 DEF InProgress

(* A record of a handler in progress is what it was made of.               *)
LEMMA InHandFields ==
  ASSUME NEW s, NEW req, NEW found, NEW stage, NEW user, NEW unread, NEW listed,
         NEW h, h = InHand(s, req, found, stage, user, unread, listed)
  PROVE  /\ h.session = s /\ h.req = req /\ h.found = found /\ h.stage = stage
         /\ h.user = user /\ h.unread = unread /\ h.listed = listed
  BY DEF InHand

(* The look-ups of handleGetUserDetail find what the whole handler would.  *)
LEMMA LookUpsFind ==
  ASSUME NEW t \in Threads, StepsInv,
         LookUpUser(t) \/ LookUpSubscriptions(t) \/ LookUpRoute(t)
  PROVE  \E h : InProgress(h) /\ Becomes(t, h)
<1> DEFINE h == running[t]
<1>1. h # NoHandler /\ InProgress(h)
  BY DEF StepsInv, LookUpUser, LookUpSubscriptions, LookUpRoute
<1> HIDE DEF h
<1>2. ASSUME NEW stage \in {"user", "routes"}, NEW user, NEW unread, NEW listed,
             GoOn(t, stage, user, unread, listed),
             h.req.type = "get_user_detail", h.found, user = FindUserById(Target(h)), user # {},
             stage = "routes" =>
               /\ unread \subseteq SubscribedRouteIds(Target(h))
               /\ listed = UNION {FindRouteById(rid) :
                                    rid \in SubscribedRouteIds(Target(h)) \ unread}
      PROVE  \E k : InProgress(k) /\ Becomes(t, k)
  <2> DEFINE k == InHand(h.session, h.req, h.found, stage, user, unread, listed)
  <2>1. Becomes(t, k)
    BY <1>2 DEF GoOn, Becomes, h
  <2>2. /\ k.session = h.session /\ k.req = h.req /\ k.found = h.found /\ k.stage = stage
        /\ k.user = user /\ k.unread = unread /\ k.listed = listed
    BY InHandFields
  <2> HIDE DEF k
  <2>3. Target(k) = Target(h)
    BY <2>2 DEF Target
  <2>4. Found(k)
    BY <1>2, <2>2, <2>3 DEF Found
  <2>5. InProgress(k)
    BY <1>1, <2>2, <2>4, <1>2 DEF InProgress
  <2> QED
    BY <2>1, <2>5
<1>3. CASE LookUpUser(t)
  BY <1>2, <1>3 DEF LookUpUser, h
<1>4. CASE LookUpSubscriptions(t)
  <2> DEFINE S == SubscribedRouteIds(Target(h))
  <2>1. h.stage = "user" /\ GoOn(t, "routes", h.user, S, {})
    BY <1>4 DEF LookUpSubscriptions, h
  <2>2. /\ h.req.type = "get_user_detail" /\ h.found
        /\ h.user = FindUserById(Target(h)) /\ h.user # {}
    BY <1>1, <2>1 DEF InProgress, Found
  <2>3. {} = UNION {FindRouteById(rid) : rid \in S \ S}
    OBVIOUS
  <2> QED
    BY <1>2, <2>1, <2>2, <2>3
<1>5. CASE LookUpRoute(t)
  <2> DEFINE S == SubscribedRouteIds(Target(h))
  <2>1. h.stage = "routes"
    BY <1>5 DEF LookUpRoute, h
  <2>2. PICK rid \in h.unread :
          GoOn(t, "routes", h.user, h.unread \ {rid}, h.listed \cup FindRouteById(rid))
    BY <1>5 DEF LookUpRoute, h
  <2>3. /\ h.req.type = "get_user_detail" /\ h.found
        /\ h.user = FindUserById(Target(h)) /\ h.user # {}
        /\ h.unread \subseteq S
        /\ h.listed = UNION {FindRouteById(r) : r \in S \ h.unread}
    BY <1>1, <2>1 DEF InProgress, Found
  <2> HIDE DEF S
  <2>4. S \ (h.unread \ {rid}) = (S \ h.unread) \cup {rid}
    BY <2>3
  <2>5. h.listed \cup FindRouteById(rid)
          = UNION {FindRouteById(r) : r \in S \ (h.unread \ {rid})}
    BY <2>3, <2>4
  <2>6. h.unread \ {rid} \subseteq S
    BY <2>3
  <2> QED
    BY <1>2, <2>2, <2>3, <2>5, <2>6 DEF S
<1> QED
  BY <1>3, <1>4, <1>5

(* A step of a thread is a step of the handlers, or nothing they can see;  *)
(* and what handlers in progress have found out stays true.                *)
LEMMA StepIsHandlerStep ==
  ASSUME StepsInv, [StepsNext]_stepVars
  PROVE  [Next]_logicVars /\ StepsInv'
<1>1. CASE UNCHANGED stepVars
  <2>1. UNCHANGED logicVars /\ UNCHANGED running
    BY <1>1 DEF stepVars
  <2> QED
    BY <2>1, StillFound DEF StepsInv
<1> DEFINE t == "main"
<1>2. Threads = {t}
  BY DEF Threads
<1>3. CASE Finish(t)
  <2> DEFINE h == running[t]
  <2>1. h # NoHandler /\ InProgress(h)
    BY <1>2, <1>3 DEF Finish, StepsInv
  <2>2. HandleMessage(h.session, h.req)
    BY <1>3, <2>1, SubscribeWhole, RideWhole, AdminWhole, DetailWhole, Zenon
    DEF Finish, InProgress
  <2>3. Next
    BY <2>1, <2>2 DEF Next, InProgress
  <2>4. running' = [running EXCEPT ![t] = NoHandler]
    BY <1>3 DEF Finish
  <2>5. StepsInv'
    BY <1>2, <2>4 DEF StepsInv
  <2> QED
    BY <2>3, <2>5
<1>4. ASSUME NEW s \in Sessions, AcceptOn(t, s)
      PROVE  [Next]_logicVars /\ StepsInv'
  BY <1>2, <1>4 DEF AcceptOn, CanRun, Next, StepsInv
<1>5. ASSUME NEW s \in Sessions, NEW req \in Requests, RunWhole(t, s, req)
      PROVE  [Next]_logicVars /\ StepsInv'
  BY <1>2, <1>5 DEF RunWhole, CanRun, Next, StepsInv
<1>6. ASSUME NEW h, InProgress(h), Becomes(t, h) PROVE [Next]_logicVars /\ StepsInv'
  <2>1. UNCHANGED logicVars /\ running' = [running EXCEPT ![t] = h]
    BY <1>6 DEF Becomes
  <2>2. InProgress(h)'
    BY <1>6, <2>1, StillFound
  <2>3. running'[t] = h /\ running' \in [Threads -> {running'[u] : u \in Threads}]
    BY <1>2, <2>1 DEF StepsInv
  <2>4. StepsInv'
    BY <1>2, <2>2, <2>3 DEF StepsInv
  <2> QED
    BY <2>1, <2>4
<1>7. ASSUME NEW s \in Sessions, NEW req \in Requests, Start(t, s, req)
      PROVE  [Next]_logicVars /\ StepsInv'
  <2> DEFINE h == InHand(s, req, LookUp(s, req), "begun", {}, {}, {})
  <2>1. Becomes(t, h)
    BY <1>7 DEF Start, Becomes
  <2>2. sessionUserId[s] # 0 /\ req.type \in LooksUp
    BY <1>7 DEF Start
  <2>3. /\ h.session = s /\ h.req = req /\ h.found = LookUp(s, req)
        /\ h.stage = "begun"
    BY InHandFields
  <2> HIDE DEF h
  <2>4. InProgress(h)
    BY <2>2, <2>3 DEF InProgress, Found
  <2> QED
    BY <1>6, <2>1, <2>4
<1>8. CASE LookUpUser(t) \/ LookUpSubscriptions(t) \/ LookUpRoute(t)
  BY <1>2, <1>6, <1>8, LookUpsFind
<1> QED
  BY <1>1, <1>2, <1>3, <1>4, <1>5, <1>7, <1>8 DEF StepsNext

(* Before the first request no handler is in progress.                     *)
LEMMA StepsInitInv == StepsInit => Init /\ StepsInv
  BY DEF StepsInit, StepsInv

(* The handlers, each of several locked calls, implement the indivisible   *)
(* ones of BusinessLogic, because one thread runs them.                    *)
THEOREM StepsImplementHandlers == StepsSpec => ImplementsHandlers
  BY StepsInitInv, StepIsHandlerStep, PTL DEF StepsSpec, ImplementsHandlers, Spec
=============================================================================
