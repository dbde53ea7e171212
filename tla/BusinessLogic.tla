--------------------------- MODULE BusinessLogic ---------------------------
(***************************************************************************)
(* The request handlers of the server, server/src/logic/BusinessLogic.cpp, *)
(* over the tables of DataStore.  main.cpp runs the io_context on a single *)
(* thread, so a handler runs from its first line to its last without       *)
(* another session's handler in between: one action per handler.           *)
(*                                                                         *)
(* A request is a record whose optional fields are present or absent, as   *)
(* the members of the JSON object are.  A reply is what the handler passes *)
(* to INetworkClient::sendMessage.                                         *)
(***************************************************************************)
EXTENDS DataStore, FiniteSetsExt

CONSTANTS
  Sessions,   \* the connections the server can hold
  Requests    \* the requests that may arrive

VARIABLES
  sessionUserId,  \* Session::m_userId of each session, 0 before authentication
  sent            \* history: the sendMessage calls of the last step, <<[to, msg]>>
                  \* or <<>>; of an answer to a ride also the route it was on

logicVars == <<store, sessionUserId, sent>>

TicketPrice == 50

Public == {"REGISTER", "LOGIN", "GET_ROUTES"}
Known == Public \cup
  {"ADD_ROUTE", "DEL_ROUTE", "SUBSCRIBE", "UNSUBSCRIBE", "GET_SUBS", "RIDE",
   "GET_TICKETS", "UPDATE_SCHEDULE", "GET_USERS", "get_user_detail",
   "SET_VOTES", "GET_VOTES", "GET_DEMAND"}

(* nlohmann's value(field, default).                                       *)
Value(req, field, default) == IF field \in DOMAIN req THEN req[field] ELSE default

(* A request with fields of their JSON types.                              *)
WellFormed(req) ==
  /\ "type" \in DOMAIN req
  /\ Value(req, "username", EmptyText) \in UserNames \cup {EmptyText}
  /\ Value(req, "password", EmptyText) \in Passwords
  /\ Value(req, "routeId", 0) \in Nat
  /\ req.type = "ADD_ROUTE" =>
       /\ Value(req, "name", EmptyText) \in RouteNames
       /\ Value(req, "schedule", EmptyText) \in Schedule
  /\ req.type = "UPDATE_SCHEDULE" => Value(req, "schedule", <<>>) \in Schedule
  /\ req.type = "SET_VOTES" => "votes" \in DOMAIN req /\ req.votes \in Seq(RouteVote)

ASSUME RequestAssumption == \A req \in Requests : WellFormed(req)
----------------------------------------------------------------------------
(* Replies *)

Send(s, msg) == sent' = <<[to |-> s, msg |-> msg]>>

Acknowledge(s, rid, msg) == sent' = <<[to |-> s, ride |-> rid, msg |-> msg]>>

MakeOk(text) == [type |-> "OK", message |-> text]
MakeError(text) == [type |-> "ERROR", message |-> text]
ToPublicJson(u) == [id |-> u.id, username |-> u.username, role |-> u.role]

(* A handler that only answers.                                            *)
Answer(s, msg) == Send(s, msg) /\ UNCHANGED <<store, sessionUserId>>
Refuse(s, text) == Answer(s, MakeError(text))

IsAdmin(s) == \E u \in FindUserById(sessionUserId[s]) : u.role = "admin"
----------------------------------------------------------------------------
(* Handlers that need no authentication *)

(* The session becomes the user's, whoever it belonged to before.          *)
Authenticate(s, u) ==
  /\ sessionUserId' = [sessionUserId EXCEPT ![s] = u.id]
  /\ Send(s, [type |-> "AUTH_OK", user |-> ToPublicJson(u)])

HandleRegister(s, req) ==
  LET complete == {"username", "password"} \subseteq DOMAIN req
      valid == req.username # EmptyText /\ req.password \notin ShortPasswords
  IN
  /\ req.type = "REGISTER"
  /\ \/ ~complete /\ Refuse(s, "Missing fields")
     \/ complete /\ ~valid /\ Refuse(s, "Invalid data")
     \/ complete /\ valid /\ UsernameTaken(req.username) /\ Refuse(s, "Taken")
     \/ /\ complete /\ valid
        /\ AddUser(req.username, HashPassword(req.password), "user")
        /\ \E u \in users' : u.username = req.username /\ Authenticate(s, u)

HandleLogin(s, req) ==
  LET matching == {u \in FindUserByUsername(Value(req, "username", EmptyText)) :
                     u.passwordHash = HashPassword(Value(req, "password", EmptyText))}
  IN
  /\ req.type = "LOGIN"
  /\ \/ matching = {} /\ Refuse(s, "Invalid credentials")
     \/ /\ \E u \in matching : Authenticate(s, u)
        /\ UNCHANGED store

HandleGetRoutes(s, req) ==
  /\ req.type = "GET_ROUTES"
  /\ Answer(s, [type |-> "ROUTES_LIST", routes |-> routes])
----------------------------------------------------------------------------
(* Handlers of the administrator *)

HandleAddRoute(s, req) ==
  /\ req.type = "ADD_ROUTE"
  /\ \/ ~IsAdmin(s) /\ Refuse(s, "Unauthorized")
     \/ /\ IsAdmin(s)
        /\ AddRoute(Value(req, "name", EmptyText), Value(req, "schedule", EmptyText))
        /\ Send(s, [type |-> "ROUTE_OK"])
        /\ UNCHANGED sessionUserId

HandleDelRoute(s, req) ==
  LET rid == Value(req, "routeId", 0) IN
  /\ req.type = "DEL_ROUTE"
  /\ \/ ~IsAdmin(s) /\ Refuse(s, "Unauthorized")
     \/ IsAdmin(s) /\ FindRouteById(rid) = {} /\ Refuse(s, "Failed to delete")
     \/ /\ IsAdmin(s)
        /\ DeleteRoute(rid)
        /\ Send(s, MakeOk("Deleted"))
        /\ UNCHANGED sessionUserId

(* Mutant: any user may update a schedule.                                 *)
UpdateScheduleByAnyone(s, req) ==
  /\ req.type = "UPDATE_SCHEDULE"
  /\ UpdateRouteSchedule(Value(req, "routeId", 0), Value(req, "schedule", <<>>))
  /\ Send(s, MakeOk("Schedule updated"))
  /\ UNCHANGED sessionUserId

(* The reply is the same whether or not the route exists.                  *)
HandleUpdateSchedule(s, req) ==
  /\ req.type = "UPDATE_SCHEDULE"
  /\ \/ ~IsAdmin(s) /\ Refuse(s, "Unauthorized")
     \/ /\ IsAdmin(s)
        /\ UpdateRouteSchedule(Value(req, "routeId", 0), Value(req, "schedule", <<>>))
        /\ Send(s, MakeOk("Schedule updated"))
        /\ UNCHANGED sessionUserId

HandleGetUsers(s, req) ==
  /\ req.type = "GET_USERS"
  /\ \/ ~IsAdmin(s) /\ Refuse(s, "Unauthorized")
     \/ /\ IsAdmin(s)
        /\ Answer(s, [type |-> "USERS_LIST", users |-> {ToPublicJson(u) : u \in users}])

HandleGetUserDetail(s, req) ==
  LET target == Value(req, "userId", 0) IN
  /\ req.type = "get_user_detail"
  /\ \/ ~IsAdmin(s) /\ Refuse(s, "Unauthorized")
     \/ IsAdmin(s) /\ FindUserById(target) = {} /\ Refuse(s, "User not found")
     \/ /\ IsAdmin(s)
        /\ \E u \in FindUserById(target) :
             Answer(s, [type |-> "user_detail", user |-> ToPublicJson(u),
                        subscriptions |-> UNION {FindRouteById(rid) :
                                                   rid \in SubscribedRouteIds(target)},
                        tickets |-> RowsOf(target, tickets)])

HandleGetDemand(s, req) ==
  /\ req.type = "GET_DEMAND"
  /\ \/ ~IsAdmin(s) /\ Refuse(s, "Unauthorized")
     \/ /\ IsAdmin(s)
        /\ Answer(s, [type |-> "DEMAND_LIST", demand |-> AggregatedDemand])
----------------------------------------------------------------------------
(* Handlers of any authenticated user *)

HandleSubscribe(s, req) ==
  LET uid == sessionUserId[s]
      rid == Value(req, "routeId", 0)
  IN
  /\ req.type = "SUBSCRIBE"
  /\ \/ FindRouteById(rid) = {} /\ Refuse(s, "Route does not exist.")
     \/ /\ FindRouteById(rid) # {} /\ IsSubscribed(uid, rid)
        /\ Refuse(s, "Already subscribed to this route.")
     \/ /\ FindRouteById(rid) # {}
        /\ Subscribe(uid, rid)
        /\ Send(s, MakeOk("Subscribed successfully!"))
        /\ UNCHANGED sessionUserId

HandleUnsubscribe(s, req) ==
  LET uid == sessionUserId[s]
      rid == Value(req, "routeId", 0)
  IN
  /\ req.type = "UNSUBSCRIBE"
  /\ \/ ~IsSubscribed(uid, rid) /\ Refuse(s, "Not subscribed")
     \/ /\ Unsubscribe(uid, rid)
        /\ Send(s, MakeOk("Unsubscribed"))
        /\ UNCHANGED sessionUserId

HandleGetSubs(s, req) ==
  /\ req.type = "GET_SUBS"
  /\ Answer(s, [type |-> "SUBS_LIST", subs |-> SubscribedRouteIds(sessionUserId[s])])

RideRecorded(s, rid) ==
  /\ Acknowledge(s, rid, [type |-> "OK", message |-> "Ride recorded",
                          ticketIssued |-> FALSE])
  /\ UNCHANGED store

RideCharged(s, rid) ==
  /\ IssueTicket(sessionUserId[s], rid, TRUE, TicketPrice)
  /\ Acknowledge(s, rid, [type |-> "OK", message |-> "Ticket issued",
                          ticketIssued |-> TRUE, ticketId |-> nextTicketId])

(* A ride without a subscription is charged, on any route number.          *)
HandleRide(s, req) ==
  LET uid == sessionUserId[s]
      rid == Value(req, "routeId", 0)
  IN
  /\ req.type = "RIDE"
  /\ \/ /\ IsSubscribed(uid, rid)
        /\ RideRecorded(s, rid)
     \/ /\ ~IsSubscribed(uid, rid)
        /\ RideCharged(s, rid)
  /\ UNCHANGED sessionUserId

HandleGetTickets(s, req) ==
  /\ req.type = "GET_TICKETS"
  /\ Answer(s, [type |-> "TICKETS", tickets |-> RowsOf(sessionUserId[s], tickets)])

HandleSetVotes(s, req) ==
  /\ req.type = "SET_VOTES"
  /\ SetVotes(sessionUserId[s], req.votes)
  /\ Send(s, MakeOk("Requests updated."))
  /\ UNCHANGED sessionUserId

HandleGetVotes(s, req) ==
  /\ req.type = "GET_VOTES"
  /\ Answer(s, [type |-> "VOTES_LIST", votes |-> votes[sessionUserId[s]]])
----------------------------------------------------------------------------
(* The dispatcher.  Its order matters: the three public requests are tried *)
(* before the session's identity is looked at.                             *)

HandlePublic(s, req) ==
  HandleRegister(s, req) \/ HandleLogin(s, req) \/ HandleGetRoutes(s, req)

HandleAuthenticated(s, req) ==
  \/ HandleAddRoute(s, req) \/ HandleDelRoute(s, req) \/ HandleUpdateSchedule(s, req)
  \/ HandleGetUsers(s, req) \/ HandleGetUserDetail(s, req) \/ HandleGetDemand(s, req)
  \/ HandleSubscribe(s, req) \/ HandleUnsubscribe(s, req) \/ HandleGetSubs(s, req)
  \/ HandleRide(s, req) \/ HandleGetTickets(s, req)
  \/ HandleSetVotes(s, req) \/ HandleGetVotes(s, req)
  \/ req.type \notin Known /\ Refuse(s, "Unknown message type")

HandleMessage(s, req) ==
  \/ HandlePublic(s, req)
  \/ /\ req.type \notin Public /\ sessionUserId[s] = 0
     /\ Refuse(s, "Unauthorized")
  \/ sessionUserId[s] # 0 /\ HandleAuthenticated(s, req)

(* A new connection takes a place: its Session starts unauthenticated.     *)
Accept(s) ==
  /\ sessionUserId' = [sessionUserId EXCEPT ![s] = 0]
  /\ sent' = <<>>
  /\ UNCHANGED store

Init ==
  /\ StoreInit
  /\ sessionUserId = [s \in Sessions |-> 0]
  /\ sent = <<>>

Next == \E s \in Sessions : Accept(s) \/ \E req \in Requests : HandleMessage(s, req)

Spec == Init /\ [][Next]_logicVars
----------------------------------------------------------------------------
(* Properties *)

(* The types of the variables; a session belongs to nobody (0) or to a     *)
(* possible user.                                                          *)
TypeOK ==
  /\ StoreTypeOK
  /\ sessionUserId \in [Sessions -> 0..MaxUsers]
  /\ \/ sent = <<>>
     \/ Len(sent) = 1 /\ sent[1].to \in Sessions

(* Every subscription on file is of a registered user, to a route that     *)
(* still exists, and is on file once: deleteRoute purges m_subscriptions   *)
(* and handleSubscribe checks the route before the store appends.          *)
SubscriptionsLive ==
  \A uid \in UserIds, rid \in RouteIds : IsSubscribed(uid, rid) =>
    /\ uid \in IdsOf(users)
    /\ rid \in IdsOf(routes)
    /\ subscriptions[<<uid, rid>>] = 1

(* A user name or an id denotes one account, the only administrator is the *)
(* account the constructor made, and a session that is somebody's is a     *)
(* registered user's: identities held across requests do not dangle.       *)
AccountsUnambiguous ==
  /\ \A u, v \in users : u.id = v.id \/ u.username = v.username => u = v
  /\ \A u \in users : u.role = "admin" <=> u.id = 1
  /\ \A s \in Sessions : sessionUserId[s] # 0 => sessionUserId[s] \in IdsOf(users)

(* The demand list accounts for every vote cast: the counts of its entries *)
(* add up to the number of votes on file, whoever cast them.               *)
DemandConserved ==
  MapThenSumSet(LAMBDA e : e.count, AggregatedDemand) = Cardinality(CastVotes)

(* A route id that a client still shows, or that a ticket or a vote names, *)
(* never comes to mean another route: ids of deleted routes stay unused    *)
(* and a live route keeps its name.                                        *)
KeepsRouteIds ==
  /\ \A rid \in 1 .. nextRouteId - 1 :
       rid \notin IdsOf(routes) => rid \notin IdsOf(routes')
  /\ \A r \in routes, q \in routes' : r.id = q.id => r.name = q.name

RouteIdsStable == [][KeepsRouteIds]_logicVars

(* The user on whose session the last step's request arrived.              *)
Actor == IF sent' = <<>> THEN 0 ELSE sessionUserId[sent'[1].to]

(* Routes and their schedules change only on a session of an account whose *)
(* role is "admin" at that moment.                                         *)
ByAdmin == routes' # routes => \E u \in users : u.id = Actor /\ u.role = "admin"

OnlyAdminChangesRoutes == [][ByAdmin]_logicVars

(* Nobody rides, votes or subscribes for somebody else, and a subscription *)
(* goes only by its holder's request or with its route.                    *)
OwnDoing ==
  \A uid \in UserIds :
    /\ \/ RowsOf(uid, tickets') # RowsOf(uid, tickets)
       \/ votes'[uid] # votes[uid]
       \/ ~(SubscribedRouteIds(uid)' \subseteq SubscribedRouteIds(uid))
       => Actor = uid
    /\ \A rid \in SubscribedRouteIds(uid) \ SubscribedRouteIds(uid)' :
         Actor = uid \/ rid \notin IdsOf(routes')

Isolation == [][OwnDoing]_logicVars

(* What the service promises, whatever its tables look like.               *)
RoutesOpened == 1 .. nextRouteId - 1
ActiveSubscriptions == {p \in UserIds \X RouteIds : subscriptions[p] > 0}
ReceiptOf(e) == [member |-> sessionUserId[e.to], route |-> e.ride,
                 fare |-> IF e.msg.ticketIssued THEN e.msg.ticketId ELSE 0]
Receipts ==
  {ReceiptOf(sent[i]) : i \in {j \in DOMAIN sent : "ride" \in DOMAIN sent[j]}}
FareOf(t) == [no |-> t.id, member |-> t.userId, route |-> t.routeId, price |-> t.price]

Ledger == INSTANCE SubscriptionLedger WITH
  Members <- UserIds,
  RouteNumbers <- RouteIds,
  NamedRoutes <- {Value(req, "routeId", 0) : req \in Requests},
  FareNumbers <- 1..MaxTickets,
  members <- IdsOf(users),
  opened <- RoutesOpened,
  running <- IdsOf(routes),
  active <- ActiveSubscriptions,
  fares <- {FareOf(t) : t \in tickets},
  receipt <- Receipts

(* The server implements the ledger: among its promises that each ride it  *)
(* acknowledges is on a subscription in force at that moment or costs one  *)
(* fare, whose number is told, in whatever order routes are deleted and    *)
(* subscriptions made and left on other sessions.                          *)
ImplementsLedger == Ledger!Spec
=============================================================================
