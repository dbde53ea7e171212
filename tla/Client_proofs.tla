---------------------------- MODULE Client_proofs ----------------------------
(***************************************************************************)
(* Proofs about Client, for every value of its constants: what the server  *)
(* answers to the requests of clients, the types of what is under way, and *)
(* whose answers they are.                                                 *)
(***************************************************************************)
EXTENDS Client, BusinessLogic_proofs

PublicUser == [id : UserIds, username : UserNames, role : {"user", "admin"}]

(* What clients send.                                                      *)
ClientRequest ==
  [type : {"GET_ROUTES", "GET_SUBS", "GET_TICKETS", "GET_VOTES", "GET_USERS", "GET_DEMAND"}]
  \cup [type : {"LOGIN", "REGISTER"}, username : UserNames, password : Passwords]
  \cup [type : {"SUBSCRIBE", "UNSUBSCRIBE", "RIDE", "DEL_ROUTE"}, routeId : Nat]
  \cup [type : {"SET_VOTES"}, votes : Seq(RouteVote)]
  \cup [type : {"ADD_ROUTE"}, name : RouteNames, schedule : Schedule]
  \cup [type : {"UPDATE_SCHEDULE"}, routeId : Nat, schedule : Seq(Trip)]
  \cup [type : {"get_user_detail"}, userId : UserIds]

(* What the server answers.                                                *)
Texts ==
  {"Missing fields", "Invalid data", "Taken", "Invalid credentials", "Unauthorized",
   "Failed to delete", "Deleted", "Schedule updated", "User not found",
   "Route does not exist.", "Already subscribed to this route.",
   "Subscribed successfully!", "Not subscribed", "Unsubscribed", "Ride recorded",
   "Ticket issued", "Requests updated.", "Unknown message type"}

Demand == [key : RouteVote, count : Nat]

Reply ==
  [type : {"OK", "ERROR"}, message : Texts]
  \cup [type : {"OK"}, message : Texts, ticketIssued : BOOLEAN]
  \cup [type : {"OK"}, message : Texts, ticketIssued : BOOLEAN, ticketId : Nat]
  \cup [type : {"ROUTE_OK"}]
  \cup [type : {"AUTH_OK"}, user : PublicUser]
  \cup [type : {"ROUTES_LIST"}, routes : SUBSET Route]
  \cup [type : {"SUBS_LIST"}, subs : SUBSET RouteIds]
  \cup [type : {"TICKETS"}, tickets : SUBSET Ticket]
  \cup [type : {"VOTES_LIST"}, votes : Seq(RouteVote)]
  \cup [type : {"USERS_LIST"}, users : SUBSET PublicUser]
  \cup [type : {"user_detail"}, user : PublicUser, subscriptions : SUBSET Route,
        tickets : SUBSET Ticket]
  \cup [type : {"DEMAND_LIST"}, demand : SUBSET Demand]

(* The type of a message tells which fields it has.                        *)
LEMMA RequestFields ==
  ASSUME NEW req \in ClientRequest
  PROVE  WellFormed(req) /\ req.type \in Known
BY DataStoreAssumption DEF ClientRequest, WellFormed, Value, Known, Public, Schedule

LEMMA ReplyFields ==
  ASSUME NEW msg \in Reply
  PROVE  /\ msg.type = "AUTH_OK" => msg.user \in PublicUser
         /\ msg.type = "ROUTES_LIST" => msg.routes \subseteq Route
         /\ msg.type = "SUBS_LIST" => msg.subs \subseteq RouteIds
         /\ msg.type = "TICKETS" => msg.tickets \subseteq Ticket
         /\ msg.type = "VOTES_LIST" => msg.votes \in Seq(RouteVote)
         /\ msg.type = "USERS_LIST" => msg.users \subseteq PublicUser
         /\ msg.type = "user_detail" => msg.user \in PublicUser
         /\ msg.type = "DEMAND_LIST" => msg.demand \subseteq Demand
BY DEF Reply
----------------------------------------------------------------------------
(* What the server answers *)

(* A list that is sent is what is on file.                                 *)
Listed(s, msg) ==
  LET uid == sessionUserId[s] IN
  /\ msg.type = "ROUTES_LIST" => msg = [type |-> "ROUTES_LIST", routes |-> routes]
  /\ msg.type = "SUBS_LIST" =>
       uid # 0 /\ msg = [type |-> "SUBS_LIST", subs |-> SubscribedRouteIds(uid)]
  /\ msg.type = "TICKETS" =>
       uid # 0 /\ msg = [type |-> "TICKETS", tickets |-> RowsOf(uid, tickets)]
  /\ msg.type = "VOTES_LIST" =>
       uid # 0 /\ msg = [type |-> "VOTES_LIST", votes |-> votes[uid]]

(* What is not refused to anybody, or to nobody who may ask; and nobody is *)
(* sent subscriptions unasked.                                             *)
Heard(s, req, msg) ==
  /\ req.type = "GET_ROUTES" => msg.type = "ROUTES_LIST"
  /\ req.type = "UPDATE_SCHEDULE" /\ IsAdmin(s) => msg.type = "OK"
  /\ msg.type = "SUBS_LIST" => req.type = "GET_SUBS"
  /\ sessionUserId[s] # 0 =>
       /\ req.type = "GET_SUBS" => msg.type = "SUBS_LIST"
       /\ req.type = "GET_TICKETS" => msg.type = "TICKETS"
       /\ req.type = "GET_VOTES" => msg.type = "VOTES_LIST"
       /\ req.type = "SET_VOTES" => msg.type = "OK"

(* One message goes out, on this session; with a ride it says which.       *)
SaysTo(s, msg) == sent' # <<>> /\ sent'[1].to = s /\ sent'[1].msg = msg

LEMMA SaysIt ==
  ASSUME NEW s, NEW rid, NEW msg
  PROVE  (Send(s, msg) => SaysTo(s, msg)) /\ (Acknowledge(s, rid, msg) => SaysTo(s, msg))
BY DEF Send, Acknowledge, SaysTo

(* The answer to a request, as far as clients depend on it: only a login   *)
(* or a registration changes whose session it is, and says so; and what    *)
(* changes a table is answered by a message on which those who show the    *)
(* table ask for everything again.                                         *)
Answered(s, req, msg) ==
  /\ msg \in Reply /\ SaysTo(s, msg)
  /\ \/ /\ msg.type = "AUTH_OK" /\ req.type \in {"LOGIN", "REGISTER"}
        /\ \E u \in users' : /\ msg.user = ToPublicJson(u)
                             /\ sessionUserId' = [sessionUserId EXCEPT ![s] = u.id]
     \/ msg.type # "AUTH_OK" /\ UNCHANGED sessionUserId
  /\ \/ UNCHANGED store
     \/ msg.type \in {"AUTH_OK", "OK"}
     \/ msg.type = "ROUTE_OK" /\ IsAdmin(s)
  /\ Listed(s, msg) /\ Heard(s, req, msg)

LEMMA DemandType == IInv => AggregatedDemand \subseteq Demand
<1>. SUFFICES ASSUME IInv, NEW k \in {votes[p[1]][p[2]] : p \in CastVotes}
              PROVE  [key |-> k, count |-> Cardinality({p \in CastVotes : votes[p[1]][p[2]] = k})]
                       \in Demand
  BY DEF AggregatedDemand
<1>1. k \in RouteVote
  BY DEF CastVotes, IInv, TypeOK, StoreTypeOK
<1>2. Cardinality({p \in CastVotes : votes[p[1]][p[2]] = k}) \in Nat
  BY CastVotesFinite, FS_Subset, FS_CardinalityType
<1>. QED
  BY <1>1, <1>2 DEF Demand

LEMMA Refused ==
  ASSUME NEW s \in Sessions, NEW req, NEW text \in Texts, Refuse(s, text),
         req.type # "GET_ROUTES", req.type = "UPDATE_SCHEDULE" => ~IsAdmin(s),
         \/ sessionUserId[s] = 0
         \/ req.type \notin {"GET_SUBS", "GET_TICKETS", "GET_VOTES", "SET_VOTES"}
  PROVE  Answered(s, req, MakeError(text))
BY DEF Refuse, Answer, Answered, SaysTo, Send, Listed, Heard, MakeError, Reply

LEMMA Done ==
  ASSUME NEW s \in Sessions, NEW req, NEW text \in Texts, Send(s, MakeOk(text)),
         UNCHANGED sessionUserId,
         req.type \notin {"GET_ROUTES", "GET_SUBS", "GET_TICKETS", "GET_VOTES"}
  PROVE  Answered(s, req, MakeOk(text))
BY DEF Answered, SaysTo, Send, Listed, Heard, MakeOk, Reply

LEMMA PublicAnswers ==
  ASSUME IInv, NEW s \in Sessions, NEW req, WellFormed(req), HandlePublic(s, req)
  PROVE  \E msg : Answered(s, req, msg)
<1>1. ASSUME NEW u \in users', u \in User, Authenticate(s, u), req.type \in {"LOGIN", "REGISTER"}
      PROVE  Answered(s, req, [type |-> "AUTH_OK", user |-> ToPublicJson(u)])
  <2>1. ToPublicJson(u) \in PublicUser
    BY <1>1 DEF ToPublicJson, PublicUser, User
  <2>2. [type |-> "AUTH_OK", user |-> ToPublicJson(u)] \in Reply
    BY <2>1 DEF Reply
  <2>. QED
    BY <1>1, <2>2 DEF Authenticate, Answered, SaysTo, Send, Listed, Heard
<1>2. CASE HandleRegister(s, req)
  <2>1. req.type = "REGISTER"
    BY <1>2 DEF HandleRegister
  <2>2. CASE Refuse(s, "Missing fields") \/ Refuse(s, "Invalid data") \/ Refuse(s, "Taken")
    BY <2>1, <2>2, Refused DEF Texts
  <2>3. CASE \E u \in users' : Authenticate(s, u)
    <3>1. users' \subseteq User
      BY <1>2, <2>1, StepKinds, QuietKeeps, JoinKeeps, FleetKeeps, RiderKeeps
      DEF HandleMessage, HandlePublic, IInv, TypeOK, StoreTypeOK
    <3>. QED
      BY <1>1, <2>1, <2>3, <3>1
  <2>. QED
    BY <1>2, <2>2, <2>3 DEF HandleRegister
<1>3. CASE HandleLogin(s, req)
  <2>1. req.type = "LOGIN"
    BY <1>3 DEF HandleLogin
  <2>2. CASE Refuse(s, "Invalid credentials")
    BY <2>1, <2>2, Refused DEF Texts
  <2>3. CASE (\E u \in users : Authenticate(s, u)) /\ UNCHANGED store
    BY <1>1, <2>1, <2>3 DEF store, IInv, TypeOK, StoreTypeOK
  <2>. QED
    BY <1>3, <2>2, <2>3 DEF HandleLogin, FindUserByUsername
<1>4. CASE HandleGetRoutes(s, req)
  <2>1. [type |-> "ROUTES_LIST", routes |-> routes] \in Reply
    BY DEF Reply, IInv, TypeOK, StoreTypeOK
  <2>. QED
    BY <1>4, <2>1 DEF HandleGetRoutes, Answer, Answered, SaysTo, Send, Listed, Heard
<1>. QED
  BY <1>2, <1>3, <1>4 DEF HandlePublic

LEMMA AdminAnswers ==
  ASSUME IInv, NEW s \in Sessions, NEW req, WellFormed(req),
         \/ HandleAddRoute(s, req) \/ HandleDelRoute(s, req)
         \/ HandleUpdateSchedule(s, req) \/ HandleGetUsers(s, req)
         \/ HandleGetUserDetail(s, req) \/ HandleGetDemand(s, req)
  PROVE  \E msg : Answered(s, req, msg)
<1>1. req.type \notin {"GET_ROUTES", "GET_SUBS", "GET_TICKETS", "GET_VOTES", "SET_VOTES"}
  BY DEF HandleAddRoute, HandleDelRoute, HandleUpdateSchedule, HandleGetUsers,
    HandleGetUserDetail, HandleGetDemand
<1>2. CASE ~IsAdmin(s) /\ Refuse(s, "Unauthorized")
  BY <1>1, <1>2, Refused DEF Texts
<1>3. CASE HandleAddRoute(s, req) /\ IsAdmin(s)
  <2>1. Answered(s, req, [type |-> "ROUTE_OK"])
    BY <1>1, <1>3 DEF HandleAddRoute, Answered, SaysTo, Send, Listed, Heard, Reply
  <2>. QED
    BY <2>1
<1>4. CASE HandleDelRoute(s, req) /\ IsAdmin(s)
  <2>1. "Failed to delete" \in Texts /\ "Deleted" \in Texts
    BY DEF Texts
  <2>. QED
    BY <1>1, <1>4, <2>1, Refused, Done DEF HandleDelRoute
<1>5. CASE HandleUpdateSchedule(s, req) /\ IsAdmin(s)
  <2>1. "Schedule updated" \in Texts
    BY DEF Texts
  <2>. QED
    BY <1>1, <1>5, <2>1, Done DEF HandleUpdateSchedule
<1>6. CASE HandleGetUsers(s, req) /\ IsAdmin(s)
  <2>. DEFINE msg == [type |-> "USERS_LIST", users |-> {ToPublicJson(u) : u \in users}]
  <2>1. {ToPublicJson(u) : u \in users} \subseteq PublicUser
    BY DEF ToPublicJson, PublicUser, IInv, TypeOK, StoreTypeOK, User
  <2>2. msg \in Reply
    BY <2>1 DEF Reply
  <2>3. Answered(s, req, msg)
    <3>1. SaysTo(s, msg) /\ UNCHANGED <<store, sessionUserId>>
      BY <1>6, SaysIt DEF HandleGetUsers, Answer
    <3>2. msg.type = "USERS_LIST"
      OBVIOUS
    <3>. HIDE DEF msg
    <3>. QED
      BY <1>1, <1>6, <2>2, <3>1, <3>2 DEF HandleGetUsers, Answered, Listed, Heard
  <2>. QED
    BY <2>3
<1>7. CASE HandleGetUserDetail(s, req) /\ IsAdmin(s)
  <2>. DEFINE target == Value(req, "userId", 0)
              subs == UNION {FindRouteById(rid) : rid \in SubscribedRouteIds(target)}
              Detail(u) == [type |-> "user_detail", user |-> ToPublicJson(u),
                            subscriptions |-> subs, tickets |-> RowsOf(target, tickets)]
  <2>1. subs \subseteq Route /\ RowsOf(target, tickets) \subseteq Ticket
    BY DEF FindRouteById, RowsOf, IInv, TypeOK, StoreTypeOK
  <2>2. ASSUME NEW u \in FindUserById(target), Answer(s, Detail(u))
        PROVE  Answered(s, req, Detail(u))
    <3>1. ToPublicJson(u) \in PublicUser
      BY DEF ToPublicJson, FindUserById, PublicUser, IInv, TypeOK, StoreTypeOK, User
    <3>2. Detail(u) \in Reply
      <4>. HIDE DEF subs
      <4>. QED
        BY <2>1, <3>1 DEF Reply
    <3>. QED
      BY <1>1, <1>7, <2>2, <3>2 DEF Answer, Answered, SaysTo, Send, Listed, Heard, HandleGetUserDetail
  <2>3. "User not found" \in Texts
    BY DEF Texts
  <2>4. CASE Refuse(s, "User not found")
    BY <1>1, <1>7, <2>3, <2>4, Refused DEF HandleGetUserDetail
  <2>5. CASE \E u \in FindUserById(target) : Answer(s, Detail(u))
    BY <2>2, <2>5
  <2>. QED
    BY <1>7, <2>4, <2>5 DEF HandleGetUserDetail
<1>8. CASE HandleGetDemand(s, req) /\ IsAdmin(s)
  <2>. DEFINE msg == [type |-> "DEMAND_LIST", demand |-> AggregatedDemand]
  <2>1. msg \in Reply
    BY DemandType DEF Reply
  <2>2. Answered(s, req, msg)
    BY <1>1, <1>8, <2>1 DEF HandleGetDemand, Answer, Answered, SaysTo, Send, Listed, Heard
  <2>. QED
    BY <2>2
<1>. QED
  BY <1>2, <1>3, <1>4, <1>5, <1>6, <1>7, <1>8
  DEF HandleAddRoute, HandleDelRoute, HandleUpdateSchedule, HandleGetUsers,
    HandleGetUserDetail, HandleGetDemand

LEMMA RiderAnswers ==
  ASSUME IInv, NEW s \in Sessions, NEW req, WellFormed(req), sessionUserId[s] # 0,
         \/ HandleSubscribe(s, req) \/ HandleUnsubscribe(s, req)
         \/ HandleGetSubs(s, req) \/ HandleRide(s, req) \/ HandleGetTickets(s, req)
         \/ HandleSetVotes(s, req) \/ HandleGetVotes(s, req)
  PROVE  \E msg : Answered(s, req, msg)
<1>. DEFINE uid == sessionUserId[s]
<1>0. uid \in UserIds
  BY DEF IInv, TypeOK, UserIds
<1>1. CASE HandleSubscribe(s, req)
  <2>1. /\ "Route does not exist." \in Texts /\ "Already subscribed to this route." \in Texts
        /\ "Subscribed successfully!" \in Texts /\ req.type = "SUBSCRIBE"
    BY <1>1 DEF Texts, HandleSubscribe
  <2>. QED
    BY <1>1, <2>1, Refused, Done DEF HandleSubscribe
<1>2. CASE HandleUnsubscribe(s, req)
  <2>1. "Not subscribed" \in Texts /\ "Unsubscribed" \in Texts /\ req.type = "UNSUBSCRIBE"
    BY <1>2 DEF Texts, HandleUnsubscribe
  <2>. QED
    BY <1>2, <2>1, Refused, Done DEF HandleUnsubscribe
<1>3. CASE HandleGetSubs(s, req)
  <2>1. [type |-> "SUBS_LIST", subs |-> SubscribedRouteIds(uid)] \in Reply
    BY DEF Reply, SubscribedRouteIds
  <2>2. Answered(s, req, [type |-> "SUBS_LIST", subs |-> SubscribedRouteIds(uid)])
    BY <1>3, <2>1 DEF HandleGetSubs, Answer, Answered, SaysTo, Send, Listed, Heard
  <2>. QED
    BY <2>2
<1>4. CASE HandleRide(s, req)
  <2>. DEFINE rid == Value(req, "routeId", 0)
              free == [type |-> "OK", message |-> "Ride recorded", ticketIssued |-> FALSE]
              paid == [type |-> "OK", message |-> "Ticket issued", ticketIssued |-> TRUE,
                       ticketId |-> nextTicketId]
  <2>1. free \in Reply /\ paid \in Reply
    BY DEF Reply, Texts, IInv, TypeOK, StoreTypeOK
  <2>2. RideRecorded(s, rid) /\ UNCHANGED sessionUserId => Answered(s, req, free)
    <3>1. RideRecorded(s, rid) => SaysTo(s, free) /\ UNCHANGED store
      BY SaysIt DEF RideRecorded
    <3>. QED
      BY <1>4, <2>1, <3>1 DEF HandleRide, Answered, Listed, Heard
  <2>3. RideCharged(s, rid) /\ UNCHANGED sessionUserId => Answered(s, req, paid)
    <3>1. RideCharged(s, rid) => SaysTo(s, paid)
      BY SaysIt DEF RideCharged
    <3>. QED
      BY <1>4, <2>1, <3>1 DEF HandleRide, Answered, Listed, Heard
  <2>. QED
    BY <1>4, <2>2, <2>3 DEF HandleRide
<1>5. CASE HandleGetTickets(s, req)
  <2>1. [type |-> "TICKETS", tickets |-> RowsOf(uid, tickets)] \in Reply
    BY DEF Reply, RowsOf, IInv, TypeOK, StoreTypeOK
  <2>2. Answered(s, req, [type |-> "TICKETS", tickets |-> RowsOf(uid, tickets)])
    BY <1>5, <2>1 DEF HandleGetTickets, Answer, Answered, SaysTo, Send, Listed, Heard
  <2>. QED
    BY <2>2
<1>6. CASE HandleSetVotes(s, req)
  <2>1. "Requests updated." \in Texts /\ req.type = "SET_VOTES"
    BY <1>6 DEF Texts, HandleSetVotes
  <2>. QED
    BY <1>6, <2>1, Done DEF HandleSetVotes
<1>7. CASE HandleGetVotes(s, req)
  <2>1. [type |-> "VOTES_LIST", votes |-> votes[uid]] \in Reply
    BY <1>0 DEF Reply, IInv, TypeOK, StoreTypeOK
  <2>2. Answered(s, req, [type |-> "VOTES_LIST", votes |-> votes[uid]])
    BY <1>7, <2>1 DEF HandleGetVotes, Answer, Answered, SaysTo, Send, Listed, Heard
  <2>. QED
    BY <2>2
<1>. QED
  BY <1>1, <1>2, <1>3, <1>4, <1>5, <1>6, <1>7

(* Every request is answered, once, by such a message.                     *)
LEMMA Answers ==
  ASSUME IInv, NEW s \in Sessions, NEW req, WellFormed(req), HandleMessage(s, req)
  PROVE  \E msg : Answered(s, req, msg)
<1>1. "Unauthorized" \in Texts /\ "Unknown message type" \in Texts
  BY DEF Texts
<1>2. CASE HandlePublic(s, req)
  BY <1>2, PublicAnswers
<1>3. CASE /\ req.type \notin Public /\ sessionUserId[s] = 0
           /\ Refuse(s, "Unauthorized")
  <2>1. ~IsAdmin(s) /\ req.type # "GET_ROUTES"
    BY <1>3 DEF IsAdmin, FindUserById, Public, IInv, TypeOK, StoreTypeOK, User, UserIds
  <2>. QED
    BY <1>1, <1>3, <2>1, Refused
<1>4. CASE sessionUserId[s] # 0 /\ HandleAuthenticated(s, req)
  <2>1. CASE req.type \notin Known /\ Refuse(s, "Unknown message type")
    BY <1>1, <2>1, Refused DEF Known, Public
  <2>. QED
    BY <1>4, <2>1, AdminAnswers, RiderAnswers DEF HandleAuthenticated
<1>. QED
  BY <1>2, <1>3, <1>4 DEF HandleMessage
----------------------------------------------------------------------------
(* Types *)

ClientTypes ==
  /\ serverUp \in BOOLEAN
  /\ session \in [Clients -> BOOLEAN]
  /\ socket \in [Clients -> {"connecting", "connected", "unconnected"}]
  /\ toServer \in [Clients -> Seq(ClientRequest)]
  /\ toClient \in [Clients -> Seq(Reply)]
  /\ screen \in [Clients -> {"login", "dashboard", "terminated"}]
  /\ dashboards \in [Clients -> Seq({"user", "admin"})]
  /\ clicks \in [Clients -> 0..MaxClicks]

(* How a client's variables go together.                                   *)
Linked(c) ==
  /\ session[c] => serverUp /\ socket[c] = "connected"
  /\ toServer[c] # <<>> => session[c]
  /\ toClient[c] # <<>> => socket[c] = "connected"
  /\ screen[c] = "dashboard" => dashboards[c] # <<>>

(* The part of the inductive invariants that all specifications of clients *)
(* share.                                                                  *)
CInv == IInv /\ ClientTypes /\ \A c \in Clients : Linked(c)

LEMMA ClientTypesOK == CInv => ClientTypeOK
<1>. SUFFICES ASSUME CInv PROVE ClientTypeOK
  OBVIOUS
<1>. USE DEF CInv, ClientTypes
<1>1. ASSUME NEW c \in Clients, NEW i \in DOMAIN toServer[c]
      PROVE  toServer[c][i].type \in Known
  <2>1. toServer[c][i] \in ClientRequest
    OBVIOUS
  <2>. QED
    BY <2>1, RequestFields
<1>2. ASSUME NEW c \in Clients, NEW d \in DOMAIN dashboards[c]
      PROVE  dashboards[c][d] \in {"user", "admin"}
  OBVIOUS
<1>. QED
  BY <1>1, <1>2 DEF Linked, ClientTypeOK

(* The initial state.                                                      *)
LEMMA InitCInv == ClientInit => CInv
<1>. SUFFICES ASSUME ClientInit PROVE CInv
  OBVIOUS
<1>1. IInv
  BY InitIInv DEF ClientInit
<1>. QED
  BY <1>1, ClientAssumption DEF ClientInit, CInv, ClientTypes, Linked

(* What is sent arrives behind what is under way, or is lost.              *)
LEMMA Sending ==
  ASSUME CInv, NEW c \in Clients, NEW reqs \in Seq(ClientRequest), SendRequests(c, reqs)
  PROVE  /\ toServer' \in [Clients -> Seq(ClientRequest)]
         /\ toServer'[c] = IF session[c] THEN toServer[c] \o reqs ELSE toServer[c]
         /\ \A d \in Clients : d # c => toServer'[d] = toServer[d]
BY DEF SendRequests, CInv, ClientTypes

(* What a dashboard asks for when it refreshes.                            *)
Question ==
  [type : {"GET_ROUTES", "GET_SUBS", "GET_TICKETS", "GET_VOTES", "GET_USERS", "GET_DEMAND"}]

LEMMA RefreshType ==
  /\ \A role : RefreshOf(role) \in Seq(Question)
  /\ Question \subseteq ClientRequest
<1>1. AdminRefresh \in Seq(Question)
  BY DEF AdminRefresh, Question
<1>2. UserRefresh \in Seq(Question)
  BY DEF UserRefresh, Question
<1>3. Question \subseteq ClientRequest
  BY DEF Question, ClientRequest
<1>. QED
  BY <1>1, <1>2, <1>3 DEF RefreshOf

(* The subscriptions are asked for right behind the routes.                *)
Behind(reqs) ==
  \A i \in DOMAIN reqs :
    reqs[i].type = "GET_SUBS" => i # 1 /\ reqs[i - 1].type = "GET_ROUTES"

LEMMA RefreshBehind == \A role : Behind(RefreshOf(role))
BY DEF Behind, RefreshOf, AdminRefresh, UserRefresh

(* All dashboards of the roles ask for all they show, and nothing else is  *)
(* sent.                                                                   *)
LEMMA Refreshing ==
  ASSUME CInv, NEW c \in Clients, NEW roles, RefreshAll(c, roles)
  PROVE  \E reqs \in Seq(Question) :
           /\ SendRequests(c, reqs) /\ Behind(reqs)
           /\ \A d \in DOMAIN dashboards[c] : dashboards[c][d] \in roles =>
                \E o \in Nat : At(reqs, o, RefreshOf(dashboards[c][d]))
<1>. DEFINE seqs == [d \in DOMAIN dashboards[c] |->
                       IF dashboards[c][d] \in roles THEN RefreshOf(dashboards[c][d]) ELSE <<>>]
            reqs == FlattenSeq(seqs)
<1>1. /\ dashboards[c] \in Seq({"user", "admin"}) /\ Len(dashboards[c]) \in Nat
      /\ DOMAIN dashboards[c] = 1..Len(dashboards[c])
  BY DEF CInv, ClientTypes
<1>2. seqs \in Seq(Seq(Question)) /\ Len(seqs) = Len(dashboards[c])
  <2>1. ASSUME NEW d \in 1..Len(dashboards[c]) PROVE seqs[d] \in Seq(Question)
    BY <1>1, RefreshType
  <2>2. seqs = [d \in 1..Len(dashboards[c]) |-> seqs[d]]
    BY <1>1
  <2>. HIDE DEF seqs
  <2>. QED
    BY <1>1, <2>1, <2>2
<1>3. reqs \in Seq(Question) /\ Parts(reqs, seqs, Len(seqs))
  <2>. HIDE DEF seqs
  <2>. QED
    BY <1>2, FlattenParts
<1>4. SendRequests(c, reqs)
  BY DEF RefreshAll
<1>5. ASSUME NEW d \in DOMAIN dashboards[c], dashboards[c][d] \in roles
      PROVE  \E o \in Nat : At(reqs, o, RefreshOf(dashboards[c][d]))
  <2>1. seqs[d] = RefreshOf(dashboards[c][d]) /\ d \in 1..Len(seqs)
    BY <1>1, <1>2, <1>5
  <2>. HIDE DEF seqs, reqs
  <2>. QED
    BY <1>3, <2>1 DEF Parts
<1>6. \A d \in DOMAIN seqs : Behind(seqs[d])
  BY RefreshBehind DEF Behind
<1>. HIDE DEF reqs, seqs
<1>7. ASSUME NEW j \in DOMAIN reqs, reqs[j].type = "GET_SUBS"
      PROVE  j # 1 /\ reqs[j - 1].type = "GET_ROUTES"
  <2>1. PICK d \in 1..Len(seqs), o \in Nat : At(reqs, o, seqs[d]) /\ j - o \in 1..Len(seqs[d])
    <3>1. j \in 1..Len(reqs)
      BY <1>3, <1>7
    <3>. QED
      BY <1>3, <3>1 DEF Parts
  <2>2. /\ d \in DOMAIN seqs /\ seqs[d] \in Seq(Question) /\ Len(seqs[d]) \in Nat
        /\ DOMAIN seqs[d] = 1..Len(seqs[d]) /\ j \in Nat /\ o + (j - o) = j
    BY <1>2, <1>3, <2>1
  <2>3. \A m \in 1..Len(seqs[d]) : reqs[o + m] = seqs[d][m]
    BY <2>1 DEF At
  <2>4. seqs[d][j - o].type = "GET_SUBS"
    BY <1>7, <2>1, <2>2, <2>3
  <2>5. j - o # 1 /\ seqs[d][j - o - 1].type = "GET_ROUTES"
    BY <1>6, <2>1, <2>2, <2>4 DEF Behind
  <2>6. j - o - 1 \in 1..Len(seqs[d]) /\ o + (j - o - 1) = j - 1 /\ j # 1
    BY <2>1, <2>2, <2>5
  <2>. QED
    BY <2>3, <2>5, <2>6
<1>. QED
  BY <1>3, <1>4, <1>5, <1>7 DEF Behind

(* What reading an answer sends and opens.                                 *)
LEMMA Reading ==
  ASSUME CInv, NEW c \in Clients, OnMessageReceived(c)
  PROVE  LET msg == Head(toClient[c]) IN
         /\ msg \in Reply /\ socket[c] = "connected"
         /\ toClient' = [toClient EXCEPT ![c] = Tail(@)]
         /\ \/ UNCHANGED toServer /\ msg.type \notin {"AUTH_OK", "OK", "ROUTE_OK"}
            \/ \E reqs \in Seq(Question) : SendRequests(c, reqs) /\ Behind(reqs)
         /\ \/ /\ msg.type = "AUTH_OK" /\ msg.user \in PublicUser
               /\ dashboards' = [dashboards EXCEPT ![c] = Append(@, msg.user.role)]
               /\ screen' = [screen EXCEPT ![c] = "dashboard"]
            \/ msg.type # "AUTH_OK" /\ UNCHANGED <<dashboards, screen>>
         /\ UNCHANGED <<logicVars, network, clicks>>
<1>. DEFINE msg == Head(toClient[c])
<1>1. msg \in Reply
  BY DEF OnMessageReceived, CInv, ClientTypes
<1>2. CASE OnAuthOk(c, msg)
  BY <1>1, <1>2, ReplyFields, RefreshType, RefreshBehind DEF OnAuthOk, OnMessageReceived
<1>3. CASE OnOk(c, msg)
  <2>1. \E reqs \in Seq(Question) : SendRequests(c, reqs) /\ Behind(reqs)
    BY <1>3, Refreshing DEF OnOk
  <2>. QED
    BY <1>1, <1>3, <2>1 DEF OnOk, OnMessageReceived
<1>4. CASE OnRouteOk(c, msg)
  <2>1. \E reqs \in Seq(Question) : SendRequests(c, reqs) /\ Behind(reqs)
    BY <1>4, Refreshing DEF OnRouteOk
  <2>. QED
    BY <1>1, <1>4, <2>1 DEF OnRouteOk, OnMessageReceived
<1>5. CASE OnOther(c, msg)
  BY <1>1, <1>5 DEF OnOther, OnMessageReceived
<1>. QED
  BY <1>2, <1>3, <1>4, <1>5 DEF OnMessageReceived
----------------------------------------------------------------------------
(* Every action keeps the types *)

LEMMA LogicKept ==
  ASSUME IInv, UNCHANGED logicVars
  PROVE  IInv'
BY StepIInv

(* The request at the head of a connection.                                *)
LEMMA Serving ==
  ASSUME CInv, NEW c \in Clients, Serve(c)
  PROVE  LET req == Head(toServer[c]) IN
         /\ c \in Sessions /\ session[c] /\ toServer[c] # <<>>
         /\ req \in ClientRequest /\ WellFormed(req) /\ HandleMessage(c, req)
         /\ toServer' = [toServer EXCEPT ![c] = Tail(@)]
         /\ \E msg : /\ Answered(c, req, msg)
                     /\ toClient' = [toClient EXCEPT ![c] = Append(@, msg)]
         /\ UNCHANGED <<network, screen, dashboards, clicks>>
<1>. DEFINE req == Head(toServer[c])
<1>1. c \in Sessions /\ req \in ClientRequest
  BY ClientAssumption DEF Serve, CInv, ClientTypes
<1>2. WellFormed(req)
  BY <1>1, RequestFields
<1>3. PICK msg : Answered(c, req, msg)
  BY <1>1, <1>2, Answers DEF Serve, CInv
<1>4. sent'[1].msg = msg
  BY <1>3 DEF Answered, SaysTo, Send, Send
<1>. QED
  BY <1>1, <1>2, <1>3, <1>4 DEF Serve

(* Whoever asks, the tables stay well-formed.                              *)
LEMMA HandledKeeps ==
  ASSUME IInv, NEW s \in Sessions, NEW req, WellFormed(req), HandleMessage(s, req)
  PROVE  IInv'
BY StepKinds, QuietKeeps, JoinKeeps, FleetKeeps, RiderKeeps

LEMMA ServeKeeps ==
  ASSUME CInv, NEW c \in Clients, Serve(c)
  PROVE  CInv'
<1>1. IInv'
  BY Serving, HandledKeeps DEF CInv
<1>2. PICK msg : /\ msg \in Reply
                 /\ toClient' = [toClient EXCEPT ![c] = Append(@, msg)]
  BY Serving DEF Answered, SaysTo, Send
<1>3. /\ session[c] /\ toServer[c] # <<>>
      /\ toServer' = [toServer EXCEPT ![c] = Tail(@)]
      /\ UNCHANGED <<serverUp, session, socket, screen, dashboards, clicks>>
  BY Serving DEF network
<1>. QED
  BY <1>1, <1>2, <1>3 DEF CInv, ClientTypes, Linked

LEMMA ConnectionKeeps ==
  ASSUME CInv, NEW c \in Clients,
         OnConnected(c) \/ OnConnectionRefused(c) \/ OnDisconnected(c)
  PROVE  CInv'
<1>1. CASE OnConnected(c)
  <2>1. QuietStep(c) /\ c \in Sessions
    BY <1>1, ClientAssumption DEF OnConnected, Accept, QuietStep
  <2>2. IInv'
    BY <2>1, QuietKeeps DEF CInv
  <2>. QED
    BY <1>1, <2>2 DEF OnConnected, CInv, ClientTypes, Linked
<1>2. CASE OnConnectionRefused(c)
  <2>1. IInv'
    BY <1>2, LogicKept DEF OnConnectionRefused, CInv
  <2>. QED
    BY <1>2, <2>1 DEF OnConnectionRefused, CInv, ClientTypes, Linked
<1>3. CASE OnDisconnected(c)
  <2>1. IInv'
    BY <1>3, LogicKept DEF OnDisconnected, CInv
  <2>. QED
    BY <1>3, <2>1 DEF OnDisconnected, CInv, ClientTypes, Linked
<1>. QED
  BY <1>1, <1>2, <1>3

LEMMA ReceiveKeeps ==
  ASSUME CInv, NEW c \in Clients, OnMessageReceived(c)
  PROVE  CInv'
<1>. DEFINE msg == Head(toClient[c])
<1>1. IInv'
  BY LogicKept DEF OnMessageReceived, CInv
<1>2. /\ toServer' \in [Clients -> Seq(ClientRequest)]
      /\ \A d \in Clients : d # c \/ ~session[c] => toServer'[d] = toServer[d]
  <2>1. CASE UNCHANGED toServer
    BY <2>1 DEF CInv, ClientTypes
  <2>2. CASE \E reqs \in Seq(Question) : SendRequests(c, reqs)
    <3>1. \E reqs \in Seq(ClientRequest) : SendRequests(c, reqs)
      BY <2>2, RefreshType
    <3>. QED
      BY <3>1, Sending
  <2>. QED
    BY <2>1, <2>2, Reading
<1>3. /\ dashboards' \in [Clients -> Seq({"user", "admin"})]
      /\ screen' \in [Clients -> {"login", "dashboard", "terminated"}]
      /\ \A d \in Clients : screen'[d] = "dashboard" => dashboards'[d] # <<>>
  <2>1. CASE /\ msg.user \in PublicUser
             /\ dashboards' = [dashboards EXCEPT ![c] = Append(@, msg.user.role)]
             /\ screen' = [screen EXCEPT ![c] = "dashboard"]
    <3>1. PICK role \in {"user", "admin"} : msg.user.role = role
      BY <2>1 DEF PublicUser
    <3>2. Append(dashboards[c], role) \in Seq({"user", "admin"}) \ {<<>>}
      <4>1. dashboards[c] \in Seq({"user", "admin"})
        BY DEF CInv, ClientTypes
      <4>2. Append(dashboards[c], role) \in Seq({"user", "admin"})
        BY <4>1
      <4>3. Len(Append(dashboards[c], role)) = Len(dashboards[c]) + 1 /\ Len(dashboards[c]) \in Nat
        BY <4>1
      <4>. QED
        BY <4>2, <4>3
    <3>3. dashboards' = [dashboards EXCEPT ![c] = Append(dashboards[c], role)]
      BY <2>1, <3>1
    <3>4. /\ dashboards' \in [Clients -> Seq({"user", "admin"})]
          /\ dashboards'[c] # <<>> /\ \A d \in Clients : d # c => dashboards'[d] = dashboards[d]
      BY <3>2, <3>3 DEF CInv, ClientTypes
    <3>5. /\ screen' \in [Clients -> {"login", "dashboard", "terminated"}]
          /\ \A d \in Clients : d # c => screen'[d] = screen[d]
      BY <2>1 DEF CInv, ClientTypes
    <3>. QED
      BY <3>4, <3>5 DEF CInv, Linked
  <2>2. CASE UNCHANGED <<dashboards, screen>>
    BY <2>2 DEF CInv, ClientTypes, Linked
  <2>. QED
    BY <2>1, <2>2, Reading
<1>4. toClient' \in [Clients -> Seq(Reply)] /\ \A d \in Clients : d # c => toClient'[d] = toClient[d]
  BY DEF OnMessageReceived, CInv, ClientTypes
<1>5. socket[c] = "connected" /\ UNCHANGED <<serverUp, session, socket, clicks>>
  BY DEF OnMessageReceived, network
<1>. QED
  BY <1>1, <1>2, <1>3, <1>4, <1>5 DEF CInv, ClientTypes, Linked

(* A click sends a few requests or none.                                   *)
LEMMA ClickKeeps ==
  ASSUME CInv, NEW c \in Clients, Click(c),
         UNCHANGED toServer \/ \E reqs \in Seq(ClientRequest) : SendRequests(c, reqs),
         \E v \in {"login", "dashboard", "terminated"} :
           /\ screen' = [screen EXCEPT ![c] = v]
           /\ v = "dashboard" => screen[c] = "dashboard"
  PROVE  CInv'
<1>1. IInv'
  BY LogicKept DEF Click, CInv
<1>2. /\ toServer' \in [Clients -> Seq(ClientRequest)]
      /\ \A d \in Clients : d # c \/ ~session[c] => toServer'[d] = toServer[d]
  <2>1. CASE UNCHANGED toServer
    BY <2>1 DEF CInv, ClientTypes
  <2>. QED
    BY <2>1, Sending
<1>3. clicks' \in [Clients -> 0..MaxClicks]
  BY ClientAssumption DEF Click, CInv, ClientTypes
<1>4. UNCHANGED <<serverUp, session, socket, toClient, dashboards>>
  BY DEF Click, network
<1>. QED
  BY <1>1, <1>2, <1>3, <1>4 DEF CInv, ClientTypes, Linked

(* What the buttons around the dashboards do.                              *)
LEMMA WindowClicking ==
  ASSUME CInv, NEW c \in Clients, WindowClicks(c)
  PROVE  /\ Click(c)
         /\ \/ UNCHANGED toServer
            \/ /\ screen[c] = "login"
               /\ \E req \in Logins[c] : req \in ClientRequest /\ SendRequests(c, <<req>>)
            \/ /\ screen[c] = "dashboard"
               /\ \E reqs \in Seq(Question) : SendRequests(c, reqs) /\ Behind(reqs)
         /\ \E v \in {"login", "dashboard"} :
              /\ screen' = [screen EXCEPT ![c] = v]
              /\ v = "dashboard" => screen[c] = "dashboard"
<1>0. screen = [screen EXCEPT ![c] = screen[c]] /\ c \in DOMAIN screen
  BY DEF CInv, ClientTypes
<1>1. CASE OnLoginOrRegisterClicked(c)
  <2>1. \A req \in Logins[c] : req \in ClientRequest
    BY ClientAssumption DEF ClientRequest
  <2>. QED
    BY <1>0, <1>1, <2>1 DEF OnLoginOrRegisterClicked
<1>2. CASE OnLogoutClicked(c)
  BY <1>2 DEF OnLogoutClicked
<1>3. CASE OnRefreshClicked(c)
  BY <1>0, <1>3, RefreshType, RefreshBehind DEF OnRefreshClicked
<1>. QED
  BY <1>1, <1>2, <1>3 DEF WindowClicks

LEMMA WindowClicksKeep ==
  ASSUME CInv, NEW c \in Clients, WindowClicks(c)
  PROVE  CInv'
<1>1. UNCHANGED toServer \/ \E reqs \in Seq(ClientRequest) : SendRequests(c, reqs)
  <2>1. ASSUME NEW req \in ClientRequest, SendRequests(c, <<req>>)
        PROVE  \E reqs \in Seq(ClientRequest) : SendRequests(c, reqs)
    <3>1. <<req>> \in Seq(ClientRequest)
      OBVIOUS
    <3>. QED
      BY <2>1, <3>1
  <2>2. \A reqs \in Seq(Question) : reqs \in Seq(ClientRequest)
    BY RefreshType
  <2>. QED
    BY <2>1, <2>2, WindowClicking
<1>. QED
  BY <1>1, WindowClicking, ClickKeeps

LEMMA OthersKeep ==
  ASSUME CInv, OthersAct
  PROVE  CInv'
<1>1. IInv'
  BY HandledKeeps, RequestAssumption DEF OthersAct, CInv
<1>. QED
  BY <1>1 DEF OthersAct, clientVars, network, CInv, ClientTypes, Linked

LEMMA UnchangedKeeps ==
  ASSUME CInv, UNCHANGED <<logicVars, clientVars>>
  PROVE  CInv'
<1>1. IInv'
  BY LogicKept DEF CInv
<1>. QED
  BY <1>1 DEF clientVars, network, CInv, ClientTypes, Linked
=============================================================================
