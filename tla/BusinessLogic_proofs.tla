----------------------- MODULE BusinessLogic_proofs -----------------------
(***************************************************************************)
(* Proofs about BusinessLogic, for every value of its constants.  The      *)
(* handlers are first reduced to the few ways in which a step can change   *)
(* the store (StepKinds); everything else is proved of those.              *)
(***************************************************************************)
EXTENDS BusinessLogic, SequenceLemmas

(* The ids on file are older than the counters and name one row each: what *)
(* makes a fresh id fresh.                                                 *)
IdsFresh ==
  /\ \A u \in users : u.id < nextUserId
  /\ \A r \in routes : r.id < nextRouteId
  /\ \A t \in tickets : t.id < nextTicketId
  /\ \A r, q \in routes : r.id = q.id => r = q
  /\ nextUserId >= 2 /\ nextRouteId >= 1 /\ nextTicketId >= 1

(* The inductive invariant.                                                *)
IInv == TypeOK /\ IdsFresh /\ SubscriptionsLive /\ AccountsUnambiguous
----------------------------------------------------------------------------
(* The ways a step changes the store *)

SentTo(s) == Len(sent') = 1 /\ sent'[1].to = s

Uid(s) == sessionUserId[s]

QuietStep(s) ==
  /\ UNCHANGED store
  /\ sent' = <<>> \/ SentTo(s)
  /\ \E uid \in {0} \cup IdsOf(users) :
       sessionUserId' \in {sessionUserId, [sessionUserId EXCEPT ![s] = uid]}

JoinStep(s) ==
  /\ SentTo(s)
  /\ \E name \in UserNames, pw \in Passwords :
       ~UsernameTaken(name) /\ AddUser(name, HashPassword(pw), "user")
  /\ sessionUserId' = [sessionUserId EXCEPT ![s] = nextUserId]

FleetStep(s) ==
  /\ SentTo(s) /\ IsAdmin(s) /\ UNCHANGED sessionUserId
  /\ \/ \E name \in RouteNames, schedule \in Schedule : AddRoute(name, schedule)
     \/ \E rid \in RouteIds : rid \in IdsOf(routes) /\ DeleteRoute(rid)
     \/ \E rid \in Nat, schedule \in Schedule : UpdateRouteSchedule(rid, schedule)

RiderStep(s, req) ==
  /\ SentTo(s) /\ Uid(s) # 0 /\ UNCHANGED sessionUserId
  /\ req.type \in {"SUBSCRIBE", "UNSUBSCRIBE", "RIDE", "SET_VOTES"}
  /\ \/ \E rid \in IdsOf(routes) : ~IsSubscribed(Uid(s), rid) /\ Subscribe(Uid(s), rid)
     \/ \E rid \in RouteIds : IsSubscribed(Uid(s), rid) /\ Unsubscribe(Uid(s), rid)
     \/ LET rid == Value(req, "routeId", 0) IN
          /\ req.type = "RIDE"
          /\ ~IsSubscribed(Uid(s), rid) /\ IssueTicket(Uid(s), rid, TRUE, TicketPrice)
     \/ \E vs \in Seq(RouteVote) : SetVotes(Uid(s), vs)

(* A reply is the one message of its step.                                 *)
LEMMA SentOne ==
  ASSUME NEW s \in Sessions, NEW msg, Send(s, msg)
  PROVE  SentTo(s)
BY DEF Send, SentTo

LEMMA AcknowledgedOne ==
  ASSUME NEW s \in Sessions, NEW rid, NEW msg, Acknowledge(s, rid, msg)
  PROVE  SentTo(s)
BY DEF Acknowledge, SentTo

(* A handler that only answers is quiet.                                   *)
LEMMA AnsweredQuietly ==
  ASSUME NEW s \in Sessions, NEW msg, Answer(s, msg)
  PROVE  QuietStep(s)
<1>1. SentTo(s)
  BY SentOne DEF Answer
<1>. QED
  BY <1>1 DEF Answer, QuietStep

(* A refusal is quiet.                                                     *)
LEMMA RefusedQuietly ==
  ASSUME NEW s \in Sessions, NEW text, Refuse(s, text)
  PROVE  QuietStep(s)
BY AnsweredQuietly DEF Refuse

(* Registration and login of BusinessLogic.cpp:67-103.                     *)
LEMMA PublicKinds ==
  ASSUME IInv, NEW s \in Sessions, NEW req, WellFormed(req), HandlePublic(s, req)
  PROVE  QuietStep(s) \/ JoinStep(s)
<1>1. CASE HandleRegister(s, req)
  <2>1. CASE \E text : Refuse(s, text)
    BY <2>1, RefusedQuietly
  <2>2. CASE /\ {"username", "password"} \subseteq DOMAIN req
             /\ req.username # EmptyText
             /\ AddUser(req.username, HashPassword(req.password), "user")
             /\ \E u \in users' : u.username = req.username /\ Authenticate(s, u)
    <3>1. req.username \in UserNames /\ req.password \in Passwords
      BY <2>2 DEF Value, WellFormed
    <3>2. PICK u \in users' : u.username = req.username /\ Authenticate(s, u)
      BY <2>2
    <3>3. u.id = nextUserId
      BY <2>2, <3>2 DEF AddUser, UsernameTaken
    <3>4. SentTo(s)
      BY <3>2, SentOne DEF Authenticate
    <3>5. ~UsernameTaken(req.username)
      BY <2>2 DEF AddUser
    <3>. QED
      BY <2>2, <3>1, <3>2, <3>3, <3>4, <3>5 DEF JoinStep, Authenticate
  <2>. QED
    BY <1>1, <2>1, <2>2 DEF HandleRegister
<1>2. CASE HandleLogin(s, req)
  <2>1. CASE \E text : Refuse(s, text)
    BY <2>1, RefusedQuietly
  <2>2. CASE (\E u \in users : Authenticate(s, u)) /\ UNCHANGED store
    <3>1. PICK u \in users : Authenticate(s, u)
      BY <2>2
    <3>2. SentTo(s)
      BY <3>1, SentOne DEF Authenticate
    <3>. QED
      BY <2>2, <3>1, <3>2 DEF QuietStep, Authenticate, IdsOf
  <2>. QED
    BY <1>2, <2>1, <2>2 DEF HandleLogin, FindUserByUsername
<1>3. CASE HandleGetRoutes(s, req)
  BY <1>3, AnsweredQuietly DEF HandleGetRoutes
<1>. QED
  BY <1>1, <1>2, <1>3 DEF HandlePublic

(* The administrator's handlers, BusinessLogic.cpp:114-129 and 192-273.    *)
LEMMA AdminKinds ==
  ASSUME IInv, NEW s \in Sessions, NEW req, WellFormed(req),
         \/ HandleAddRoute(s, req) \/ HandleDelRoute(s, req)
         \/ HandleUpdateSchedule(s, req) \/ HandleGetUsers(s, req)
         \/ HandleGetUserDetail(s, req) \/ HandleGetDemand(s, req)
  PROVE  QuietStep(s) \/ FleetStep(s)
<1>1. CASE \E msg : Answer(s, msg)
  BY <1>1, AnsweredQuietly
<1>2. CASE HandleAddRoute(s, req) /\ ~\E msg : Answer(s, msg)
  BY <1>2, SentOne DEF HandleAddRoute, Refuse, FleetStep, WellFormed
<1>3. CASE HandleDelRoute(s, req) /\ ~\E msg : Answer(s, msg)
  <2>1. /\ IsAdmin(s) /\ FindRouteById(Value(req, "routeId", 0)) # {}
        /\ DeleteRoute(Value(req, "routeId", 0)) /\ UNCHANGED sessionUserId
        /\ Send(s, MakeOk("Deleted"))
    BY <1>3 DEF HandleDelRoute, Refuse, DeleteRoute
  <2>2. Value(req, "routeId", 0) \in IdsOf(routes)
    BY <2>1 DEF FindRouteById, IdsOf
  <2>3. IdsOf(routes) \subseteq RouteIds
    BY DEF IInv, TypeOK, StoreTypeOK, Route, IdsOf
  <2>. QED
    BY <2>1, <2>2, <2>3, SentOne DEF FleetStep
<1>4. CASE HandleUpdateSchedule(s, req) /\ ~\E msg : Answer(s, msg)
  BY <1>4, SentOne DEF HandleUpdateSchedule, Refuse, FleetStep, WellFormed
<1>. QED
  BY <1>1, <1>2, <1>3, <1>4
  DEF HandleGetUsers, HandleGetUserDetail, HandleGetDemand, Refuse

(* The riders' handlers, BusinessLogic.cpp:131-190 and 238-261.            *)
LEMMA RiderKinds ==
  ASSUME IInv, NEW s \in Sessions, NEW req, WellFormed(req), sessionUserId[s] # 0,
         \/ HandleSubscribe(s, req) \/ HandleUnsubscribe(s, req)
         \/ HandleGetSubs(s, req) \/ HandleRide(s, req) \/ HandleGetTickets(s, req)
         \/ HandleSetVotes(s, req) \/ HandleGetVotes(s, req)
  PROVE  QuietStep(s) \/ RiderStep(s, req)
<1>. DEFINE rid == Value(req, "routeId", 0)
<1>1. CASE \E msg : Answer(s, msg)
  BY <1>1, AnsweredQuietly
<1>2. CASE HandleSubscribe(s, req) /\ ~\E msg : Answer(s, msg)
  <2>1. /\ FindRouteById(rid) # {} /\ ~IsSubscribed(Uid(s), rid)
        /\ Subscribe(Uid(s), rid) /\ UNCHANGED sessionUserId
        /\ Send(s, MakeOk("Subscribed successfully!"))
    BY <1>2 DEF HandleSubscribe, Refuse, Uid, Subscribe
  <2>2. rid \in IdsOf(routes)
    BY <2>1 DEF FindRouteById, IdsOf
  <2>3. req.type = "SUBSCRIBE"
    BY <1>2 DEF HandleSubscribe
  <2>. QED
    BY <2>1, <2>2, <2>3, SentOne DEF RiderStep, Uid
<1>3. CASE HandleUnsubscribe(s, req) /\ ~\E msg : Answer(s, msg)
  <2>1. /\ IsSubscribed(Uid(s), rid) /\ Unsubscribe(Uid(s), rid)
        /\ UNCHANGED sessionUserId /\ Send(s, MakeOk("Unsubscribed"))
    BY <1>3 DEF HandleUnsubscribe, Refuse, Uid, Unsubscribe
  <2>2. rid \in RouteIds
    BY <2>1 DEF IsSubscribed, IInv, TypeOK, StoreTypeOK
  <2>3. req.type = "UNSUBSCRIBE"
    BY <1>3 DEF HandleUnsubscribe
  <2>. QED
    BY <2>1, <2>2, <2>3, SentOne DEF RiderStep, Uid
<1>4. CASE HandleRide(s, req)
  <2>1. req.type = "RIDE" /\ UNCHANGED sessionUserId
    BY <1>4 DEF HandleRide
  <2>2. CASE RideRecorded(s, rid)
    BY <2>1, <2>2, AcknowledgedOne DEF RideRecorded, QuietStep
  <2>3. CASE ~IsSubscribed(Uid(s), rid) /\ RideCharged(s, rid)
    BY <2>1, <2>3, AcknowledgedOne DEF RideCharged, RiderStep, Uid
  <2>. QED
    BY <1>4, <2>2, <2>3 DEF HandleRide, Uid
<1>5. CASE HandleSetVotes(s, req)
  <2>1. req.votes \in Seq(RouteVote)
    BY <1>5 DEF HandleSetVotes, WellFormed
  <2>. QED
    BY <1>5, <2>1, SentOne DEF HandleSetVotes, RiderStep, Uid
<1>. QED
  BY <1>1, <1>2, <1>3, <1>4, <1>5 DEF HandleGetSubs, HandleGetTickets, HandleGetVotes

(* Whatever arrives, the step is of one of the four kinds.                 *)
LEMMA StepKinds ==
  ASSUME IInv, NEW s \in Sessions, NEW req, WellFormed(req), HandleMessage(s, req)
  PROVE  QuietStep(s) \/ JoinStep(s) \/ FleetStep(s) \/ RiderStep(s, req)
<1>1. CASE HandlePublic(s, req)
  BY <1>1, PublicKinds
<1>2. CASE \E text : Refuse(s, text)
  BY <1>2, RefusedQuietly
<1>3. CASE sessionUserId[s] # 0 /\ HandleAuthenticated(s, req)
  BY <1>3, <1>2, AdminKinds, RiderKinds DEF HandleAuthenticated
<1>. QED
  BY <1>1, <1>2, <1>3 DEF HandleMessage
----------------------------------------------------------------------------
(* The inductive invariant *)

(* The rows the constructor makes: DataStore.cpp:7-15.                     *)
LEMMA NewRouteType ==
  ASSUME NEW id \in RouteIds, NEW name \in RouteNames, NEW schedule \in Schedule
  PROVE  /\ NewRoute(id, name, schedule) \in Route
         /\ NewRoute(id, name, schedule).id = id
         /\ NewRoute(id, name, schedule).name = name
<1>1. GenerateDefaultSchedule(name) \in Seq(Trip)
  BY DataStoreAssumption DEF GenerateDefaultSchedule, Trip
<1>. QED
  BY <1>1 DEF NewRoute, Route, Schedule

(* The store as constructed, with no session authenticated.                *)
LEMMA InitIInv == Init => IInv
<1>. SUFFICES ASSUME Init PROVE IInv
  OBVIOUS
<1>. USE DEF Init, StoreInit
<1>1. \A i \in DOMAIN SeedRoutes :
        /\ i \in RouteIds
        /\ NewRoute(i, SeedRoutes[i], EmptyText) \in Route
        /\ NewRoute(i, SeedRoutes[i], EmptyText).id = i
  <2>1. \A i \in DOMAIN SeedRoutes : i \in RouteIds /\ SeedRoutes[i] \in RouteNames
    BY DataStoreAssumption DEF RouteIds
  <2>2. EmptyText \in Schedule
    BY DEF Schedule
  <2>. QED
    BY <2>1, <2>2, NewRouteType
<1>2. TypeOK
  <2>1. users \subseteq User
    BY DataStoreAssumption DEF User, HashPassword, UserIds
  <2>2. routes \subseteq Route
    BY <1>1
  <2>3. subscriptions \in [UserIds \X RouteIds -> Nat]
    OBVIOUS
  <2>4. votes \in [UserIds -> Seq(RouteVote)]
    OBVIOUS
  <2>5. nextRouteId \in Nat
    BY DataStoreAssumption
  <2>6. sessionUserId \in [Sessions -> 0..MaxUsers]
    BY DataStoreAssumption
  <2>7. tickets \subseteq Ticket /\ nextUserId \in Nat /\ nextTicketId \in Nat /\ sent = <<>>
    OBVIOUS
  <2>. HIDE DEF Init, StoreInit
  <2>. QED
    BY <2>1, <2>2, <2>3, <2>4, <2>5, <2>6, <2>7 DEF TypeOK, StoreTypeOK
<1>3. IdsFresh
  BY <1>1, DataStoreAssumption DEF IdsFresh
<1>4. SubscriptionsLive
  BY DEF SubscriptionsLive, IsSubscribed
<1>5. AccountsUnambiguous
  BY DEF AccountsUnambiguous
<1>. QED
  BY <1>2, <1>3, <1>4, <1>5 DEF IInv

(* Logging in, being accepted and asking leave the tables as they are.     *)
LEMMA QuietKeeps ==
  ASSUME IInv, NEW s \in Sessions, QuietStep(s)
  PROVE  IInv'
<1>. USE DEF IInv
<1>1. PICK uid \in {0} \cup IdsOf(users) :
        sessionUserId' \in {sessionUserId, [sessionUserId EXCEPT ![s] = uid]}
  BY DEF QuietStep
<1>2. TypeOK'
  <2>1. uid \in 0..MaxUsers
    BY <1>1, DataStoreAssumption DEF TypeOK, StoreTypeOK, User, IdsOf, UserIds
  <2>2. StoreTypeOK'
    BY DEF TypeOK, StoreTypeOK, QuietStep, store
  <2>3. sessionUserId' \in [Sessions -> 0..MaxUsers]
    BY <1>1, <2>1 DEF TypeOK
  <2>. QED
    BY <2>2, <2>3 DEF TypeOK, QuietStep, SentTo
<1>3. IdsFresh'
  BY DEF IdsFresh, QuietStep, store
<1>4. SubscriptionsLive'
  BY DEF SubscriptionsLive, IsSubscribed, IdsOf, QuietStep, store
<1>5. AccountsUnambiguous'
  BY <1>1 DEF AccountsUnambiguous, IdsOf, QuietStep, store, TypeOK
<1>. QED
  BY <1>2, <1>3, <1>4, <1>5

(* A registered name is new and so is its id: DataStore.cpp:37-49.         *)
LEMMA JoinKeeps ==
  ASSUME IInv, NEW s \in Sessions, JoinStep(s)
  PROVE  IInv'
<1>. USE DEF IInv
<1>1. PICK name \in UserNames, pw \in Passwords :
        ~UsernameTaken(name) /\ AddUser(name, HashPassword(pw), "user")
  BY DEF JoinStep
<1>. DEFINE new == [id |-> nextUserId, username |-> name,
                    passwordHash |-> HashPassword(pw), role |-> "user"]
<1>2. /\ users' = users \cup {new} /\ nextUserId \in 2..MaxUsers
      /\ nextUserId' = nextUserId + 1
      /\ UNCHANGED <<routes, subscriptions, tickets, votes, nextRouteId, nextTicketId>>
      /\ sessionUserId' = [sessionUserId EXCEPT ![s] = nextUserId]
  BY <1>1, DataStoreAssumption DEF AddUser, JoinStep, IdsFresh, TypeOK, StoreTypeOK
<1>3. new \in User
  BY <1>2 DEF User, HashPassword, UserIds
<1>4. IdsOf(users) \subseteq IdsOf(users') /\ nextUserId \in IdsOf(users')
  <2>1. users \subseteq users' /\ new \in users' /\ new.id = nextUserId
    BY <1>2
  <2>. HIDE DEF new
  <2>. QED
    BY <2>1 DEF IdsOf
<1>5. TypeOK'
  BY <1>2, <1>3, DataStoreAssumption DEF TypeOK, StoreTypeOK, JoinStep, SentTo
<1>6. IdsFresh'
  BY <1>2, <1>3 DEF IdsFresh, TypeOK, StoreTypeOK, User, UserIds
<1>7. SubscriptionsLive'
  BY <1>2, <1>4 DEF SubscriptionsLive, IsSubscribed
<1>8. AccountsUnambiguous'
  <2>1. \A u, v \in users' : u.id = v.id \/ u.username = v.username => u = v
    <3>1. \A u \in users : u.id # nextUserId /\ u.username # name
      BY <1>1, <1>2 DEF IdsFresh, UsernameTaken, TypeOK, StoreTypeOK, User, UserIds
    <3>. QED
      BY <1>2, <3>1 DEF AccountsUnambiguous
  <2>2. \A u \in users' : u.role = "admin" <=> u.id = 1
    BY <1>2 DEF AccountsUnambiguous
  <2>3. \A t \in Sessions : sessionUserId'[t] # 0 => sessionUserId'[t] \in IdsOf(users')
    BY <1>2, <1>4 DEF AccountsUnambiguous, TypeOK
  <2>. QED
    BY <2>1, <2>2, <2>3 DEF AccountsUnambiguous
<1>. QED
  BY <1>5, <1>6, <1>7, <1>8

(* Adding, editing and deleting a route: DataStore.cpp:72-105.             *)
LEMMA FleetKeeps ==
  ASSUME IInv, NEW s \in Sessions, FleetStep(s)
  PROVE  IInv'
<1>. USE DEF IInv
<1>0. SentTo(s) /\ UNCHANGED sessionUserId
  BY DEF FleetStep
<1>1. CASE \E name \in RouteNames, schedule \in Schedule : AddRoute(name, schedule)
  <2>1. PICK name \in RouteNames, schedule \in Schedule : AddRoute(name, schedule)
    BY <1>1
  <2>. DEFINE new == NewRoute(nextRouteId, name, schedule)
  <2>2. /\ routes' = routes \cup {new} /\ nextRouteId \in RouteIds
        /\ nextRouteId' = nextRouteId + 1
        /\ UNCHANGED <<users, subscriptions, tickets, votes, nextUserId, nextTicketId>>
    BY <2>1 DEF AddRoute, IdsFresh, TypeOK, StoreTypeOK, RouteIds
  <2>3. new \in Route /\ new.id = nextRouteId
    BY <2>2, NewRouteType
  <2>. HIDE DEF new
  <2>4. TypeOK'
    BY <1>0, <2>2, <2>3 DEF TypeOK, StoreTypeOK, SentTo, RouteIds
  <2>5. IdsFresh'
    BY <2>2, <2>3 DEF IdsFresh, TypeOK, StoreTypeOK, Route, RouteIds
  <2>6. SubscriptionsLive'
    BY <2>2 DEF SubscriptionsLive, IsSubscribed, IdsOf
  <2>7. AccountsUnambiguous'
    BY <1>0, <2>2 DEF AccountsUnambiguous, IdsOf
  <2>. QED
    BY <2>4, <2>5, <2>6, <2>7
<1>2. CASE \E rid \in RouteIds : rid \in IdsOf(routes) /\ DeleteRoute(rid)
  <2>1. PICK rid \in RouteIds : DeleteRoute(rid)
    BY <1>2
  <2>2. /\ routes' = {r \in routes : r.id # rid}
        /\ subscriptions' = [p \in UserIds \X RouteIds |->
                               IF p[2] = rid THEN 0 ELSE subscriptions[p]]
        /\ UNCHANGED <<users, tickets, votes, nextUserId, nextRouteId, nextTicketId>>
    BY <2>1 DEF DeleteRoute, FindRouteById, TypeOK, StoreTypeOK
  <2>3. subscriptions' \in [UserIds \X RouteIds -> Nat]
    BY <2>2 DEF TypeOK, StoreTypeOK
  <2>4. TypeOK'
    BY <1>0, <2>2, <2>3 DEF TypeOK, StoreTypeOK, SentTo
  <2>5. IdsFresh'
    BY <2>2 DEF IdsFresh
  <2>6. SubscriptionsLive'
    <3>1. ASSUME NEW uid \in UserIds, NEW r \in RouteIds, IsSubscribed(uid, r)'
          PROVE  IsSubscribed(uid, r) /\ r # rid
                   /\ subscriptions'[<<uid, r>>] = subscriptions[<<uid, r>>]
      BY <2>2, <3>1 DEF IsSubscribed, TypeOK, StoreTypeOK
    <3>. QED
      BY <2>2, <3>1, ZenonT(60) DEF SubscriptionsLive, IdsOf
  <2>7. AccountsUnambiguous'
    BY <1>0, <2>2 DEF AccountsUnambiguous, IdsOf
  <2>. QED
    BY <2>4, <2>5, <2>6, <2>7
<1>3. CASE \E rid \in Nat, schedule \in Schedule : UpdateRouteSchedule(rid, schedule)
  <2>1. PICK rid \in Nat, schedule \in Schedule : UpdateRouteSchedule(rid, schedule)
    BY <1>3
  <2>. DEFINE edited(r) == IF r.id = rid THEN [r EXCEPT !.schedule = schedule] ELSE r
  <2>2. /\ routes' = {edited(r) : r \in routes}
        /\ UNCHANGED <<users, subscriptions, tickets, votes,
                       nextUserId, nextRouteId, nextTicketId>>
    BY <2>1 DEF UpdateRouteSchedule
  <2>3. \A r \in routes : edited(r) \in Route /\ edited(r).id = r.id
    BY DEF Route, TypeOK, StoreTypeOK
  <2>. HIDE DEF edited
  <2>4. TypeOK'
    BY <1>0, <2>2, <2>3 DEF TypeOK, StoreTypeOK, SentTo
  <2>5. IdsFresh'
    BY <2>2, <2>3 DEF IdsFresh
  <2>6. IdsOf(routes') = IdsOf(routes)
    BY <2>2, <2>3 DEF IdsOf
  <2>7. SubscriptionsLive'
    BY <2>2, <2>6 DEF SubscriptionsLive, IsSubscribed
  <2>8. AccountsUnambiguous'
    BY <1>0, <2>2 DEF AccountsUnambiguous, IdsOf
  <2>. QED
    BY <2>4, <2>5, <2>7, <2>8
<1>. QED
  BY <1>1, <1>2, <1>3 DEF FleetStep

(* Subscribing, unsubscribing, riding and voting: DataStore.cpp:120-183.   *)
LEMMA RiderKeeps ==
  ASSUME IInv, NEW s \in Sessions, NEW req, WellFormed(req), RiderStep(s, req)
  PROVE  IInv'
<1>. USE DEF IInv
<1>0. /\ SentTo(s) /\ UNCHANGED sessionUserId
      /\ Uid(s) \in UserIds /\ Uid(s) \in IdsOf(users)
  BY DEF RiderStep, Uid, AccountsUnambiguous, TypeOK, UserIds
<1>1. CASE \E rid \in IdsOf(routes) : ~IsSubscribed(Uid(s), rid) /\ Subscribe(Uid(s), rid)
  <2>1. PICK rid \in IdsOf(routes) : ~IsSubscribed(Uid(s), rid) /\ Subscribe(Uid(s), rid)
    BY <1>1
  <2>2. rid \in RouteIds /\ <<Uid(s), rid>> \in UserIds \X RouteIds
    BY <1>0 DEF IdsOf, TypeOK, StoreTypeOK, Route
  <2>3. /\ subscriptions' = [subscriptions EXCEPT ![<<Uid(s), rid>>] = 1]
        /\ UNCHANGED <<users, routes, tickets, votes, nextUserId, nextRouteId, nextTicketId>>
    <3>1. subscriptions[<<Uid(s), rid>>] = 0
      BY <2>1, <2>2 DEF IsSubscribed, TypeOK, StoreTypeOK
    <3>. QED
      BY <2>1, <3>1 DEF Subscribe
  <2>4. TypeOK'
    BY <1>0, <2>3 DEF TypeOK, StoreTypeOK, SentTo
  <2>5. IdsFresh'
    BY <2>3 DEF IdsFresh
  <2>6. SubscriptionsLive'
    BY <1>0, <2>2, <2>3 DEF SubscriptionsLive, IsSubscribed, TypeOK, StoreTypeOK
  <2>7. AccountsUnambiguous'
    BY <1>0, <2>3 DEF AccountsUnambiguous, IdsOf
  <2>. QED
    BY <2>4, <2>5, <2>6, <2>7
<1>2. CASE \E rid \in RouteIds : IsSubscribed(Uid(s), rid) /\ Unsubscribe(Uid(s), rid)
  <2>1. PICK rid \in RouteIds : Unsubscribe(Uid(s), rid)
    BY <1>2
  <2>2. /\ subscriptions' = [subscriptions EXCEPT ![<<Uid(s), rid>>] = 0]
        /\ UNCHANGED <<users, routes, tickets, votes, nextUserId, nextRouteId, nextTicketId>>
    BY <2>1 DEF Unsubscribe
  <2>3. TypeOK'
    BY <1>0, <2>2 DEF TypeOK, StoreTypeOK, SentTo
  <2>4. IdsFresh'
    BY <2>2 DEF IdsFresh
  <2>5. SubscriptionsLive'
    BY <2>2 DEF SubscriptionsLive, IsSubscribed, TypeOK, StoreTypeOK
  <2>6. AccountsUnambiguous'
    BY <1>0, <2>2 DEF AccountsUnambiguous, IdsOf
  <2>. QED
    BY <2>3, <2>4, <2>5, <2>6
<1>3. CASE req.type = "RIDE" /\ IssueTicket(Uid(s), Value(req, "routeId", 0), TRUE, TicketPrice)
  <2>1. IssueTicket(Uid(s), Value(req, "routeId", 0), TRUE, TicketPrice)
    BY <1>3
  <2>. DEFINE rid == Value(req, "routeId", 0)
              new == [id |-> nextTicketId, userId |-> Uid(s), routeId |-> rid,
                      charged |-> TRUE, price |-> TicketPrice]
  <2>2. rid \in Nat
    BY DEF WellFormed
  <2>3. /\ tickets' = tickets \cup {new} /\ nextTicketId \in 1..MaxTickets
        /\ nextTicketId' = nextTicketId + 1
        /\ UNCHANGED <<users, routes, subscriptions, votes, nextUserId, nextRouteId>>
    BY <2>1, DataStoreAssumption DEF IssueTicket, IdsFresh, TypeOK, StoreTypeOK
  <2>4. new \in Ticket /\ new.id = nextTicketId
    BY <1>0, <2>2, <2>3 DEF Ticket, TicketPrice
  <2>. HIDE DEF new
  <2>5. TypeOK'
    BY <1>0, <2>3, <2>4 DEF TypeOK, StoreTypeOK, SentTo
  <2>6. IdsFresh'
    BY <2>3, <2>4 DEF IdsFresh, TypeOK, StoreTypeOK, Ticket
  <2>7. SubscriptionsLive'
    BY <2>3 DEF SubscriptionsLive, IsSubscribed, IdsOf
  <2>8. AccountsUnambiguous'
    BY <1>0, <2>3 DEF AccountsUnambiguous, IdsOf
  <2>. QED
    BY <2>5, <2>6, <2>7, <2>8
<1>4. CASE \E vs \in Seq(RouteVote) : SetVotes(Uid(s), vs)
  <2>1. PICK vs \in Seq(RouteVote) : SetVotes(Uid(s), vs)
    BY <1>4
  <2>2. TypeOK'
    BY <1>0, <2>1 DEF SetVotes, TypeOK, StoreTypeOK, SentTo
  <2>3. IdsFresh'
    BY <2>1 DEF SetVotes, IdsFresh
  <2>4. SubscriptionsLive' /\ AccountsUnambiguous'
    BY <1>0, <2>1 DEF SetVotes, SubscriptionsLive, IsSubscribed, AccountsUnambiguous, IdsOf
  <2>. QED
    BY <2>2, <2>3, <2>4
<1>. QED
  BY <1>1, <1>2, <1>3, <1>4 DEF RiderStep

(* A step of the server is a new connection or a request on one of them.   *)
LEMMA NextKinds ==
  ASSUME IInv, Next
  PROVE  \E s \in Sessions : \/ QuietStep(s) \/ JoinStep(s) \/ FleetStep(s)
                            \/ \E req \in Requests : RiderStep(s, req)
<1>1. PICK s \in Sessions : Accept(s) \/ \E req \in Requests : HandleMessage(s, req)
  BY DEF Next
<1>2. CASE Accept(s)
  BY <1>2 DEF Accept, QuietStep
<1>3. CASE \E req \in Requests : HandleMessage(s, req)
  BY <1>3, StepKinds, RequestAssumption
<1>. QED
  BY <1>1, <1>2, <1>3

(* The invariant is inductive.                                             *)
LEMMA StepIInv == IInv /\ [Next]_logicVars => IInv'
<1>. SUFFICES ASSUME IInv, [Next]_logicVars PROVE IInv'
  OBVIOUS
<1>1. CASE Next
  BY <1>1, NextKinds, QuietKeeps, JoinKeeps, FleetKeeps, RiderKeeps, RequestAssumption
<1>2. CASE UNCHANGED logicVars
  BY <1>2 DEF logicVars, store, IInv, TypeOK, StoreTypeOK, IdsFresh, SubscriptionsLive,
    IsSubscribed, AccountsUnambiguous, IdsOf
<1>. QED
  BY <1>1, <1>2

(* The invariant holds throughout every behaviour of the server.           *)
THEOREM Invariance == Spec => []IInv
BY InitIInv, StepIInv, PTL DEF Spec

(* Type correctness.                                                       *)
THEOREM TypeCorrect == Spec => []TypeOK
<1>1. IInv => TypeOK
  BY DEF IInv
<1>. QED
  BY <1>1, Invariance, PTL

(* No subscription outlives its route or precedes its user, and none is on *)
(* file twice: handleSubscribe's checks and deleteRoute's purge suffice.   *)
THEOREM SubscriptionsAlwaysLive == Spec => []SubscriptionsLive
<1>1. IInv => SubscriptionsLive
  BY DEF IInv
<1>. QED
  BY <1>1, Invariance, PTL

(* Names and ids denote one account, nobody but the built-in account is an *)
(* administrator and no session holds the id of an account that is not.    *)
THEOREM AccountsAlwaysUnambiguous == Spec => []AccountsUnambiguous
<1>1. IInv => AccountsUnambiguous
  BY DEF IInv
<1>. QED
  BY <1>1, Invariance, PTL

(* The votes on file can be counted.                                       *)
LEMMA CastVotesFinite == IInv => IsFiniteSet(CastVotes)
<1>. SUFFICES ASSUME IInv PROVE IsFiniteSet(CastVotes)
  OBVIOUS
<1>. DEFINE Cast == [uid \in UserIds |-> {<<uid, i>> : i \in DOMAIN votes[uid]}]
            All == {Cast[uid] : uid \in UserIds}
<1>1. ASSUME NEW uid \in UserIds PROVE IsFiniteSet(Cast[uid])
  <2>. DEFINE n == Len(votes[uid])
              f == [i \in 1..n |-> <<uid, i>>]
  <2>1. n \in Nat /\ DOMAIN votes[uid] = 1..n
    BY DEF IInv, TypeOK, StoreTypeOK
  <2>2. IsFiniteSet(1..n)
    BY <2>1, FS_Interval
  <2>3. f \in Surjection(1..n, Cast[uid])
    BY <2>1 DEF Surjection
  <2>. QED
    BY <2>2, <2>3, FS_Surjection
<1>2. IsFiniteSet(All)
  <2>1. IsFiniteSet(UserIds)
    BY DataStoreAssumption, FS_Interval DEF UserIds
  <2>2. Cast \in Surjection(UserIds, All)
    BY DEF Surjection
  <2>. QED
    BY <2>1, <2>2, FS_Surjection
<1>3. CastVotes = UNION All
  BY DEF CastVotes
<1>. QED
  <2>. HIDE DEF All
  <2>1. \A T \in All : IsFiniteSet(T)
    BY <1>1 DEF All
  <2>. QED
    BY <1>2, <1>3, <2>1, FS_UNION

(* No vote on file is missing from the demand the administrator sees, and  *)
(* none is counted twice: AggregatedDemand has an entry for each value.    *)
THEOREM DemandAlwaysConserved == Spec => []DemandConserved
<1>1. ASSUME IInv PROVE DemandConserved
  <2>. DEFINE f == [p \in CastVotes |-> votes[p[1]][p[2]]]
  <2>1. /\ {f[p] : p \in CastVotes} = {votes[p[1]][p[2]] : p \in CastVotes}
        /\ \A k : {p \in CastVotes : f[p] = k} = {p \in CastVotes : votes[p[1]][p[2]] = k}
    OBVIOUS
  <2>2. AggregatedDemand = EntriesOf(CastVotes, f)
    <3>. DEFINE Old(k) == [key |-> k, count |-> Cardinality({p \in CastVotes : votes[p[1]][p[2]] = k})]
                New(k) == [key |-> k, count |-> Cardinality({p \in CastVotes : f[p] = k})]
    <3>1. /\ AggregatedDemand = {Old(k) : k \in {votes[p[1]][p[2]] : p \in CastVotes}}
          /\ EntriesOf(CastVotes, f) = {New(k) : k \in {f[p] : p \in CastVotes}}
      BY Zenon DEF AggregatedDemand, EntriesOf
    <3>2. \A k : Old(k) = New(k)
      <4>. HIDE DEF f
      <4>. QED
        BY <2>1
    <3>. HIDE DEF Old, New, f
    <3>. QED
      BY <2>1, <3>1, <3>2
  <2>3. MapThenSumSet(LAMBDA e : e.count, EntriesOf(CastVotes, f)) = Cardinality(CastVotes)
    <3>. HIDE DEF f
    <3>. QED
      BY <1>1, CastVotesFinite, EntriesAddUp
  <2>. QED
    BY <2>2, <2>3 DEF DemandConserved
<1>2. IInv => DemandConserved
  BY <1>1
<1>. QED
  BY <1>2, Invariance, PTL
----------------------------------------------------------------------------
(* What a step never does *)

(* A route's id and name are set once, from a counter that only grows.     *)
LEMMA StepKeepsRouteIds ==
  ASSUME IInv, [Next]_logicVars
  PROVE  KeepsRouteIds
<1>. USE DEF IInv, KeepsRouteIds
<1>1. CASE UNCHANGED routes
  BY <1>1 DEF IdsFresh
<1>2. ASSUME NEW s \in Sessions, FleetStep(s)
      PROVE  KeepsRouteIds
  <2>1. CASE \E name \in RouteNames, schedule \in Schedule : AddRoute(name, schedule)
    <3>1. PICK name \in RouteNames, schedule \in Schedule : AddRoute(name, schedule)
      BY <2>1
    <3>. DEFINE new == NewRoute(nextRouteId, name, schedule)
    <3>2. routes' = routes \cup {new} /\ nextRouteId \in RouteIds
      BY <3>1 DEF AddRoute, IdsFresh, TypeOK, StoreTypeOK, RouteIds
    <3>3. new.id = nextRouteId
      BY <3>2, NewRouteType
    <3>. HIDE DEF new
    <3>. QED
      BY <3>2, <3>3 DEF IdsFresh, IdsOf, RouteIds, TypeOK, StoreTypeOK, Route
  <2>2. CASE \E rid \in RouteIds : DeleteRoute(rid)
    BY <2>2 DEF DeleteRoute, FindRouteById, IdsFresh, IdsOf
  <2>3. CASE \E rid \in Nat, schedule \in Schedule : UpdateRouteSchedule(rid, schedule)
    <3>1. PICK rid \in Nat, schedule \in Schedule : UpdateRouteSchedule(rid, schedule)
      BY <2>3
    <3>2. ASSUME NEW q \in routes'
          PROVE  \E r \in routes : q.id = r.id /\ q.name = r.name
      BY <3>1, <3>2 DEF UpdateRouteSchedule, TypeOK, StoreTypeOK, Route
    <3>. QED
      BY <3>2 DEF IdsFresh, IdsOf
  <2>. QED
    BY <1>2, <2>1, <2>2, <2>3 DEF FleetStep
<1>3. CASE Next
  <2>1. PICK s \in Sessions : \/ QuietStep(s) \/ JoinStep(s) \/ FleetStep(s)
                             \/ \E req \in Requests : RiderStep(s, req)
    BY <1>3, NextKinds
  <2>. QED
    BY <1>1, <1>2, <2>1 DEF QuietStep, JoinStep, RiderStep, AddUser, Subscribe,
      Unsubscribe, IssueTicket, SetVotes, store
<1>. QED
  BY <1>1, <1>3 DEF logicVars, store

(* A route id never comes to mean another route.                           *)
THEOREM RouteIdsAlwaysStable == Spec => RouteIdsStable
BY Invariance, StepKeepsRouteIds, PTL DEF Spec, RouteIdsStable

(* Every handler that touches the routes asks for the role first.          *)
LEMMA StepByAdmin ==
  ASSUME IInv, [Next]_logicVars
  PROVE  ByAdmin
<1>1. CASE UNCHANGED routes
  BY <1>1 DEF ByAdmin
<1>2. ASSUME NEW s \in Sessions, FleetStep(s)
      PROVE  ByAdmin
  <2>1. sent' # <<>> /\ sent'[1].to = s
    BY <1>2 DEF FleetStep, SentTo
  <2>. QED
    BY <1>2, <2>1 DEF FleetStep, IsAdmin, FindUserById, Actor, ByAdmin
<1>3. CASE Next
  <2>1. PICK s \in Sessions : \/ QuietStep(s) \/ JoinStep(s) \/ FleetStep(s)
                             \/ \E req \in Requests : RiderStep(s, req)
    BY <1>3, NextKinds
  <2>. QED
    BY <1>1, <1>2, <2>1 DEF QuietStep, JoinStep, RiderStep, AddUser, Subscribe,
      Unsubscribe, IssueTicket, SetVotes, store
<1>. QED
  BY <1>1, <1>3 DEF logicVars, store

(* Only an administrator's session changes the routes or a schedule.       *)
THEOREM OnlyAdminEverChangesRoutes == Spec => OnlyAdminChangesRoutes
BY Invariance, StepByAdmin, PTL DEF Spec, OnlyAdminChangesRoutes

(* The administrator's requests take nothing from users but the            *)
(* subscriptions of a deleted route.                                       *)
LEMMA FleetIsOwnDoing ==
  ASSUME IInv, NEW s \in Sessions, FleetStep(s)
  PROVE  /\ OwnDoing /\ UNCHANGED <<tickets, votes>>
         /\ \A uid \in UserIds :
              /\ SubscribedRouteIds(uid)' \subseteq SubscribedRouteIds(uid)
              /\ \A rid \in SubscribedRouteIds(uid) \ SubscribedRouteIds(uid)' :
                   rid \notin IdsOf(routes')
<1>. USE DEF IInv
<1>1. CASE UNCHANGED <<subscriptions, tickets, votes>>
  BY <1>1 DEF OwnDoing, RowsOf, SubscribedRouteIds, IsSubscribed
<1>2. CASE \E rid \in RouteIds : DeleteRoute(rid)
  <2>1. PICK rid \in RouteIds : DeleteRoute(rid)
    BY <1>2
  <2>2. /\ rid \notin IdsOf(routes') /\ UNCHANGED <<tickets, votes>>
        /\ subscriptions' = [p \in UserIds \X RouteIds |->
                               IF p[2] = rid THEN 0 ELSE subscriptions[p]]
    BY <2>1 DEF DeleteRoute, FindRouteById, IdsOf, TypeOK, StoreTypeOK
  <2>3. ASSUME NEW uid \in UserIds, NEW r \in RouteIds
        PROVE  /\ IsSubscribed(uid, r)' => IsSubscribed(uid, r)
               /\ IsSubscribed(uid, r) /\ ~IsSubscribed(uid, r)' => r = rid
    BY <2>2 DEF IsSubscribed, TypeOK, StoreTypeOK
  <2>. QED
    BY <2>2, <2>3 DEF OwnDoing, RowsOf, SubscribedRouteIds
<1>. QED
  BY <1>1, <1>2 DEF FleetStep, AddRoute, UpdateRouteSchedule

(* A rider's requests touch nothing of other users.                        *)
LEMMA RiderIsOwnDoing ==
  ASSUME IInv, NEW s \in Sessions, NEW req, RiderStep(s, req)
  PROVE  OwnDoing /\ Actor = Uid(s)
<1>. USE DEF IInv
<1>1. Actor = Uid(s) /\ Uid(s) \in UserIds
  <2>1. SentTo(s)
    BY DEF RiderStep
  <2>2. Uid(s) # 0
    BY DEF RiderStep
  <2>3. sent' # <<>> /\ sent'[1].to = s
    BY <2>1 DEF SentTo
  <2>. QED
    BY <2>2, <2>3 DEF Actor, Uid, TypeOK, UserIds
<1>2. ASSUME NEW uid \in UserIds, uid # Uid(s)
      PROVE  /\ RowsOf(uid, tickets') = RowsOf(uid, tickets)
             /\ votes'[uid] = votes[uid]
             /\ \A rid \in RouteIds : subscriptions'[<<uid, rid>>] = subscriptions[<<uid, rid>>]
  <2>1. CASE \E rid \in Nat : Subscribe(Uid(s), rid) \/ Unsubscribe(Uid(s), rid)
    BY <1>2, <2>1 DEF Subscribe, Unsubscribe, TypeOK, StoreTypeOK
  <2>2. CASE \E rid : IssueTicket(Uid(s), rid, TRUE, TicketPrice)
    BY <1>2, <2>2 DEF IssueTicket, RowsOf
  <2>3. CASE \E vs : SetVotes(Uid(s), vs)
    BY <1>2, <2>3 DEF SetVotes, TypeOK, StoreTypeOK
  <2>4. IdsOf(routes) \subseteq Nat /\ RouteIds \subseteq Nat
    BY DEF IdsOf, TypeOK, StoreTypeOK, Route, RouteIds
  <2>. QED
    BY <2>1, <2>2, <2>3, <2>4 DEF RiderStep
<1>3. DOMAIN subscriptions' = DOMAIN subscriptions
  BY DEF RiderStep, Subscribe, Unsubscribe, IssueTicket, SetVotes
<1>. QED
  BY <1>1, <1>2, <1>3 DEF OwnDoing, SubscribedRouteIds, IsSubscribed

(* A step leaves alone what belongs to users other than its actor, except  *)
(* that the subscriptions of a deleted route go with it.                   *)
LEMMA StepIsOwnDoing ==
  ASSUME IInv, [Next]_logicVars
  PROVE  OwnDoing
<1>1. CASE UNCHANGED <<subscriptions, tickets, votes>>
  BY <1>1 DEF OwnDoing, RowsOf, SubscribedRouteIds, IsSubscribed
<1>2. CASE Next
  <2>1. PICK s \in Sessions : \/ QuietStep(s) \/ JoinStep(s) \/ FleetStep(s)
                             \/ \E req \in Requests : RiderStep(s, req)
    BY <1>2, NextKinds
  <2>. QED
    BY <1>1, <2>1, FleetIsOwnDoing, RiderIsOwnDoing DEF QuietStep, JoinStep, AddUser, store
<1>. QED
  BY <1>1, <1>2 DEF logicVars, store

(* Riders act only for themselves.                                         *)
THEOREM RidersIsolated == Spec => Isolation
BY Invariance, StepIsOwnDoing, PTL DEF Spec, Isolation
----------------------------------------------------------------------------
(* The server implements the ledger *)

(* An empty store is an empty ledger with the first routes opened.         *)
LEMMA InitLedger == Init => Ledger!Init
<1>. SUFFICES ASSUME Init PROVE Ledger!Init
  OBVIOUS
<1>. USE DEF Init, StoreInit
<1>1. IdsOf(users) = {1} /\ 1 \in UserIds
  BY DataStoreAssumption DEF IdsOf, UserIds
<1>2. RoutesOpened \subseteq RouteIds /\ RoutesOpened = DOMAIN SeedRoutes
  BY DataStoreAssumption DEF RoutesOpened, RouteIds
<1>. DEFINE row(i) == NewRoute(i, SeedRoutes[i], EmptyText)
<1>3. routes = {row(i) : i \in DOMAIN SeedRoutes} /\ \A i \in DOMAIN SeedRoutes : row(i).id = i
  BY DEF NewRoute
<1>4. IdsOf(routes) = RoutesOpened
  <2>. HIDE DEF row, Init, StoreInit
  <2>. QED
    BY <1>2, <1>3 DEF IdsOf
<1>5. ActiveSubscriptions = {}
  BY DEF ActiveSubscriptions
<1>6. Receipts = {}
  BY DEF Receipts
<1>. QED
  BY <1>1, <1>2, <1>4, <1>5, <1>6 DEF Ledger!Init

(* What is not the answer to a ride acknowledges none.                     *)
LEMMA NoReceipt ==
  ASSUME sent' = <<>> \/ \E s \in Sessions : \E msg : Send(s, msg)
  PROVE  Receipts' = {}
<1>1. CASE sent' = <<>>
  BY <1>1 DEF Receipts
<1>2. CASE \E s \in Sessions : \E msg : Send(s, msg)
  <2>1. PICK s \in Sessions : \E msg : Send(s, msg)
    BY <1>2
  <2>2. PICK msg : Send(s, msg)
    BY <2>1
  <2>. DEFINE e == [to |-> s, msg |-> msg]
  <2>3. sent' = <<e>> /\ "ride" \notin DOMAIN e
    BY <2>2 DEF Send
  <2>. HIDE DEF e
  <2>. QED
    BY <2>3 DEF Receipts
<1>. QED
  BY <1>1, <1>2

(* Only handleRide answers rides; every other handler just sends.          *)
LEMMA OthersSend ==
  ASSUME NEW s \in Sessions, NEW req, HandleMessage(s, req),
         ~(Uid(s) # 0 /\ HandleRide(s, req))
  PROVE  /\ \E msg : Send(s, msg)
         /\ Uid(s) # 0 => req.type # "RIDE"
<1>1. HandlePublic(s, req) => \E msg : Send(s, msg)
  BY Zenon DEF HandlePublic, HandleRegister, HandleLogin, HandleGetRoutes, Authenticate,
    Refuse, Answer
<1>2. (\E text : Refuse(s, text)) => \E msg : Send(s, msg)
  BY DEF Refuse, Answer
<1>3. \/ HandleAddRoute(s, req) \/ HandleDelRoute(s, req)
      \/ HandleUpdateSchedule(s, req) \/ HandleGetUsers(s, req)
      \/ HandleGetUserDetail(s, req) \/ HandleGetDemand(s, req)
      => \E msg : Send(s, msg)
  BY Zenon DEF HandleAddRoute, HandleDelRoute, HandleUpdateSchedule, HandleGetUsers,
    HandleGetUserDetail, HandleGetDemand, Refuse, Answer
<1>4. \/ HandleSubscribe(s, req) \/ HandleUnsubscribe(s, req) \/ HandleGetSubs(s, req)
      \/ HandleGetTickets(s, req) \/ HandleSetVotes(s, req) \/ HandleGetVotes(s, req)
      => \E msg : Send(s, msg)
  BY Zenon DEF HandleSubscribe, HandleUnsubscribe, HandleGetSubs, HandleGetTickets,
    HandleSetVotes, HandleGetVotes, Refuse, Answer
<1>5. \/ HandlePublic(s, req)
      \/ req.type \notin Public /\ Uid(s) = 0 /\ Refuse(s, "Unauthorized")
      \/ Uid(s) # 0 /\ HandleAuthenticated(s, req)
  BY DEF HandleMessage, Uid
<1>. QED
  <2>1. \E msg : Send(s, msg)
    BY <1>1, <1>2, <1>3, <1>4, <1>5, Zenon DEF HandleAuthenticated
  <2>2. ASSUME Uid(s) # 0 PROVE req.type # "RIDE"
    <3>1. CASE HandlePublic(s, req)
      BY <3>1 DEF HandlePublic, HandleRegister, HandleLogin, HandleGetRoutes
    <3>2. CASE HandleAuthenticated(s, req)
      BY <2>2, <3>2 DEF HandleAuthenticated, HandleAddRoute, HandleDelRoute,
        HandleUpdateSchedule, HandleGetUsers, HandleGetUserDetail, HandleGetDemand,
        HandleSubscribe, HandleUnsubscribe, HandleGetSubs, HandleGetTickets, HandleSetVotes,
        HandleGetVotes, Known
    <3>. QED
      BY <1>5, <2>2, <3>1, <3>2
  <2>. QED
    BY <2>1, <2>2

(* A new account joins.                                                    *)
LEMMA JoinImplements ==
  ASSUME IInv, NEW s \in Sessions, JoinStep(s), Receipts' = {}
  PROVE  Ledger!Next
<1>. USE DEF IInv
<1>1. PICK name \in UserNames, pw \in Passwords : AddUser(name, HashPassword(pw), "user")
  BY DEF JoinStep
<1>. DEFINE new == [id |-> nextUserId, username |-> name,
                    passwordHash |-> HashPassword(pw), role |-> "user"]
<1>2. /\ users' = users \cup {new} /\ new.id = nextUserId /\ nextUserId \in UserIds
      /\ UNCHANGED <<routes, subscriptions, tickets, nextRouteId>>
  BY <1>1 DEF AddUser, IdsFresh, TypeOK, StoreTypeOK, UserIds
<1>. HIDE DEF new
<1>3. IdsOf(users') = IdsOf(users) \cup {nextUserId} /\ nextUserId \notin IdsOf(users)
  BY <1>2 DEF IdsOf, IdsFresh, TypeOK, StoreTypeOK, User, UserIds
<1>4. Ledger!Join(nextUserId)
  BY <1>2, <1>3 DEF Ledger!Join, RoutesOpened, ActiveSubscriptions, IdsOf
<1>. QED
  BY <1>2, <1>4 DEF Ledger!Next

(* A new route opens, a deleted one closes with its subscriptions, and an  *)
(* edited schedule is none of the ledger's business.                       *)
LEMMA FleetImplements ==
  ASSUME IInv, NEW s \in Sessions, FleetStep(s), Receipts' = {}
  PROVE  Ledger!Next
<1>. USE DEF IInv
<1>1. CASE \E name \in RouteNames, schedule \in Schedule : AddRoute(name, schedule)
  <2>1. PICK name \in RouteNames, schedule \in Schedule : AddRoute(name, schedule)
    BY <1>1
  <2>. DEFINE new == NewRoute(nextRouteId, name, schedule)
  <2>2. /\ routes' = routes \cup {new} /\ nextRouteId \in RouteIds
        /\ nextRouteId' = nextRouteId + 1
        /\ UNCHANGED <<users, subscriptions, tickets>>
    BY <2>1 DEF AddRoute, IdsFresh, TypeOK, StoreTypeOK, RouteIds
  <2>3. new.id = nextRouteId
    BY <2>2, NewRouteType
  <2>. HIDE DEF new
  <2>4. IdsOf(routes') = IdsOf(routes) \cup {nextRouteId}
    BY <2>2, <2>3 DEF IdsOf
  <2>5. /\ RoutesOpened' = RoutesOpened \cup {nextRouteId}
        /\ nextRouteId \notin RoutesOpened
    BY <2>2 DEF RoutesOpened, RouteIds
  <2>6. Ledger!Open(nextRouteId)
    BY <2>2, <2>4, <2>5 DEF Ledger!Open, ActiveSubscriptions, IdsOf
  <2>. QED
    BY <2>2, <2>6 DEF Ledger!Next
<1>2. CASE \E rid \in RouteIds : rid \in IdsOf(routes) /\ DeleteRoute(rid)
  <2>1. PICK rid \in RouteIds : rid \in IdsOf(routes) /\ DeleteRoute(rid)
    BY <1>2
  <2>2. /\ routes' = {r \in routes : r.id # rid}
        /\ subscriptions' = [p \in UserIds \X RouteIds |->
                               IF p[2] = rid THEN 0 ELSE subscriptions[p]]
        /\ UNCHANGED <<users, tickets, nextRouteId>>
    BY <2>1 DEF DeleteRoute, FindRouteById, TypeOK, StoreTypeOK
  <2>3. IdsOf(routes') = IdsOf(routes) \ {rid}
    BY <2>2 DEF IdsOf
  <2>4. ActiveSubscriptions' = {p \in ActiveSubscriptions : p[2] # rid}
    BY <2>2 DEF ActiveSubscriptions
  <2>5. Ledger!Close(rid)
    BY <2>1, <2>2, <2>3, <2>4 DEF Ledger!Close, RoutesOpened, IdsOf
  <2>. QED
    BY <2>5 DEF Ledger!Next
<1>3. CASE \E rid \in Nat, schedule \in Schedule : UpdateRouteSchedule(rid, schedule)
  <2>1. PICK rid \in Nat, schedule \in Schedule : UpdateRouteSchedule(rid, schedule)
    BY <1>3
  <2>. DEFINE edited(r) == IF r.id = rid THEN [r EXCEPT !.schedule = schedule] ELSE r
  <2>2. /\ routes' = {edited(r) : r \in routes}
        /\ UNCHANGED <<users, subscriptions, tickets, nextRouteId>>
    BY <2>1 DEF UpdateRouteSchedule
  <2>3. \A r \in routes : edited(r).id = r.id
    BY DEF Route, TypeOK, StoreTypeOK
  <2>. HIDE DEF edited
  <2>4. IdsOf(routes') = IdsOf(routes)
    BY <2>2, <2>3 DEF IdsOf
  <2>5. Ledger!Inform
    BY <2>2, <2>4 DEF Ledger!Inform, RoutesOpened, ActiveSubscriptions, IdsOf
  <2>. QED
    BY <2>5 DEF Ledger!Next
<1>. QED
  BY <1>1, <1>2, <1>3 DEF FleetStep

(* Subscribing enrols, unsubscribing cancels, and votes are none of the    *)
(* ledger's business.                                                      *)
LEMMA RiderImplements ==
  ASSUME IInv, NEW s \in Sessions, NEW req \in Requests, RiderStep(s, req),
         req.type # "RIDE", Receipts' = {}
  PROVE  Ledger!Next
<1>. USE DEF IInv
<1>0. Uid(s) \in UserIds /\ Uid(s) \in IdsOf(users)
  BY DEF RiderStep, Uid, AccountsUnambiguous, TypeOK, UserIds
<1>1. CASE \E rid \in IdsOf(routes) : ~IsSubscribed(Uid(s), rid) /\ Subscribe(Uid(s), rid)
  <2>1. PICK rid \in IdsOf(routes) : ~IsSubscribed(Uid(s), rid) /\ Subscribe(Uid(s), rid)
    BY <1>1
  <2>2. rid \in RouteIds /\ <<Uid(s), rid>> \in UserIds \X RouteIds
    BY <1>0 DEF IdsOf, TypeOK, StoreTypeOK, Route
  <2>3. /\ subscriptions' = [subscriptions EXCEPT ![<<Uid(s), rid>>] = @ + 1]
        /\ UNCHANGED <<users, routes, tickets, nextRouteId>>
    BY <2>1 DEF Subscribe
  <2>4. ActiveSubscriptions' = ActiveSubscriptions \cup {<<Uid(s), rid>>}
    BY <2>2, <2>3 DEF ActiveSubscriptions, TypeOK, StoreTypeOK
  <2>5. <<Uid(s), rid>> \notin ActiveSubscriptions
    BY <2>1 DEF ActiveSubscriptions, IsSubscribed, TypeOK, StoreTypeOK
  <2>6. Ledger!Enrol(Uid(s), rid)
    BY <1>0, <2>3, <2>4, <2>5 DEF Ledger!Enrol, RoutesOpened, IdsOf
  <2>. QED
    BY <1>0, <2>2, <2>6 DEF Ledger!Next
<1>2. CASE \E rid \in RouteIds : IsSubscribed(Uid(s), rid) /\ Unsubscribe(Uid(s), rid)
  <2>1. PICK rid \in RouteIds : IsSubscribed(Uid(s), rid) /\ Unsubscribe(Uid(s), rid)
    BY <1>2
  <2>2. /\ subscriptions' = [subscriptions EXCEPT ![<<Uid(s), rid>>] = 0]
        /\ UNCHANGED <<users, routes, tickets, nextRouteId>>
    BY <2>1 DEF Unsubscribe
  <2>3. ActiveSubscriptions' = ActiveSubscriptions \ {<<Uid(s), rid>>}
    BY <1>0, <2>2 DEF ActiveSubscriptions, TypeOK, StoreTypeOK
  <2>4. <<Uid(s), rid>> \in ActiveSubscriptions
    BY <1>0, <2>1 DEF ActiveSubscriptions, IsSubscribed
  <2>5. Ledger!Cancel(Uid(s), rid)
    BY <2>2, <2>3, <2>4 DEF Ledger!Cancel, RoutesOpened, IdsOf
  <2>. QED
    BY <1>0, <2>5 DEF Ledger!Next
<1>3. CASE \E vs \in Seq(RouteVote) : SetVotes(Uid(s), vs)
  <2>1. Ledger!Inform
    BY <1>3 DEF SetVotes, Ledger!Inform, RoutesOpened, ActiveSubscriptions, IdsOf
  <2>. QED
    BY <2>1 DEF Ledger!Next
<1>. QED
  BY <1>1, <1>2, <1>3 DEF RiderStep

(* A ride is acknowledged on a subscription or for one fare.               *)
LEMMA RideImplements ==
  ASSUME IInv, NEW s \in Sessions, NEW req \in Requests, Uid(s) # 0, HandleRide(s, req)
  PROVE  Ledger!Next
<1>. USE DEF IInv
<1>. DEFINE rid == Value(req, "routeId", 0)
<1>0. Uid(s) \in UserIds /\ Uid(s) \in IdsOf(users) /\ UNCHANGED sessionUserId
  BY DEF HandleRide, Uid, AccountsUnambiguous, TypeOK, UserIds
<1>1. ASSUME NEW msg, Acknowledge(s, rid, msg)
      PROVE  Receipts' = {[member |-> Uid(s), route |-> rid,
                           fare |-> IF msg.ticketIssued THEN msg.ticketId ELSE 0]}
  <2>. DEFINE e == [to |-> s, ride |-> rid, msg |-> msg]
  <2>1. /\ sent' = <<e>> /\ "ride" \in DOMAIN e
        /\ e.to = s /\ e.ride = rid /\ e.msg = msg
    BY <1>1 DEF Acknowledge
  <2>2. ReceiptOf(e)' = [member |-> Uid(s), route |-> rid,
                         fare |-> IF msg.ticketIssued THEN msg.ticketId ELSE 0]
    <3>1. sessionUserId'[s] = Uid(s)
      BY <1>0 DEF Uid
    <3>. QED
      BY <2>1, <3>1, Zenon DEF ReceiptOf
  <2>3. Receipts' = {ReceiptOf(e)'}
    <3>. HIDE DEF e
    <3>1. DOMAIN sent' = {1} /\ sent'[1] = e
      BY <2>1
    <3>. QED
      BY <2>1, <3>1 DEF Receipts
  <2>. QED
    BY <2>2, <2>3
<1>2. <<Uid(s), rid>> \in ActiveSubscriptions <=> IsSubscribed(Uid(s), rid)
  BY DEF ActiveSubscriptions, IsSubscribed, TypeOK, StoreTypeOK
<1>3. rid \in {Value(r, "routeId", 0) : r \in Requests}
  OBVIOUS
<1>4. CASE IsSubscribed(Uid(s), rid) /\ RideRecorded(s, rid)
  <2>. DEFINE msg == [type |-> "OK", message |-> "Ride recorded", ticketIssued |-> FALSE]
  <2>0. Acknowledge(s, rid, msg) /\ ~msg.ticketIssued
    BY <1>4 DEF RideRecorded
  <2>1. Receipts' = {[member |-> Uid(s), route |-> rid, fare |-> 0]}
    <3>. HIDE DEF msg
    <3>. QED
      BY <1>1, <2>0
  <2>2. Ledger!Ride(Uid(s), rid)
    BY <1>0, <1>2, <1>4, <2>1
    DEF RideRecorded, store, Ledger!Ride, RoutesOpened, ActiveSubscriptions, IdsOf
  <2>. QED
    BY <1>0, <1>3, <2>2 DEF Ledger!Next
<1>5. CASE ~IsSubscribed(Uid(s), rid) /\ RideCharged(s, rid)
  <2>. DEFINE new == [id |-> nextTicketId, userId |-> Uid(s), routeId |-> rid,
                      charged |-> TRUE, price |-> TicketPrice]
              fare == [no |-> nextTicketId, member |-> Uid(s), route |-> rid, price |-> 50]
              charged == {FareOf(t) : t \in tickets}
  <2>1. IssueTicket(Uid(s), rid, TRUE, TicketPrice)
    BY <1>5 DEF RideCharged, Uid
  <2>2. /\ tickets' = tickets \cup {new} /\ nextTicketId \in 1..MaxTickets
        /\ UNCHANGED <<users, routes, subscriptions, nextRouteId>>
    BY <2>1, DataStoreAssumption DEF IssueTicket, IdsFresh, TypeOK, StoreTypeOK
  <2>3. FareOf(new) = fare
    BY DEF FareOf, TicketPrice
  <2>4. \A f \in charged : f.no < nextTicketId
    BY DEF FareOf, IdsFresh
  <2>5. <<Uid(s), rid>> \notin ActiveSubscriptions
    BY <1>2, <1>5
  <2>6. {FareOf(t) : t \in tickets'} = charged \cup {fare}
    <3>. HIDE DEF new, fare
    <3>. QED
      BY <2>2, <2>3
  <2>7. Receipts' = {[member |-> Uid(s), route |-> rid, fare |-> nextTicketId]}
    <3>. DEFINE msg == [type |-> "OK", message |-> "Ticket issued", ticketIssued |-> TRUE,
                        ticketId |-> nextTicketId]
    <3>1. Acknowledge(s, rid, msg) /\ msg.ticketIssued /\ msg.ticketId = nextTicketId
      BY <1>5 DEF RideCharged
    <3>. HIDE DEF msg
    <3>. QED
      BY <1>1, <3>1
  <2>8. Ledger!Ride(Uid(s), rid)
    <3>1. \E n \in 1..MaxTickets :
            /\ \A f \in charged : f.no < n
            /\ {FareOf(t) : t \in tickets'}
                 = charged \cup {[no |-> n, member |-> Uid(s), route |-> rid, price |-> 50]}
            /\ Receipts' = {[member |-> Uid(s), route |-> rid, fare |-> n]}
      BY <2>2, <2>4, <2>6, <2>7
    <3>. QED
      BY <1>0, <2>2, <2>5, <3>1
      DEF Ledger!Ride, Ledger!Fare, RoutesOpened, ActiveSubscriptions, IdsOf
  <2>. QED
    BY <1>0, <1>3, <2>8 DEF Ledger!Next
<1>. QED
  BY <1>4, <1>5 DEF HandleRide, Uid

(* Every step of the server is a step of the ledger or none.               *)
LEMMA StepLedger == IInv /\ [Next]_logicVars => [Ledger!Next]_(Ledger!ledger)
<1>. SUFFICES ASSUME IInv, [Next]_logicVars PROVE [Ledger!Next]_(Ledger!ledger)
  OBVIOUS
<1>1. CASE UNCHANGED logicVars
  BY <1>1 DEF logicVars, store, Ledger!ledger, RoutesOpened, ActiveSubscriptions, IdsOf,
    Receipts, ReceiptOf
<1>2. ASSUME Receipts' = {}, UNCHANGED store PROVE Ledger!Next
  <2>1. Ledger!Inform
    BY <1>2 DEF store, Ledger!Inform, RoutesOpened, ActiveSubscriptions, IdsOf
  <2>. QED
    BY <2>1 DEF Ledger!Next
<1>3. ASSUME NEW s \in Sessions, Accept(s) PROVE Ledger!Next
  BY <1>2, <1>3, NoReceipt DEF Accept
<1>4. ASSUME NEW s \in Sessions, NEW req \in Requests, HandleMessage(s, req)
      PROVE  Ledger!Next
  <2>1. CASE Uid(s) # 0 /\ HandleRide(s, req)
    BY <2>1, RideImplements
  <2>2. CASE ~(Uid(s) # 0 /\ HandleRide(s, req))
    <3>1. (\E msg : Send(s, msg)) /\ (Uid(s) # 0 => req.type # "RIDE")
      BY <1>4, <2>2, OthersSend
    <3>2. Receipts' = {}
      BY <3>1, NoReceipt
    <3>3. QuietStep(s) \/ JoinStep(s) \/ FleetStep(s) \/ RiderStep(s, req)
      BY <1>4, StepKinds, RequestAssumption
    <3>4. RiderStep(s, req) => req.type # "RIDE"
      BY <3>1 DEF RiderStep
    <3>5. QuietStep(s) => UNCHANGED store
      BY DEF QuietStep
    <3>. QED
      BY <1>2, <3>2, <3>3, <3>4, <3>5, JoinImplements, FleetImplements, RiderImplements
  <2>. QED
    BY <2>1, <2>2
<1>. QED
  BY <1>1, <1>3, <1>4 DEF Next

(* The server keeps the promises of SubscriptionLedger: tables, sessions   *)
(* and counters implement members, routes, subscriptions and fares.        *)
THEOREM ServerImplementsLedger == Spec => ImplementsLedger
BY InitLedger, StepLedger, Invariance, PTL DEF Spec, ImplementsLedger, Ledger!Spec
============================================================================
