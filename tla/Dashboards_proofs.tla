------------------------- MODULE Dashboards_proofs --------------------------
(***************************************************************************)
(* Proofs about UserDashboard and AdminDashboard, for every value of their *)
(* constants: the types of what dashboards keep; whose tickets a rider's   *)
(* shows, with any number of clients, accounts and logins and users as     *)
(* impatient as they like; what each message and each click does to the    *)
(* slots asked for, the map of schedules and the trips shown.              *)
(***************************************************************************)
EXTENDS UserDashboard, AdminDashboard, Client_proofs
----------------------------------------------------------------------------
(* Riders' dashboards *)

View ==
  [userId : UserIds \cup {0}, username : UserNames \cup {EmptyText},
   routes : SUBSET RouteIds, subs : SUBSET RouteIds, tickets : SUBSET Ticket,
   requests : Seq(RouteVote), myVotes : Seq(RouteVote)]

Wanted == [votes : Seq(RouteVote), routes : SUBSET RouteIds, rides : Nat]

(* The types of the views; there is one from the first login of a rider on. *)
VInv ==
  /\ view \in [Clients -> View] /\ wanted \in [UserNames -> Wanted]
  /\ \A c \in Clients : view[c].userId = 0 <=> NoView(c)
  /\ \A c \in Clients : view[c].userId # 0 => view[c].username \in UserNames

LEMMA ViewTypesOK == VInv => ViewTypeOK
<1>. SUFFICES ASSUME VInv, NEW c \in Clients
              PROVE  /\ view[c].userId \in UserIds \cup {0}
                     /\ view[c].subs \subseteq RouteIds /\ view[c].routes \subseteq RouteIds
                     /\ view[c].tickets \subseteq Ticket
                     /\ \A i \in DOMAIN view[c].myVotes : view[c].myVotes[i] \in RouteVote
  BY DEF VInv, ViewTypeOK
<1>1. view[c] \in View
  BY DEF VInv
<1>. QED
  BY <1>1 DEF View

LEMMA InitVInv == ClientInit /\ ViewInit => VInv
<1>. SUFFICES ASSUME ClientInit, ViewInit PROVE VInv
  OBVIOUS
<1>1. EmptyView(0, EmptyText) \in View /\ EmptyView(0, EmptyText).userId = 0
  BY DEF EmptyView, View
<1>2. NothingWanted \in [UserNames -> Wanted]
  BY DEF NothingWanted, Wanted
<1>3. \A c \in Clients : NoView(c)
  BY DEF ClientInit, NoView
<1>. HIDE DEF EmptyView
<1>. QED
  BY <1>1, <1>2, <1>3 DEF ViewInit, VInv

(* Nothing of a view or a list of dashboards changes.                      *)
LEMMA ViewsKept ==
  ASSUME VInv, UNCHANGED <<dashboards, view>>, wanted' \in [UserNames -> Wanted]
  PROVE  VInv'
BY DEF VInv, NoView

(* What a view is after a message.                                         *)
LEMMA Viewing ==
  ASSUME CInv, VInv, NEW c \in Clients, OnMessageReceived(c), ViewReacts(c)
  PROVE  LET msg == Head(toClient[c]) IN
         /\ UNCHANGED wanted
         /\ \E v \in View :
              /\ view' = [view EXCEPT ![c] = v]
              /\ \/ /\ msg.type = "AUTH_OK" /\ msg.user.role # "admin"
                    /\ v.userId = msg.user.id /\ v.username = msg.user.username
                    /\ v.tickets = {}
                 \/ /\ ~(msg.type = "AUTH_OK" /\ msg.user.role # "admin")
                    /\ v.userId = view[c].userId /\ v.username = view[c].username
                    /\ \/ v.tickets = view[c].tickets
                       \/ msg.type = "TICKETS" /\ v.tickets = msg.tickets
<1>. DEFINE msg == Head(toClient[c])
<1>1. msg \in Reply
  BY Reading
<1>2. view[c] \in View /\ view = [view EXCEPT ![c] = view[c]]
  BY DEF VInv
<1>3. CASE Open(c, msg)
  <2>1. msg.user \in PublicUser
    BY <1>1, <1>3, ReplyFields DEF Open
  <2>2. EmptyView(msg.user.id, msg.user.username) \in View
    BY <2>1 DEF EmptyView, View, PublicUser
  <2>. QED
    BY <1>3, <2>2 DEF Open, Show, ViewReacts, EmptyView
<1>4. CASE OnRoutesList(c, msg)
  <2>1. IdsOf(msg.routes) \subseteq RouteIds
    BY <1>1, <1>4, ReplyFields DEF OnRoutesList, IdsOf, Route
  <2>2. [view[c] EXCEPT !.routes = IdsOf(msg.routes)] \in View
    BY <1>2, <2>1 DEF View
  <2>. QED
    BY <1>2, <1>4, <2>2 DEF OnRoutesList, Show, ViewReacts, View
<1>5. CASE OnSubsList(c, msg)
  <2>1. [view[c] EXCEPT !.subs = view[c].routes \cap msg.subs] \in View
    BY <1>2 DEF View
  <2>. QED
    BY <1>2, <1>5, <2>1 DEF OnSubsList, Show, ViewReacts, View
<1>6. CASE OnTickets(c, msg)
  <2>1. [view[c] EXCEPT !.tickets = msg.tickets] \in View
    BY <1>1, <1>2, <1>6, ReplyFields DEF OnTickets, View
  <2>. QED
    BY <1>2, <1>6, <2>1 DEF OnTickets, Show, ViewReacts, View
<1>7. CASE OnVotesList(c, msg)
  <2>1. [view[c] EXCEPT !.requests = msg.votes, !.myVotes = msg.votes] \in View
    BY <1>1, <1>2, <1>7, ReplyFields DEF OnVotesList, View
  <2>. QED
    BY <1>2, <1>7, <2>1 DEF OnVotesList, Show, ViewReacts, View
<1>8. CASE ~(msg.type = "AUTH_OK" /\ msg.user.role # "admin") /\ UNCHANGED view
  BY <1>2, <1>8 DEF ViewReacts
<1>. QED
  BY <1>3, <1>4, <1>5, <1>6, <1>7, <1>8 DEF ViewReacts

(* Each list is filled by the messages of its kind.                        *)
LEMMA Showing ==
  ASSUME CInv, VInv, NEW c \in Clients, OnMessageReceived(c), ViewReacts(c), ~NoView(c),
         Head(toClient[c]).type # "AUTH_OK"
  PROVE  LET msg == Head(toClient[c]) IN
         \E v \in View :
           /\ view' = [view EXCEPT ![c] = v]
           /\ v.routes = IF msg.type = "ROUTES_LIST" THEN IdsOf(msg.routes) ELSE view[c].routes
           /\ v.subs = IF msg.type = "SUBS_LIST" THEN view[c].routes \cap msg.subs
                                                ELSE view[c].subs
           /\ v.tickets = IF msg.type = "TICKETS" THEN msg.tickets ELSE view[c].tickets
           /\ v.requests = IF msg.type = "VOTES_LIST" THEN msg.votes ELSE view[c].requests
           /\ v.myVotes = IF msg.type = "VOTES_LIST" THEN msg.votes ELSE view[c].myVotes
<1>. DEFINE msg == Head(toClient[c])
<1>1. PICK v \in View : view' = [view EXCEPT ![c] = v]
  BY Viewing
<1>2. view[c] \in View /\ view'[c] = v
  BY <1>1 DEF VInv
<1>3. CASE OnRoutesList(c, msg)
  <2>1. msg.type = "ROUTES_LIST" /\ v = [view[c] EXCEPT !.routes = IdsOf(msg.routes)]
    BY <1>2, <1>3 DEF OnRoutesList, Show, VInv
  <2>. QED
    BY <1>1, <1>2, <2>1 DEF View
<1>4. CASE OnSubsList(c, msg)
  <2>1. msg.type = "SUBS_LIST" /\ v = [view[c] EXCEPT !.subs = view[c].routes \cap msg.subs]
    BY <1>2, <1>4 DEF OnSubsList, Show, VInv
  <2>. QED
    BY <1>1, <1>2, <2>1 DEF View
<1>5. CASE OnTickets(c, msg)
  <2>1. msg.type = "TICKETS" /\ v = [view[c] EXCEPT !.tickets = msg.tickets]
    BY <1>2, <1>5 DEF OnTickets, Show, VInv
  <2>. QED
    BY <1>1, <1>2, <2>1 DEF View
<1>6. CASE OnVotesList(c, msg)
  <2>1. msg.type = "VOTES_LIST" /\ v = [view[c] EXCEPT !.requests = msg.votes, !.myVotes = msg.votes]
    BY <1>2, <1>6 DEF OnVotesList, Show, VInv
  <2>. QED
    BY <1>1, <1>2, <2>1 DEF View
<1>7. CASE msg.type \notin ShownInView /\ UNCHANGED view
  BY <1>1, <1>2, <1>7 DEF ShownInView
<1>. QED
  BY <1>3, <1>4, <1>5, <1>6, <1>7 DEF ViewReacts, Open

LEMMA ReceiveKeepsViews ==
  ASSUME CInv, VInv, NEW c \in Clients, OnMessageReceived(c), ViewReacts(c)
  PROVE  VInv'
<1>. DEFINE msg == Head(toClient[c])
<1>1. PICK v \in View :
        /\ view' = [view EXCEPT ![c] = v]
        /\ \/ /\ msg.type = "AUTH_OK" /\ msg.user.role # "admin"
              /\ v.userId = msg.user.id /\ v.username = msg.user.username
           \/ /\ ~(msg.type = "AUTH_OK" /\ msg.user.role # "admin")
              /\ v.userId = view[c].userId /\ v.username = view[c].username
  BY Viewing
<1>2. /\ msg \in Reply
      /\ \/ /\ msg.type = "AUTH_OK" /\ msg.user \in PublicUser
            /\ dashboards' = [dashboards EXCEPT ![c] = Append(@, msg.user.role)]
         \/ msg.type # "AUTH_OK" /\ UNCHANGED dashboards
  BY Reading
<1>3. view' \in [Clients -> View] /\ wanted' \in [UserNames -> Wanted]
  BY <1>1 DEF VInv, ViewReacts
<1>4. \A d \in Clients : d # c => view'[d] = view[d] /\ dashboards'[d] = dashboards[d]
  BY <1>1, <1>2 DEF VInv, CInv, ClientTypes
<1>5. view'[c] = v
  BY <1>1 DEF VInv
<1>6. view'[c].userId = 0 <=> NoView(c)'
  <2>1. CASE msg.type # "AUTH_OK" /\ UNCHANGED dashboards
    BY <1>1, <1>2, <1>5, <2>1 DEF VInv, NoView
  <2>2. CASE /\ msg.type = "AUTH_OK" /\ msg.user \in PublicUser
             /\ dashboards' = [dashboards EXCEPT ![c] = Append(@, msg.user.role)]
    <3>1. PICK role \in {"user", "admin"} : msg.user.role = role /\ msg.user.id \in UserIds
      BY <2>2 DEF PublicUser
    <3>2. dashboards'[c] = Append(dashboards[c], role) /\ dashboards[c] \in Seq({"user", "admin"})
      BY <2>2, <3>1 DEF CInv, ClientTypes
    <3>. DEFINE n == Len(dashboards[c])
    <3>3. /\ DOMAIN dashboards'[c] = 1..(n + 1) /\ DOMAIN dashboards[c] = 1..n /\ n \in Nat
          /\ dashboards'[c][n + 1] = role
          /\ \A d \in 1..n : dashboards'[c][d] = dashboards[c][d]
      BY <3>2
    <3>4. NoView(c)' <=> NoView(c) /\ role # "user"
      <4>. HIDE DEF n
      <4>1. \A d \in 1..(n + 1) : d = n + 1 \/ d \in 1..n
        BY <3>3
      <4>2. n + 1 \in 1..(n + 1) /\ 1..n \subseteq 1..(n + 1)
        BY <3>3
      <4>. QED
        BY <3>3, <4>1, <4>2 DEF NoView
    <3>5. msg.user.id # 0
      BY <3>1 DEF UserIds
    <3>6. CASE role = "user"
      BY <1>1, <1>5, <2>2, <3>1, <3>4, <3>5, <3>6
    <3>7. CASE role # "user"
      BY <1>1, <1>5, <2>2, <3>1, <3>4, <3>7 DEF VInv
    <3>. QED
      BY <3>6, <3>7
  <2>. QED
    BY <1>2, <2>1, <2>2
<1>7. view'[c].userId # 0 => view'[c].username \in UserNames
  <2>1. CASE msg.type = "AUTH_OK" /\ msg.user \in PublicUser /\ v.username = msg.user.username
    BY <1>5, <2>1 DEF PublicUser
  <2>2. CASE v.userId = view[c].userId /\ v.username = view[c].username
    BY <1>5, <2>2 DEF VInv
  <2>. QED
    BY <1>1, <1>2, <2>1, <2>2
<1>. QED
  BY <1>3, <1>4, <1>6, <1>7 DEF VInv, NoView

(* The requests that act on an account.                                    *)
Acts == {"SUBSCRIBE", "UNSUBSCRIBE", "RIDE", "SET_VOTES"}

(* A rider's click sends one request and counts it as wanted of the name   *)
(* the view bears.  The list of requests that it sends differs from the    *)
(* cache, and is the one wanted, in another order perhaps, if the cache    *)
(* was and the rows shown are those of the cache.                          *)
LEMMA RiderWishing ==
  ASSUME CInv, VInv, NEW c \in Clients, RiderClicks(c)
  PROVE  LET v == view[c] IN
         /\ RiderClick(c) /\ v.userId \in UserIds /\ v.username \in UserNames
         /\ \E req \in ClientRequest, w \in Wanted :
              /\ req.type \in Acts /\ SendRequests(c, <<req>>)
              /\ wanted' = [wanted EXCEPT ![v.username] = w]
              /\ w.rides = wanted[v.username].rides + (IF req.type = "RIDE" THEN 1 ELSE 0)
              /\ \/ req.type # "SET_VOTES" /\ UNCHANGED view /\ w.votes = wanted[v.username].votes
                 \/ /\ req.type = "SET_VOTES"
                    /\ view' = [view EXCEPT ![c] = [v EXCEPT !.myVotes = req.votes]]
                    /\ req.votes # v.myVotes
                    /\ v.requests = v.myVotes /\ Alike(v.myVotes, wanted[v.username].votes, RouteVote)
                       => Alike(req.votes, w.votes, RouteVote)
<1>. DEFINE v == view[c]
            name == v.username
            old == wanted[name]
            Kept(vs, all) ==
              /\ vs # v.myVotes
              /\ v.requests = v.myVotes /\ Alike(v.myVotes, old.votes, RouteVote)
                 => Alike(vs, all, RouteVote)
            Asked(req, w) ==
              /\ req.type \in Acts /\ SendRequests(c, <<req>>)
              /\ wanted' = [wanted EXCEPT ![name] = w]
              /\ w.rides = old.rides + (IF req.type = "RIDE" THEN 1 ELSE 0)
              /\ \/ req.type # "SET_VOTES" /\ UNCHANGED view /\ w.votes = old.votes
                 \/ /\ req.type = "SET_VOTES"
                    /\ view' = [view EXCEPT ![c] = [v EXCEPT !.myVotes = req.votes]]
                    /\ Kept(req.votes, w.votes)
<1>1. RiderClick(c)
  BY DEF RiderClicks, OnSubscribeClicked, OnUnsubscribeClicked, OnBookRideClicked,
    OnAddRequestClicked, OnDeleteRequestClicked
<1>2. v \in View /\ v.userId \in UserIds /\ name \in UserNames /\ old \in Wanted
  <2>1. dashboards[c] \in Seq({"user", "admin"}) /\ dashboards[c] # <<>>
    BY <1>1 DEF RiderClick, Shows, CInv, ClientTypes
  <2>2. Len(dashboards[c]) \in DOMAIN dashboards[c]
    BY <2>1
  <2>3. ~NoView(c)
    BY <1>1, <2>2 DEF RiderClick, Shows, Last, NoView
  <2>. QED
    BY <2>3 DEF VInv, View
<1>3. ASSUME NEW rid \in RouteIds, OnSubscribeClicked(c, rid)
      PROVE  \E req \in ClientRequest, w \in Wanted : Asked(req, w)
  <2>. DEFINE req == [type |-> "SUBSCRIBE", routeId |-> rid]
              w == [old EXCEPT !["routes"] = old.routes \cup {rid}]
  <2>1. req \in ClientRequest /\ req.type = "SUBSCRIBE"
    BY DEF ClientRequest, RouteIds
  <2>2. w \in Wanted /\ w.rides = old.rides + 0 /\ w.votes = old.votes
    BY <1>2 DEF Wanted
  <2>3. SendRequests(c, <<req>>) /\ wanted' = [wanted EXCEPT ![name] = w] /\ UNCHANGED view
    BY <1>2, <1>3 DEF OnSubscribeClicked, Wants, VInv
  <2>. HIDE DEF req, w
  <2>. QED
    BY <2>1, <2>2, <2>3 DEF Acts
<1>4. ASSUME NEW rid \in RouteIds, OnUnsubscribeClicked(c, rid)
      PROVE  \E req \in ClientRequest, w \in Wanted : Asked(req, w)
  <2>. DEFINE req == [type |-> "UNSUBSCRIBE", routeId |-> 0]
              w == [old EXCEPT !["routes"] = old.routes \ {rid}]
  <2>1. req \in ClientRequest /\ req.type = "UNSUBSCRIBE"
    BY DEF ClientRequest, RouteIds
  <2>2. w \in Wanted /\ w.rides = old.rides + 0 /\ w.votes = old.votes
    BY <1>2 DEF Wanted
  <2>3. SendRequests(c, <<req>>) /\ wanted' = [wanted EXCEPT ![name] = w] /\ UNCHANGED view
    BY <1>2, <1>4 DEF OnUnsubscribeClicked, Wants, VInv
  <2>. HIDE DEF req, w
  <2>. QED
    BY <2>1, <2>2, <2>3 DEF Acts
<1>5. ASSUME NEW rid \in RouteIds, OnBookRideClicked(c, rid)
      PROVE  \E req \in ClientRequest, w \in Wanted : Asked(req, w)
  <2>. DEFINE req == [type |-> "RIDE", routeId |-> rid]
              w == [old EXCEPT !["rides"] = old.rides + 1]
  <2>1. req \in ClientRequest /\ req.type = "RIDE"
    BY DEF ClientRequest, RouteIds
  <2>2. w \in Wanted /\ w.rides = old.rides + 1 /\ w.votes = old.votes
    BY <1>2 DEF Wanted
  <2>3. SendRequests(c, <<req>>) /\ wanted' = [wanted EXCEPT ![name] = w] /\ UNCHANGED view
    BY <1>2, <1>5 DEF OnBookRideClicked, Wants, VInv
  <2>. HIDE DEF req, w
  <2>. QED
    BY <2>1, <2>2, <2>3 DEF Acts
<1>6. ASSUME NEW vs \in Seq(RouteVote), NEW all \in Seq(RouteVote),
             SendVotes(c, vs), Wants(c, "votes", all), Kept(vs, all)
      PROVE  \E req \in ClientRequest, w \in Wanted : Asked(req, w)
  <2>. DEFINE req == [type |-> "SET_VOTES", votes |-> vs]
              w == [old EXCEPT !["votes"] = all]
  <2>1. req \in ClientRequest /\ req.type = "SET_VOTES" /\ req.votes = vs
    BY DEF ClientRequest
  <2>2. w \in Wanted /\ w.rides = old.rides + 0 /\ w.votes = all
    BY <1>2, SMTT(30) DEF Wanted
  <2>3. /\ SendRequests(c, <<req>>) /\ wanted' = [wanted EXCEPT ![name] = w]
        /\ view' = [view EXCEPT ![c] = [v EXCEPT !.myVotes = vs]]
    BY <1>2, <1>6 DEF SendVotes, Show, Wants, VInv
  <2>. HIDE DEF req, w, Kept
  <2>. QED
    BY <1>6, <2>1, <2>2, <2>3 DEF Acts
<1>7. v.myVotes \in Seq(RouteVote) /\ v.requests \in Seq(RouteVote) /\ old.votes \in Seq(RouteVote)
  BY <1>2 DEF View, Wanted
<1>8. ASSUME NEW rid \in RouteIds, NEW slot \in Slots,
             OnAddRequestClicked(c, [routeId |-> rid, slot |-> slot])
      PROVE  \E vs \in Seq(RouteVote), all \in Seq(RouteVote) :
               SendVotes(c, vs) /\ Wants(c, "votes", all) /\ Kept(vs, all)
  <2>. DEFINE vote == [routeId |-> rid, slot |-> slot]
  <2>1. vote \in RouteVote
    BY DEF RouteVote, RouteIds
  <2>2. Append(v.myVotes, vote) \in Seq(RouteVote) /\ Append(old.votes, vote) \in Seq(RouteVote)
    <3>. HIDE DEF vote, v, old
    <3>. QED
      BY <1>7, <2>1
  <2>3. Kept(Append(v.myVotes, vote), Append(old.votes, vote))
    <3>. HIDE DEF vote, v, old
    <3>1. Append(v.myVotes, vote) # v.myVotes
      <4>1. Len(Append(v.myVotes, vote)) = Len(v.myVotes) + 1 /\ Len(v.myVotes) \in Nat
        BY <1>7, <2>1
      <4>. QED
        BY <4>1
    <3>. QED
      BY <1>7, <2>1, <3>1, AlikeAppend
  <2>. QED
    BY <1>8, <2>2, <2>3 DEF OnAddRequestClicked
<1>9. ASSUME NEW row \in 1..MaxClicks, OnDeleteRequestClicked(c, row)
      PROVE  \E vs \in Seq(RouteVote), all \in Seq(RouteVote) :
               SendVotes(c, vs) /\ Wants(c, "votes", all) /\ Kept(vs, all)
  <2>1. row \in DOMAIN v.myVotes
    BY <1>7, <1>9 DEF OnDeleteRequestClicked
  <2>2. RemoveAt(v.myVotes, row) \in Seq(RouteVote)
    <3>. HIDE DEF v
    <3>. QED
      BY <1>7, <2>1, RemoveAtType
  <2>3. RemoveFirst(old.votes, v.requests[row]) \in Seq(RouteVote)
    <3>. HIDE DEF old
    <3>. QED
      BY <1>7, RemoveFirstType
  <2>4. Kept(RemoveAt(v.myVotes, row), RemoveFirst(old.votes, v.requests[row]))
    <3>. HIDE DEF v, old
    <3>1. RemoveAt(v.myVotes, row) # v.myVotes
      <4>1. /\ RemoveAt(v.myVotes, row) \in Seq(RouteVote)
            /\ Len(RemoveAt(v.myVotes, row)) = Len(v.myVotes) - 1
        BY <1>7, <2>1, RemoveAtType
      <4>2. Len(v.myVotes) \in Nat
        BY <1>7
      <4>. QED
        BY <4>1, <4>2
    <3>. QED
      BY <1>7, <2>1, <3>1, AlikeRemove
  <2>. QED
    BY <1>9, <2>2, <2>3, <2>4 DEF OnDeleteRequestClicked
<1>10. \E req \in ClientRequest, w \in Wanted : Asked(req, w)
  <2>. HIDE DEF Kept, Asked
  <2>. QED
    BY <1>3, <1>4, <1>5, <1>6, <1>8, <1>9 DEF RiderClicks
<1>. QED
  BY <1>1, <1>2, <1>10

(* It touches nothing of the view but its cache.                           *)
LEMMA RiderClicking ==
  ASSUME CInv, VInv, NEW c \in Clients, RiderClicks(c)
  PROVE  /\ Shows(c, "user") /\ Click(c) /\ UNCHANGED screen
         /\ view[c].userId \in UserIds /\ view[c].username \in UserNames
         /\ \E req \in ClientRequest, w \in Wanted :
              /\ req.type \in Acts /\ SendRequests(c, <<req>>)
              /\ req.type = "SET_VOTES" \/ UNCHANGED view
              /\ wanted' = [wanted EXCEPT ![view[c].username] = w]
              /\ w.rides = wanted[view[c].username].rides + (IF req.type = "RIDE" THEN 1 ELSE 0)
         /\ \E vs \in Seq(RouteVote) :
              view' = [view EXCEPT ![c] = [view[c] EXCEPT !.myVotes = vs]]
<1>1. PICK req \in ClientRequest, w \in Wanted :
        /\ req.type \in Acts /\ SendRequests(c, <<req>>)
        /\ wanted' = [wanted EXCEPT ![view[c].username] = w]
        /\ w.rides = wanted[view[c].username].rides + (IF req.type = "RIDE" THEN 1 ELSE 0)
        /\ \/ req.type # "SET_VOTES" /\ UNCHANGED view
           \/ /\ req.type = "SET_VOTES"
              /\ view' = [view EXCEPT ![c] = [view[c] EXCEPT !.myVotes = req.votes]]
  BY RiderWishing, ZenonT(60)
<1>2. \E vs \in Seq(RouteVote) : view' = [view EXCEPT ![c] = [view[c] EXCEPT !.myVotes = vs]]
  <2>1. CASE UNCHANGED view
    <3>1. view[c] = [view[c] EXCEPT !.myVotes = view[c].myVotes] /\ view[c].myVotes \in Seq(RouteVote)
      BY DEF VInv, View
    <3>2. view = [view EXCEPT ![c] = view[c]]
      BY DEF VInv
    <3>. QED
      BY <2>1, <3>1, <3>2
  <2>2. CASE req.type = "SET_VOTES" /\ view' = [view EXCEPT ![c] = [view[c] EXCEPT !.myVotes = req.votes]]
    BY <2>2, RequestFields DEF WellFormed
  <2>. QED
    BY <1>1, <2>1, <2>2
<1>. QED
  BY <1>1, <1>2, RiderWishing DEF RiderClick

LEMMA RiderClicksKeep ==
  ASSUME CInv, VInv, NEW c \in Clients, RiderClicks(c)
  PROVE  CInv' /\ VInv'
<1>1. CInv'
  <2>1. \E reqs \in Seq(ClientRequest) : SendRequests(c, reqs)
    <3>1. PICK req \in ClientRequest : SendRequests(c, <<req>>)
      BY RiderClicking
    <3>2. <<req>> \in Seq(ClientRequest)
      OBVIOUS
    <3>. QED
      BY <3>1, <3>2
  <2>2. Click(c) /\ screen' = [screen EXCEPT ![c] = "dashboard"] /\ screen[c] = "dashboard"
    BY RiderClicking DEF Shows, CInv, ClientTypes
  <2>. QED
    BY <2>1, <2>2, ClickKeeps
<1>2. VInv'
  <2>1. PICK vs \in Seq(RouteVote) : view' = [view EXCEPT ![c] = [view[c] EXCEPT !.myVotes = vs]]
    BY RiderClicking
  <2>2. [view[c] EXCEPT !.myVotes = vs] \in View
    BY DEF VInv, View
  <2>3. view' \in [Clients -> View] /\ \A d \in Clients : /\ view'[d].userId = view[d].userId
                                                              /\ view'[d].username = view[d].username
    BY <2>1, <2>2 DEF VInv, View
  <2>4. UNCHANGED dashboards
    BY RiderClicking DEF Click
  <2>5. wanted' \in [UserNames -> Wanted]
    BY RiderClicking DEF VInv
  <2>. QED
    BY <2>3, <2>4, <2>5 DEF VInv, NoView
<1>. QED
  BY <1>1, <1>2
----------------------------------------------------------------------------
(* Whose tickets are shown *)

(* The session is u's once the first n of the messages under way have been *)
(* read: the last login among them is u's, or there is none and the        *)
(* dashboard shown is u's.                                                 *)
IsOwner(c, n, u) ==
  \E i \in 0..n :
    /\ \A j \in (i + 1)..n : toClient[c][j].type # "AUTH_OK"
    /\ \/ i # 0 /\ toClient[c][i].type = "AUTH_OK" /\ toClient[c][i].user = u
       \/ /\ i = 0 /\ dashboards[c] # <<>> /\ Last(dashboards[c]) = u.role
          /\ u.role = "user" => view[c].userId = u.id /\ view[c].username = u.username

(* Tickets under way are of the account whose dashboard will read them;    *)
(* the session is the account's whose dashboard will be shown when all is  *)
(* read; and the dashboard shown has its own tickets.                      *)
TicketsAddressed(c) ==
  \A i \in DOMAIN toClient[c] : toClient[c][i].type = "TICKETS" =>
    \E u \in PublicUser : /\ IsOwner(c, i, u)
                          /\ \A t \in toClient[c][i].tickets : t.userId = u.id

SessionOwned(c) ==
  session[c] /\ sessionUserId[c] # 0 =>
    \E w \in users : w.id = sessionUserId[c] /\ IsOwner(c, Len(toClient[c]), ToPublicJson(w))

TicketsOwn(c) ==
  dashboards[c] # <<>> /\ Last(dashboards[c]) = "user" =>
    \A t \in view[c].tickets : t.userId = view[c].userId

Owned(c) == TicketsAddressed(c) /\ SessionOwned(c) /\ TicketsOwn(c)

OInv == \A c \in Clients : Owned(c)

LEMMA OwnTicketsShown == OInv => ShowsOwnTickets
BY DEF OInv, Owned, TicketsOwn, ShowsOwnTickets, Shows

LEMMA InitOInv == ClientInit /\ ViewInit => OInv
BY DEF ClientInit, OInv, Owned, TicketsAddressed, SessionOwned, TicketsOwn

(* The messages that a client has not read are the same, and so is the     *)
(* account its dashboard was opened for.                                   *)
SameEnd(c) ==
  /\ UNCHANGED <<toClient[c], dashboards[c], view[c].userId, view[c].username>>
  /\ UNCHANGED view[c].tickets

LEMMA OwnerKept ==
  ASSUME NEW c \in Clients, SameEnd(c), NEW n, NEW u, IsOwner(c, n, u)
  PROVE  IsOwner(c, n, u)'
BY DEF SameEnd, IsOwner

(* Users are never removed or changed while the server runs.               *)
LEMMA UsersStay ==
  ASSUME IInv, NEW s \in Sessions, NEW req, WellFormed(req), HandleMessage(s, req)
  PROVE  users \subseteq users'
BY StepKinds DEF QuietStep, JoinStep, FleetStep, RiderStep, AddUser, AddRoute, DeleteRoute,
  UpdateRouteSchedule, Subscribe, Unsubscribe, IssueTicket, SetVotes, store

(* What happens elsewhere leaves a client's messages addressed.            *)
LEMMA OwnedElsewhere ==
  ASSUME NEW c \in Clients, Owned(c), SameEnd(c),
         session'[c] => /\ session[c] /\ users \subseteq users'
                        /\ sessionUserId'[c] = sessionUserId[c]
  PROVE  Owned(c)'
<1>. USE DEF Owned
<1>1. TicketsAddressed(c)'
  BY OwnerKept DEF TicketsAddressed, SameEnd
<1>2. SessionOwned(c)'
  <2>1. SUFFICES ASSUME session'[c], sessionUserId'[c] # 0
                 PROVE  \E w \in users' : /\ w.id = sessionUserId'[c]
                                          /\ IsOwner(c, Len(toClient[c]), ToPublicJson(w))'
    BY DEF SessionOwned
  <2>2. PICK w \in users : w.id = sessionUserId[c] /\ IsOwner(c, Len(toClient[c]), ToPublicJson(w))
    BY <2>1 DEF SessionOwned
  <2>3. ToPublicJson(w)' = ToPublicJson(w)
    BY DEF ToPublicJson
  <2>4. IsOwner(c, Len(toClient[c]), ToPublicJson(w))'
    BY <2>2, <2>3, OwnerKept DEF SameEnd
  <2>. QED
    BY <2>1, <2>2, <2>4
<1>3. TicketsOwn(c)'
  BY DEF TicketsOwn, SameEnd
<1>. QED
  BY <1>1, <1>2, <1>3

(* An answer is the last of the messages under way.                        *)
LEMMA OwnerAppended ==
  ASSUME CInv, NEW c \in Clients, NEW msg \in Reply, NEW n, n = Len(toClient[c]),
         toClient' = [toClient EXCEPT ![c] = Append(@, msg)], UNCHANGED <<dashboards, view>>
  PROVE  /\ toClient'[c] \in Seq(Reply) /\ Len(toClient'[c]) = n + 1 /\ n \in Nat
         /\ toClient'[c][n + 1] = msg
         /\ \A i \in 1..n : toClient'[c][i] = toClient[c][i]
         /\ \A i \in 0..n : \A u : IsOwner(c, i, u) => IsOwner(c, i, u)'
         /\ msg.type # "AUTH_OK" => \A u : IsOwner(c, n, u) => IsOwner(c, n + 1, u)'
         /\ msg.type = "AUTH_OK" => IsOwner(c, n + 1, msg.user)'
<1>1. toClient[c] \in Seq(Reply) /\ toClient'[c] = Append(toClient[c], msg)
  BY DEF CInv, ClientTypes
<1>2. /\ toClient'[c] \in Seq(Reply) /\ Len(toClient'[c]) = n + 1 /\ n \in Nat
      /\ toClient'[c][n + 1] = msg
      /\ \A i \in 1..n : toClient'[c][i] = toClient[c][i]
  BY <1>1
<1>3. ASSUME NEW i \in 0..n, NEW u, IsOwner(c, i, u)
      PROVE  IsOwner(c, i, u)'
  BY <1>2, <1>3 DEF IsOwner
<1>4. ASSUME msg.type # "AUTH_OK", NEW u, IsOwner(c, n, u)
      PROVE  IsOwner(c, n + 1, u)'
  <2>1. PICK i \in 0..n :
          /\ \A j \in (i + 1)..n : toClient[c][j].type # "AUTH_OK"
          /\ \/ i # 0 /\ toClient[c][i].type = "AUTH_OK" /\ toClient[c][i].user = u
             \/ /\ i = 0 /\ dashboards[c] # <<>> /\ Last(dashboards[c]) = u.role
                /\ u.role = "user" => view[c].userId = u.id /\ view[c].username = u.username
    BY <1>4 DEF IsOwner
  <2>2. i \in 0..(n + 1) /\ \A j \in (i + 1)..(n + 1) : j = n + 1 \/ j \in (i + 1)..n
    BY <1>2, <2>1
  <2>3. \A j \in (i + 1)..(n + 1) : toClient'[c][j].type # "AUTH_OK"
    BY <1>2, <1>4, <2>1, <2>2
  <2>. QED
    BY <1>2, <2>1, <2>2, <2>3 DEF IsOwner
<1>5. ASSUME msg.type = "AUTH_OK"
      PROVE  IsOwner(c, n + 1, msg.user)'
  <2>1. n + 1 \in 0..(n + 1) /\ n + 1 # 0 /\ (n + 1 + 1)..(n + 1) = {}
    BY <1>2
  <2>. QED
    BY <1>2, <1>5, <2>1 DEF IsOwner
<1>. QED
  BY <1>2, <1>3, <1>4, <1>5

(* An answer goes to the account that the session is of.                   *)
LEMMA ServeKeepsOwned ==
  ASSUME CInv, OInv, NEW c \in Clients, Serve(c), UNCHANGED view
  PROVE  OInv'
<1>. DEFINE req == Head(toServer[c])
<1>n. PICK n : n = Len(toClient[c])
  OBVIOUS
<1>0. /\ c \in Sessions /\ session[c] /\ WellFormed(req) /\ HandleMessage(c, req)
      /\ UNCHANGED <<session, dashboards>>
  BY Serving DEF network
<1>1. PICK msg : Answered(c, req, msg) /\ toClient' = [toClient EXCEPT ![c] = Append(@, msg)]
  BY Serving
<1>2. users \subseteq users'
  BY <1>0, UsersStay DEF CInv
<1>3. /\ toClient'[c] \in Seq(Reply) /\ Len(toClient'[c]) = n + 1 /\ n \in Nat
      /\ toClient'[c][n + 1] = msg
      /\ \A i \in 1..n : toClient'[c][i] = toClient[c][i]
      /\ \A i \in 0..n : \A u : IsOwner(c, i, u) => IsOwner(c, i, u)'
      /\ msg.type # "AUTH_OK" => \A u : IsOwner(c, n, u) => IsOwner(c, n + 1, u)'
      /\ msg.type = "AUTH_OK" => IsOwner(c, n + 1, msg.user)'
  <2>1. msg \in Reply /\ UNCHANGED <<dashboards, view>>
    BY <1>0, <1>1 DEF Answered
  <2>2. toClient' = [toClient EXCEPT ![c] = Append(@, msg)] /\ UNCHANGED <<dashboards, view>>
    BY <1>1, <2>1
  <2>3. /\ toClient'[c] \in Seq(Reply) /\ Len(toClient'[c]) = n + 1 /\ n \in Nat
      /\ toClient'[c][n + 1] = msg
      /\ \A i \in 1..n : toClient'[c][i] = toClient[c][i]
    <3>1. toClient[c] \in Seq(Reply) /\ toClient'[c] = Append(toClient[c], msg)
      BY <2>2 DEF CInv, ClientTypes
    <3>. QED
      BY <1>n, <2>1, <3>1
  <2>4. \A i \in 0..n : \A u : IsOwner(c, i, u) => IsOwner(c, i, u)'
    BY <1>n, <2>1, <2>2, OwnerAppended
  <2>5. msg.type # "AUTH_OK" => \A u : IsOwner(c, n, u) => IsOwner(c, n + 1, u)'
    BY <1>n, <2>1, <2>2, OwnerAppended
  <2>6. msg.type = "AUTH_OK" => IsOwner(c, n + 1, msg.user)'
    BY <1>n, <2>1, <2>2, OwnerAppended
  <2>. QED
    BY <2>3, <2>4, <2>5, <2>6
<1>4. ASSUME NEW d \in Clients, d # c
      PROVE  Owned(d)'
  <2>1. SameEnd(d)
    BY <1>0, <1>1, <1>4 DEF SameEnd, CInv, ClientTypes
  <2>2. sessionUserId'[d] = sessionUserId[d]
    BY <1>1, <1>4, ClientAssumption DEF Answered, CInv, IInv, TypeOK
  <2>. QED
    BY <1>0, <1>2, <2>1, <2>2, OwnedElsewhere DEF OInv
<1>5. Owned(c)
  BY DEF OInv
<1>6. TicketsAddressed(c)'
  <2>1. ASSUME NEW i \in 1..(n + 1), toClient'[c][i].type = "TICKETS"
        PROVE  \E u \in PublicUser : /\ IsOwner(c, i, u)'
                                     /\ \A t \in toClient'[c][i].tickets : t.userId = u.id
    <3>1. CASE i \in 1..n
      <4>1. toClient[c][i].type = "TICKETS" /\ i \in DOMAIN toClient[c] /\ i \in 0..n
        BY <1>n, <1>3, <2>1, <3>1 DEF CInv, ClientTypes
      <4>2. PICK u \in PublicUser : /\ IsOwner(c, i, u)
                                    /\ \A t \in toClient[c][i].tickets : t.userId = u.id
        BY <1>5, <4>1 DEF Owned, TicketsAddressed
      <4>. QED
        BY <1>3, <3>1, <4>1, <4>2
    <3>2. CASE i = n + 1
      <4>1. /\ msg.type = "TICKETS" /\ sessionUserId[c] # 0
            /\ msg.tickets = RowsOf(sessionUserId[c], tickets)
        <5>1. msg.type = "TICKETS"
          BY <1>3, <2>1, <3>2
        <5>2. Listed(c, msg)
          BY <1>1 DEF Answered
        <5>3. /\ sessionUserId[c] # 0
              /\ msg = [type |-> "TICKETS", tickets |-> RowsOf(sessionUserId[c], tickets)]
          BY <5>1, <5>2 DEF Listed
        <5>. QED
          BY <5>1, <5>3
      <4>2. PICK w \in users : w.id = sessionUserId[c] /\ IsOwner(c, n, ToPublicJson(w))
        BY <1>n, <1>0, <1>5, <4>1 DEF Owned, SessionOwned
      <4>3. ToPublicJson(w) \in PublicUser /\ ToPublicJson(w).id = w.id
        BY DEF ToPublicJson, PublicUser, CInv, IInv, TypeOK, StoreTypeOK, User
      <4>4. IsOwner(c, n + 1, ToPublicJson(w))'
        BY <1>3, <4>1, <4>2
      <4>5. \A t \in toClient'[c][i].tickets : t.userId = ToPublicJson(w).id
        BY <1>3, <3>2, <4>1, <4>2, <4>3 DEF RowsOf
      <4>. QED
        BY <3>2, <4>3, <4>4, <4>5
    <3>. QED
      BY <1>3, <2>1, <3>1, <3>2
  <2>. QED
    BY <1>3, <2>1 DEF TicketsAddressed
<1>7. SessionOwned(c)'
  <2>1. CASE msg.type = "AUTH_OK"
    <3>1. PICK u \in users' : /\ msg.user = ToPublicJson(u)
                              /\ sessionUserId' = [sessionUserId EXCEPT ![c] = u.id]
      BY <1>1, <2>1 DEF Answered
    <3>2. sessionUserId'[c] = u.id
      BY <1>0, <3>1 DEF CInv, IInv, TypeOK
    <3>3. IsOwner(c, n + 1, ToPublicJson(u))'
      BY <1>3, <2>1, <3>1
    <3>. QED
      BY <1>3, <3>2, <3>3 DEF SessionOwned, ToPublicJson
  <2>2. CASE msg.type # "AUTH_OK"
    <3>1. UNCHANGED sessionUserId
      BY <1>1, <2>2 DEF Answered
    <3>2. SUFFICES ASSUME sessionUserId[c] # 0
                   PROVE  \E w \in users' : /\ w.id = sessionUserId[c]
                                            /\ IsOwner(c, n + 1, ToPublicJson(w))'
      BY <1>3, <3>1 DEF SessionOwned, ToPublicJson
    <3>3. PICK w \in users : w.id = sessionUserId[c] /\ IsOwner(c, n, ToPublicJson(w))
      BY <1>n, <1>0, <1>5, <3>2 DEF Owned, SessionOwned
    <3>4. IsOwner(c, n + 1, ToPublicJson(w))'
      BY <1>3, <2>2, <3>3
    <3>. QED
      BY <1>2, <3>3, <3>4
  <2>. QED
    BY <2>1, <2>2
<1>8. TicketsOwn(c)'
  BY <1>0, <1>5 DEF Owned, TicketsOwn
<1>. QED
  BY <1>4, <1>6, <1>7, <1>8 DEF OInv, Owned

(* Reading the first message moves the owners up by one.                   *)
LEMMA OwnerShifted ==
  ASSUME CInv, VInv, NEW c \in Clients, OnMessageReceived(c), ViewReacts(c),
         NEW i \in 1..Len(toClient[c]), NEW u, IsOwner(c, i, u)
  PROVE  IsOwner(c, i - 1, u)'
<1>. DEFINE msg == Head(toClient[c])
<1>1. /\ toClient[c] \in Seq(Reply) /\ toClient[c] # <<>> /\ i \in Nat \ {0}
      /\ msg = toClient[c][1] /\ toClient'[c] = Tail(toClient[c])
  BY DEF OnMessageReceived, CInv, ClientTypes
<1>2. \A j \in 1..(i - 1) : toClient'[c][j] = toClient[c][j + 1]
  <2>1. ASSUME NEW j \in 1..(i - 1)
        PROVE  j \in 1..(Len(toClient[c]) - 1) /\ j + 1 \in 1..Len(toClient[c])
    BY <1>1
  <2>. QED
    BY <1>1, <2>1
<1>3. PICK k \in 0..i :
        /\ \A j \in (k + 1)..i : toClient[c][j].type # "AUTH_OK"
        /\ \/ k # 0 /\ toClient[c][k].type = "AUTH_OK" /\ toClient[c][k].user = u
           \/ /\ k = 0 /\ dashboards[c] # <<>> /\ Last(dashboards[c]) = u.role
              /\ u.role = "user" => view[c].userId = u.id /\ view[c].username = u.username
  BY DEF IsOwner
<1>4. PICK v \in View :
        /\ view' = [view EXCEPT ![c] = v]
        /\ \/ /\ msg.type = "AUTH_OK" /\ msg.user.role # "admin"
              /\ v.userId = msg.user.id /\ v.username = msg.user.username
           \/ /\ ~(msg.type = "AUTH_OK" /\ msg.user.role # "admin")
              /\ v.userId = view[c].userId /\ v.username = view[c].username
  BY Viewing
<1>5. view'[c] = v
  BY <1>4 DEF VInv
<1>6. /\ msg \in Reply
      /\ \/ /\ msg.type = "AUTH_OK" /\ msg.user \in PublicUser
            /\ dashboards' = [dashboards EXCEPT ![c] = Append(@, msg.user.role)]
         \/ msg.type # "AUTH_OK" /\ UNCHANGED dashboards
  BY Reading
<1>. HIDE DEF msg
<1>7. CASE k > 1
  <2>1. k - 1 \in 1..(i - 1) /\ k - 1 + 1 = k /\ k - 1 \in 0..(i - 1)
    BY <1>1, <1>3, <1>7
  <2>2. ASSUME NEW j \in k..(i - 1)
        PROVE  toClient'[c][j].type # "AUTH_OK"
    <3>1. j \in 1..(i - 1) /\ j + 1 \in (k + 1)..i
      BY <1>3, <1>7
    <3>. QED
      BY <1>2, <1>3, <3>1
  <2>3. toClient'[c][k - 1] = toClient[c][k]
    BY <1>2, <2>1
  <2>. QED
    BY <1>3, <1>7, <2>1, <2>2, <2>3 DEF IsOwner
<1>8. CASE k <= 1
  <2>1. ASSUME NEW j \in 1..(i - 1)
        PROVE  toClient'[c][j].type # "AUTH_OK"
    <3>1. j + 1 \in (k + 1)..i
      BY <1>3, <1>8
    <3>. QED
      BY <1>2, <1>3, <3>1
  <2>2. 0 \in 0..(i - 1) /\ 0 + 1 = 1
    BY <1>1
  <2>3. /\ dashboards'[c] # <<>> /\ Last(dashboards'[c]) = u.role
        /\ u.role = "user" => view'[c].userId = u.id /\ view'[c].username = u.username
    <3>1. CASE k = 1
      <4>1. msg.type = "AUTH_OK" /\ msg.user = u
        BY <1>1, <1>3, <3>1
      <4>2. dashboards'[c] = Append(dashboards[c], u.role) /\ dashboards[c] \in Seq({"user", "admin"})
        BY <1>6, <4>1 DEF CInv, ClientTypes
      <4>3. u.role \in {"user", "admin"}
        BY <1>6, <4>1 DEF PublicUser
      <4>4. Last(dashboards'[c]) = u.role /\ dashboards'[c] # <<>>
        BY <4>2, <4>3 DEF Last
      <4>. QED
        BY <1>4, <1>5, <4>1, <4>4
    <3>2. CASE k = 0
      <4>1. 1 \in (k + 1)..i
        BY <1>1, <3>2
      <4>2. msg.type # "AUTH_OK"
        BY <1>1, <1>3, <4>1
      <4>. QED
        BY <1>3, <1>4, <1>5, <1>6, <3>2, <4>2
    <3>. QED
      BY <1>3, <1>8, <3>1, <3>2
  <2>. QED
    BY <2>1, <2>2, <2>3 DEF IsOwner
<1>. QED
  BY <1>3, <1>7, <1>8

LEMMA ReceiveKeepsOwned ==
  ASSUME CInv, VInv, OInv, NEW c \in Clients, OnMessageReceived(c), ViewReacts(c)
  PROVE  OInv'
<1>. DEFINE msg == Head(toClient[c])
<1>n. PICK n : n = Len(toClient[c])
  OBVIOUS
<1>1. /\ toClient[c] \in Seq(Reply) /\ n \in Nat \ {0} /\ msg = toClient[c][1]
      /\ toClient'[c] = Tail(toClient[c])
  BY <1>n DEF OnMessageReceived, CInv, ClientTypes
<1>2. /\ toClient'[c] \in Seq(Reply) /\ Len(toClient'[c]) = n - 1 /\ DOMAIN toClient'[c] = 1..(n - 1)
      /\ \A j \in 1..(n - 1) : toClient'[c][j] = toClient[c][j + 1]
  BY <1>n, <1>1
<1>3. UNCHANGED <<users, sessionUserId, session>>
  BY DEF OnMessageReceived, logicVars, store, network
<1>4. \A i \in 1..n : \A u : IsOwner(c, i, u) => IsOwner(c, i - 1, u)'
  BY <1>n, OwnerShifted
<1>5. PICK v \in View :
        /\ view' = [view EXCEPT ![c] = v]
        /\ \/ /\ msg.type = "AUTH_OK" /\ msg.user.role # "admin"
              /\ v.tickets = {}
           \/ /\ ~(msg.type = "AUTH_OK" /\ msg.user.role # "admin")
              /\ v.userId = view[c].userId
              /\ \/ v.tickets = view[c].tickets
                 \/ msg.type = "TICKETS" /\ v.tickets = msg.tickets
  BY Viewing
<1>6. view'[c] = v
  BY <1>5 DEF VInv
<1>7. /\ msg \in Reply
      /\ \/ /\ msg.type = "AUTH_OK" /\ msg.user \in PublicUser
            /\ dashboards' = [dashboards EXCEPT ![c] = Append(@, msg.user.role)]
         \/ msg.type # "AUTH_OK" /\ UNCHANGED dashboards
  BY Reading
<1>8. Owned(c)
  BY DEF OInv
<1>. HIDE DEF msg
<1>9. ASSUME NEW d \in Clients, d # c
      PROVE  Owned(d)'
  <2>1. SameEnd(d)
    BY <1>5, <1>7, <1>9 DEF SameEnd, OnMessageReceived, CInv, ClientTypes, VInv
  <2>. QED
    BY <1>3, <2>1, OwnedElsewhere DEF OInv
<1>10. TicketsAddressed(c)'
  <2>1. ASSUME NEW i \in 1..(n - 1), toClient'[c][i].type = "TICKETS"
        PROVE  \E u \in PublicUser : /\ IsOwner(c, i, u)'
                                     /\ \A t \in toClient'[c][i].tickets : t.userId = u.id
    <3>1. i + 1 \in 1..n /\ i + 1 - 1 = i /\ i + 1 \in DOMAIN toClient[c]
      BY <1>n, <1>1
    <3>2. PICK u \in PublicUser : /\ IsOwner(c, i + 1, u)
                                  /\ \A t \in toClient[c][i + 1].tickets : t.userId = u.id
      BY <1>2, <1>8, <2>1, <3>1 DEF Owned, TicketsAddressed
    <3>3. IsOwner(c, i + 1 - 1, u)'
      BY <1>4, <3>1, <3>2
    <3>. QED
      BY <1>2, <3>1, <3>2, <3>3
  <2>. QED
    BY <1>2, <2>1 DEF TicketsAddressed
<1>11. SessionOwned(c)'
  <2>1. SUFFICES ASSUME session[c], sessionUserId[c] # 0
                 PROVE  \E w \in users : /\ w.id = sessionUserId[c]
                                         /\ IsOwner(c, n - 1, ToPublicJson(w))'
    BY <1>2, <1>3 DEF SessionOwned, ToPublicJson
  <2>2. PICK w \in users : w.id = sessionUserId[c] /\ IsOwner(c, n, ToPublicJson(w))
    BY <1>n, <1>8, <2>1 DEF Owned, SessionOwned
  <2>3. n \in 1..n
    BY <1>1
  <2>4. IsOwner(c, n - 1, ToPublicJson(w))'
    BY <1>4, <2>2, <2>3
  <2>. QED
    BY <2>2, <2>4
<1>12. TicketsOwn(c)'
  <2>1. SUFFICES ASSUME dashboards'[c] # <<>>, Last(dashboards'[c]) = "user",
                        NEW t \in v.tickets
                 PROVE  t.userId = v.userId
    BY <1>6 DEF TicketsOwn
  <2>2. CASE msg.type = "AUTH_OK"
    <3>1. PICK role \in {"user", "admin"} : msg.user.role = role
      BY <1>7, <2>2 DEF PublicUser
    <3>2. dashboards'[c] = Append(dashboards[c], role) /\ dashboards[c] \in Seq({"user", "admin"})
      BY <1>7, <2>2, <3>1 DEF CInv, ClientTypes
    <3>3. role = "user"
      BY <2>1, <3>2 DEF Last
    <3>. QED
      BY <1>5, <2>1, <2>2, <3>1, <3>3
  <2>3. CASE msg.type # "AUTH_OK" /\ v.tickets = view[c].tickets
    BY <1>5, <1>7, <1>8, <2>1, <2>3 DEF Owned, TicketsOwn
  <2>4. CASE msg.type = "TICKETS" /\ v.tickets = msg.tickets
    <3>1. 1 \in DOMAIN toClient[c] /\ 1 \in 1..n
      BY <1>n, <1>1
    <3>2. PICK u \in PublicUser : /\ IsOwner(c, 1, u)
                                  /\ \A x \in msg.tickets : x.userId = u.id
      BY <1>1, <1>8, <2>4, <3>1 DEF Owned, TicketsAddressed
    <3>3. /\ Last(dashboards[c]) = u.role
          /\ u.role = "user" => view[c].userId = u.id
      <4>1. 1 \in 1..1 /\ \A k \in 0..1 : k = 0 \/ k = 1
        OBVIOUS
      <4>. QED
        BY <1>1, <2>4, <3>2, <4>1 DEF IsOwner
    <3>. QED
      BY <1>5, <1>7, <2>1, <2>4, <3>2, <3>3
  <2>. QED
    BY <1>5, <2>2, <2>3, <2>4
<1>. QED
  BY <1>9, <1>10, <1>11, <1>12 DEF OInv, Owned

LEMMA ConnectionKeepsOwned ==
  ASSUME CInv, OInv, NEW c \in Clients, UNCHANGED view,
         OnConnected(c) \/ OnConnectionRefused(c) \/ OnDisconnected(c)
  PROVE  OInv'
<1>0. UNCHANGED <<dashboards, users>>
  BY DEF OnConnected, Accept, OnConnectionRefused, OnDisconnected, logicVars, store
<1>1. ASSUME NEW d \in Clients, d # c
      PROVE  Owned(d)'
  <2>1. UNCHANGED <<toClient[d], session[d], sessionUserId[d]>>
    BY <1>1, ClientAssumption DEF OnConnected, Accept, OnConnectionRefused, OnDisconnected,
      logicVars, CInv, ClientTypes, IInv, TypeOK
  <2>. QED
    BY <1>0, <2>1, OwnedElsewhere DEF SameEnd, OInv
<1>2. Owned(c)
  BY DEF OInv
<1>3. CASE OnConnected(c)
  <2>1. toClient[c] = <<>> /\ UNCHANGED toClient
    BY <1>3 DEF OnConnected, CInv, Linked
  <2>2. sessionUserId'[c] = 0
    BY <1>3, ClientAssumption DEF OnConnected, Accept, CInv, IInv, TypeOK
  <2>3. Owned(c)'
    BY <1>0, <1>2, <2>1, <2>2 DEF Owned, TicketsAddressed, SessionOwned, TicketsOwn
  <2>. QED
    BY <1>1, <2>3 DEF OInv
<1>4. CASE OnConnectionRefused(c)
  <2>1. SameEnd(c) /\ UNCHANGED <<users, session, sessionUserId>>
    BY <1>4 DEF OnConnectionRefused, SameEnd, logicVars, store
  <2>2. Owned(c)'
    BY <1>2, <2>1, OwnedElsewhere
  <2>. QED
    BY <1>1, <2>2 DEF OInv
<1>5. CASE OnDisconnected(c)
  <2>1. toClient'[c] = <<>> /\ ~session'[c]
    BY <1>5 DEF OnDisconnected, CInv, ClientTypes
  <2>2. Owned(c)'
    BY <1>0, <1>2, <2>1 DEF Owned, TicketsAddressed, SessionOwned, TicketsOwn
  <2>. QED
    BY <1>1, <2>2 DEF OInv
<1>. QED
  BY <1>3, <1>4, <1>5

(* A step that touches neither messages nor sessions.                      *)
LEMMA IdleKeepsOwned ==
  ASSUME OInv, \A c \in Clients : SameEnd(c),
         UNCHANGED <<users, session>> , \A c \in Clients : sessionUserId'[c] = sessionUserId[c]
  PROVE  OInv'
BY OwnedElsewhere DEF OInv

LEMMA OthersKeepOwned ==
  ASSUME CInv, OInv, OthersAct, UNCHANGED view
  PROVE  OInv'
<1>1. PICK s \in Sessions \ Clients, req \in Requests : HandleMessage(s, req)
  BY DEF OthersAct
<1>2. users \subseteq users'
  BY <1>1, UsersStay, RequestAssumption DEF CInv
<1>3. \A c \in Clients : sessionUserId'[c] = sessionUserId[c]
  <2>1. \E msg : Answered(s, req, msg)
    BY <1>1, Answers, RequestAssumption DEF CInv
  <2>. QED
    BY <1>1, <2>1, ClientAssumption DEF Answered, CInv, IInv, TypeOK
<1>4. \A c \in Clients : SameEnd(c) /\ session'[c] = session[c]
  BY DEF OthersAct, clientVars, network, SameEnd
<1>. QED
  BY <1>2, <1>3, <1>4, OwnedElsewhere DEF OInv

LEMMA RiderClicksKeepOwned ==
  ASSUME CInv, VInv, OInv, NEW c \in Clients, RiderClicks(c)
  PROVE  OInv'
<1>1. PICK vs \in Seq(RouteVote) : view' = [view EXCEPT ![c] = [view[c] EXCEPT !.myVotes = vs]]
  BY RiderClicking
<1>2. UNCHANGED <<logicVars, network, toClient, dashboards>>
  BY RiderClicking DEF Click
<1>3. \A d \in Clients : /\ UNCHANGED <<view[d].userId, view[d].username>>
                         /\ UNCHANGED view[d].tickets
  BY <1>1 DEF VInv, View
<1>. QED
  BY <1>2, <1>3, IdleKeepsOwned DEF SameEnd, logicVars, store, network
----------------------------------------------------------------------------
(* Theorems about riders whose connections stay up *)

LEMMA RiderInitInv == RiderInit => CInv /\ VInv /\ OInv
BY InitCInv, InitVInv, InitOInv DEF RiderInit

LEMMA RiderNextInv == CInv /\ VInv /\ OInv /\ [RiderNext]_riderVars => (CInv /\ VInv /\ OInv)'
<1>. SUFFICES ASSUME CInv, VInv, OInv, [RiderNext]_riderVars
              PROVE  CInv' /\ VInv' /\ OInv'
  OBVIOUS
<1>1. ASSUME NEW c \in Clients, OnConnected(c), UNCHANGED viewVars
      PROVE  CInv' /\ VInv' /\ OInv'
  BY <1>1, ConnectionKeeps, ViewsKept, ConnectionKeepsOwned DEF OnConnected, viewVars, VInv
<1>2. ASSUME NEW c \in Clients, Serve(c), UNCHANGED viewVars
      PROVE  CInv' /\ VInv' /\ OInv'
  BY <1>2, ServeKeeps, ViewsKept, ServeKeepsOwned DEF Serve, viewVars, VInv
<1>3. ASSUME NEW c \in Clients, WindowClicks(c), UNCHANGED viewVars
      PROVE  CInv' /\ VInv' /\ OInv'
  <2>1. UNCHANGED <<logicVars, network, toClient, dashboards>>
    BY <1>3, WindowClicking DEF Click
  <2>2. VInv'
    BY <1>3, <2>1, ViewsKept DEF viewVars, VInv
  <2>3. OInv'
    BY <1>3, <2>1, IdleKeepsOwned DEF viewVars, SameEnd, logicVars, store, network
  <2>. QED
    BY <1>3, <2>2, <2>3, WindowClicksKeep
<1>4. ASSUME NEW c \in Clients, OnMessageReceived(c), ViewReacts(c)
      PROVE  CInv' /\ VInv' /\ OInv'
  BY <1>4, ReceiveKeeps, ReceiveKeepsViews, ReceiveKeepsOwned
<1>5. ASSUME NEW c \in Clients, RiderClicks(c)
      PROVE  CInv' /\ VInv' /\ OInv'
  BY <1>5, RiderClicksKeep, RiderClicksKeepOwned
<1>6. ASSUME OthersAct, UNCHANGED viewVars
      PROVE  CInv' /\ VInv' /\ OInv'
  BY <1>6, OthersKeep, ViewsKept, OthersKeepOwned DEF OthersAct, clientVars, viewVars, VInv
<1>7. ASSUME UNCHANGED riderVars
      PROVE  CInv' /\ VInv' /\ OInv'
  <2>1. UNCHANGED <<logicVars, clientVars, viewVars>>
    BY <1>7 DEF riderVars
  <2>2. CInv'
    BY <2>1, UnchangedKeeps
  <2>3. VInv'
    BY <2>1, ViewsKept DEF clientVars, viewVars, VInv
  <2>4. OInv'
    BY <2>1, IdleKeepsOwned DEF clientVars, viewVars, SameEnd, logicVars, store, network
  <2>. QED
    BY <2>2, <2>3, <2>4
<1>. QED
  BY <1>1, <1>2, <1>3, <1>4, <1>5, <1>6, <1>7 DEF RiderNext

(* The invariant holds throughout every behaviour of the riders' clients.  *)
THEOREM RiderInvariance == RiderSpec => [](CInv /\ VInv /\ OInv)
BY RiderInitInv, RiderNextInv, PTL DEF RiderSpec

(* What clients send is known to the server, and what is under way goes    *)
(* with the connection's state (NetworkManager.cpp, LoginView.cpp).        *)
THEOREM RiderClientsTypeCorrect == RiderSpec => []ClientTypeOK
BY RiderInvariance, ClientTypesOK, PTL

(* The lists of UserDashboard.cpp keep their types.                        *)
THEOREM RiderViewsTypeCorrect == RiderSpec => []ViewTypeOK
BY RiderInvariance, ViewTypesOK, PTL

(* The dashboard shown never has tickets of another account, although all  *)
(* dashboards of a client hear all answers and users do not wait for them. *)
THEOREM RidersShownOwnTickets == RiderSpec => []ShowsOwnTickets
BY RiderInvariance, OwnTicketsShown, PTL
----------------------------------------------------------------------------
(* Administrators' dashboards *)

Panel ==
  [routesData : UNION {[S -> Seq(Trip)] : S \in SUBSET RouteIds},
   box : RouteIds \cup {0}, trips : Seq(Trip), users : SUBSET UserIds,
   demand : SUBSET Demand, detail : UserIds \cup {0}]

(* The route selected is one of the map; none is when there is none.       *)
Selected(p) ==
  \/ p.box \in DOMAIN p.routesData
  \/ p.box = 0 /\ p.routesData = NoTrips /\ p.trips = <<>>

PInv ==
  /\ panel \in [Clients -> Panel]
  /\ \A c \in Clients : Selected(panel[c])

(* The trips shown are those of the route selected.                        *)
Fits(p) == p.box # 0 => p.trips = p.routesData[p.box]

(* The panel has the routes and schedules of the rows, and shows those of  *)
(* the route selected.                                                     *)
DataOf(rows) == [rid \in IdsOf(rows) |-> Parsed((CHOOSE r \in rows : r.id = rid).schedule)]

Filled(p, rows) ==
  p.routesData = DataOf(rows) /\ p.trips = (IF p.box = 0 THEN <<>> ELSE p.routesData[p.box])

SameTrips(p, q) == p.routesData = q.routesData /\ p.box = q.box /\ p.trips = q.trips

LEMMA PanelTypesOK == PInv => PanelTypeOK
<1>. SUFFICES ASSUME PInv, NEW c \in Clients
              PROVE  /\ DOMAIN panel[c].routesData \subseteq RouteIds
                     /\ \/ panel[c].box \in DOMAIN panel[c].routesData
                        \/ panel[c].box = 0 /\ panel[c].routesData = NoTrips
                     /\ panel[c].users \subseteq UserIds /\ panel[c].detail \in UserIds \cup {0}
  BY DEF PInv, PanelTypeOK
<1>1. panel[c] \in Panel /\ Selected(panel[c])
  BY DEF PInv
<1>. QED
  BY <1>1 DEF Panel, Selected

LEMMA EmptyPanelType == EmptyPanel \in Panel /\ Selected(EmptyPanel) /\ Fits(EmptyPanel)
<1>1. NoTrips \in UNION {[S -> Seq(Trip)] : S \in SUBSET RouteIds}
  <2>1. NoTrips \in [{} -> Seq(Trip)] /\ {} \in SUBSET RouteIds
    BY DEF NoTrips
  <2>. QED
    BY <2>1
<1>. HIDE DEF NoTrips
<1>2. EmptyPanel \in Panel
  BY <1>1 DEF EmptyPanel, Panel
<1>. QED
  BY <1>2 DEF EmptyPanel, Selected, Fits

LEMMA InitPInv == PanelInit => PInv
BY EmptyPanelType DEF PanelInit, PInv

LEMMA PanelsKept ==
  ASSUME PInv, UNCHANGED panel
  PROVE  PInv'
BY DEF PInv, Selected

LEMMA PanelChanged ==
  ASSUME PInv, NEW c \in Clients, NEW p \in Panel, Selected(p), panel' = [panel EXCEPT ![c] = p]
  PROVE  PInv' /\ panel'[c] = p /\ \A d \in Clients : d # c => panel'[d] = panel[d]
<1>1. panel' \in [Clients -> Panel] /\ panel'[c] = p
      /\ \A d \in Clients : d # c => panel'[d] = panel[d]
  BY DEF PInv
<1>. QED
  BY <1>1 DEF PInv, Selected

(* An entry of the map is replaced.                                        *)
LEMMA EditType ==
  ASSUME NEW p \in Panel, p.box \in DOMAIN p.routesData, NEW trips \in Seq(Trip)
  PROVE  LET q == [p EXCEPT !.routesData[p.box] = trips] IN
         /\ q \in Panel /\ Selected(q)
         /\ p.routesData[p.box] \in Seq(Trip) /\ p.trips \in Seq(Trip)
         /\ p.box \in RouteIds
<1>1. PICK S \in SUBSET RouteIds : p.routesData \in [S -> Seq(Trip)]
  BY DEF Panel
<1>. DEFINE data == [p.routesData EXCEPT ![p.box] = trips]
            q == [p EXCEPT !.routesData = data]
<1>2. data \in [S -> Seq(Trip)] /\ DOMAIN data = DOMAIN p.routesData
  BY <1>1
<1>3. data \in UNION {[T -> Seq(Trip)] : T \in SUBSET RouteIds}
  BY <1>1, <1>2
<1>. HIDE DEF data
<1>4. q \in Panel /\ q.box = p.box /\ q.routesData = data
  BY <1>3 DEF Panel
<1>5. [p EXCEPT !.routesData[p.box] = trips] = q
  BY DEF data, Panel
<1>6. Selected(q)
  BY <1>2, <1>4 DEF Selected
<1>7. p.routesData[p.box] \in Seq(Trip) /\ p.trips \in Seq(Trip) /\ p.box \in RouteIds
  BY <1>1 DEF Panel
<1>. QED
  BY <1>4, <1>5, <1>6, <1>7
----------------------------------------------------------------------------
(* Messages *)

(* The box is filled anew from the routes of a message.                    *)
LEMMA RoutesType ==
  ASSUME NEW c \in Clients, panel[c] \in Panel, NEW msg, msg.routes \subseteq Route,
         OnPanelRoutes(c, msg)
  PROVE  \E p \in Panel : Display(c, p) /\ Selected(p) /\ Fits(p) /\ Filled(p, msg.routes)
<1>. DEFINE ids == IdsOf(msg.routes)
            data == [rid \in ids |-> Parsed((CHOOSE r \in msg.routes : r.id = rid).schedule)]
            first == CHOOSE rid \in ids : \A i \in ids : rid <= i
            p == [panel[c] EXCEPT !.routesData = data,
                                  !.box = IF ids = {} THEN 0 ELSE first,
                                  !.trips = IF ids = {} THEN <<>> ELSE data[first]]
<1>1. ids \in SUBSET RouteIds /\ RouteIds \subseteq Nat /\ 0 \notin RouteIds
  BY DEF IdsOf, Route, RouteIds
<1>2. ASSUME NEW rid \in ids
      PROVE  Parsed((CHOOSE r \in msg.routes : r.id = rid).schedule) \in Seq(Trip)
  <2>1. (CHOOSE r \in msg.routes : r.id = rid) \in msg.routes
    BY DEF IdsOf
  <2>2. (CHOOSE r \in msg.routes : r.id = rid).schedule \in Schedule
    BY <2>1 DEF Route
  <2>. QED
    BY <2>2 DEF Parsed, Schedule
<1>3. data \in [ids -> Seq(Trip)] /\ DOMAIN data = ids
  BY <1>2
<1>4. ids # {} => first \in ids
  <2>. HIDE DEF ids
  <2>1. ids # {} => \E rid \in ids : \A i \in ids : rid <= i
    BY <1>1, LeastNumber
  <2>. QED
    BY <2>1
<1>5. data \in UNION {[S -> Seq(Trip)] : S \in SUBSET RouteIds}
  <2>. HIDE DEF data
  <2>. QED
    BY <1>1, <1>3
<1>6. ids = {} => data = NoTrips
  BY DEF NoTrips
<1>. HIDE DEF ids, data, first
<1>7. /\ p \in Panel /\ p.routesData = data
      /\ p.box = (IF ids = {} THEN 0 ELSE first)
      /\ p.trips = (IF ids = {} THEN <<>> ELSE data[first])
  <2>. DEFINE box == IF ids = {} THEN 0 ELSE first
              trips == IF ids = {} THEN <<>> ELSE data[first]
  <2>1. box \in RouteIds \cup {0}
    BY <1>1, <1>4
  <2>2. trips \in Seq(Trip)
    BY <1>3, <1>4
  <2>. HIDE DEF box, trips
  <2>3. LET q == [panel[c] EXCEPT !.routesData = data, !.box = box, !.trips = trips]
        IN  q \in Panel /\ q.routesData = data /\ q.box = box /\ q.trips = trips
    BY <1>5, <2>1, <2>2 DEF Panel
  <2>. QED
    BY <2>3 DEF box, trips
<1>8. Selected(p) /\ Fits(p)
  BY <1>3, <1>4, <1>6, <1>7 DEF Selected, Fits
<1>9. Display(c, p)
  BY DEF OnPanelRoutes, ids, data, first
<1>10. Filled(p, msg.routes)
  <2>1. data = DataOf(msg.routes)
    BY DEF DataOf, data, ids
  <2>. QED
    BY <1>1, <1>4, <1>7, <2>1 DEF Filled
<1>. QED
  BY <1>7, <1>8, <1>9, <1>10

(* What a panel is after a message: an opened panel and one that has read  *)
(* the routes show the trips of their route; nothing else touches them.    *)
LEMMA Paneling ==
  ASSUME CInv, PInv, NEW c \in Clients, OnMessageReceived(c), PanelReacts(c)
  PROVE  LET msg == Head(toClient[c]) IN
         \E p \in Panel :
           /\ panel' = [panel EXCEPT ![c] = p] /\ Selected(p)
           /\ SameTrips(p, panel[c]) \/ Fits(p)
           /\ msg.type = "AUTH_OK" /\ msg.user.role = "admin" => Fits(p)
           /\ msg.type = "ROUTES_LIST" /\ ~NoPanel(c) => Fits(p) /\ Filled(p, msg.routes)
           /\ msg.type \notin {"AUTH_OK", "ROUTES_LIST"} => SameTrips(p, panel[c])
<1>. DEFINE msg == Head(toClient[c])
<1>1. msg \in Reply
  BY Reading
<1>2. panel[c] \in Panel /\ Selected(panel[c]) /\ panel = [panel EXCEPT ![c] = panel[c]]
  BY DEF PInv
<1>. HIDE DEF msg
<1>3. CASE OpenPanel(c, msg)
  BY <1>3, EmptyPanelType DEF OpenPanel, Display, msg
<1>4. CASE OnPanelRoutes(c, msg)
  <2>1. msg.type = "ROUTES_LIST" /\ msg.routes \subseteq Route
    BY <1>1, <1>4, ReplyFields DEF OnPanelRoutes
  <2>2. PICK p \in Panel : Display(c, p) /\ Selected(p) /\ Fits(p) /\ Filled(p, msg.routes)
    BY <1>2, <1>4, <2>1, RoutesType
  <2>. QED
    BY <2>1, <2>2 DEF Display, msg
<1>5. CASE OnPanelUsers(c, msg)
  <2>. DEFINE p == [panel[c] EXCEPT !.users = IdsOf(msg.users)]
  <2>1. msg.type = "USERS_LIST" /\ msg.users \subseteq PublicUser
    BY <1>1, <1>5, ReplyFields DEF OnPanelUsers
  <2>2. IdsOf(msg.users) \subseteq UserIds
    BY <2>1 DEF IdsOf, PublicUser
  <2>3. p \in Panel /\ SameTrips(p, panel[c])
    BY <1>2, <2>2 DEF Panel, SameTrips
  <2>4. Selected(p)
    BY <1>2, <2>3 DEF Selected, SameTrips
  <2>. HIDE DEF p
  <2>5. panel' = [panel EXCEPT ![c] = p]
    BY <1>5 DEF OnPanelUsers, Display, p
  <2>. QED
    BY <2>1, <2>3, <2>4, <2>5 DEF msg
<1>6. CASE OnPanelDemand(c, msg)
  <2>. DEFINE shown == {d \in msg.demand : d.key.slot \notin BarredSlots}
              p == [panel[c] EXCEPT !.demand = shown]
  <2>1. msg.type = "DEMAND_LIST" /\ msg.demand \subseteq Demand
    BY <1>1, <1>6, ReplyFields DEF OnPanelDemand
  <2>2. p \in Panel /\ SameTrips(p, panel[c])
    <3>1. shown \subseteq Demand
      BY <2>1
    <3>. HIDE DEF shown
    <3>. QED
      BY <1>2, <3>1 DEF Panel, SameTrips
  <2>3. Selected(p)
    BY <1>2, <2>2 DEF Selected, SameTrips
  <2>. HIDE DEF p
  <2>4. panel' = [panel EXCEPT ![c] = p]
    BY <1>6 DEF OnPanelDemand, Display, p, shown
  <2>. QED
    BY <2>1, <2>2, <2>3, <2>4 DEF msg
<1>7. CASE OnMessageUserDetail(c, msg)
  <2>. DEFINE p == [panel[c] EXCEPT !.detail = msg.user.id]
  <2>1. msg.type = "user_detail" /\ msg.user.id \in UserIds
    BY <1>1, <1>7, ReplyFields DEF OnMessageUserDetail, PublicUser
  <2>2. p \in Panel /\ SameTrips(p, panel[c])
    BY <1>2, <2>1 DEF Panel, SameTrips
  <2>3. Selected(p)
    BY <1>2, <2>2 DEF Selected, SameTrips
  <2>. HIDE DEF p
  <2>4. panel' = [panel EXCEPT ![c] = p]
    BY <1>7 DEF OnMessageUserDetail, Display, p
  <2>. QED
    BY <2>1, <2>2, <2>3, <2>4 DEF msg
<1>8. CASE /\ ~(msg.type = "AUTH_OK" /\ msg.user.role = "admin")
           /\ NoPanel(c) \/ msg.type \notin ShownInPanel
           /\ UNCHANGED panel
  BY <1>2, <1>8 DEF SameTrips, ShownInPanel, msg
<1>. QED
  BY <1>3, <1>4, <1>5, <1>6, <1>7, <1>8 DEF PanelReacts, msg

LEMMA ReceiveKeepsPanels ==
  ASSUME CInv, PInv, NEW c \in Clients, OnMessageReceived(c), PanelReacts(c)
  PROVE  PInv'
BY Paneling, PanelChanged
----------------------------------------------------------------------------
(* Clicks *)

(* A click of an administrator selects another route, or it sends one      *)
(* request that acts on no account and, when that is a schedule, edits the *)
(* map; or it ends the application, which it does only where the trips     *)
(* shown are not those of the route selected.                              *)
LEMMA OfficeClicking ==
  ASSUME CInv, PInv, NEW c \in Clients, OfficeClicks(c)
  PROVE  /\ Shows(c, "admin") /\ MayClick(c)
         /\ \E p \in Panel :
              /\ panel' = [panel EXCEPT ![c] = p] /\ Selected(p)
              /\ \/ /\ UNCHANGED <<logicVars, clientVars>> /\ Fits(p)
                    /\ p.routesData = panel[c].routesData /\ p.box # 0
                 \/ /\ Click(c) /\ UNCHANGED screen
                    /\ \E req \in ClientRequest :
                         /\ SendRequests(c, <<req>>)
                         /\ \/ /\ req.type \in {"ADD_ROUTE", "DEL_ROUTE", "get_user_detail"}
                               /\ SameTrips(p, panel[c])
                            \/ req.type = "UPDATE_SCHEDULE"
                 \/ /\ Click(c) /\ UNCHANGED toServer
                    /\ screen' = [screen EXCEPT ![c] = "terminated"]
                    /\ ~Fits(panel[c]) /\ SameTrips(p, panel[c])
<1>1. /\ panel[c] \in Panel /\ Selected(panel[c]) /\ panel = [panel EXCEPT ![c] = panel[c]]
      /\ SameTrips(panel[c], panel[c])
  BY DEF PInv, SameTrips
<1>2. ASSUME NEW name \in TypedRoutes, OnAddRouteClicked(c, name)
      PROVE  \E req \in ClientRequest : req.type = "ADD_ROUTE" /\ SendRequests(c, <<req>>)
  <2>1. [type |-> "ADD_ROUTE", name |-> name, schedule |-> EmptyText] \in ClientRequest
    BY OfficeAssumption DEF ClientRequest, Schedule
  <2>. QED
    BY <1>2, <2>1 DEF OnAddRouteClicked
<1>3. ASSUME NEW rid \in RouteIds, OnDeleteRouteClicked(c, rid)
      PROVE  \E req \in ClientRequest : req.type = "DEL_ROUTE" /\ SendRequests(c, <<req>>)
  <2>1. [type |-> "DEL_ROUTE", routeId |-> rid] \in ClientRequest
    BY DEF ClientRequest, RouteIds
  <2>. QED
    BY <1>3, <2>1 DEF OnDeleteRouteClicked
<1>4. ASSUME NEW uid \in UserIds, OnUserSelected(c, uid)
      PROVE  \E req \in ClientRequest : req.type = "get_user_detail" /\ SendRequests(c, <<req>>)
  <2>1. [type |-> "get_user_detail", userId |-> uid] \in ClientRequest
    BY DEF ClientRequest
  <2>. QED
    BY <1>4, <2>1 DEF OnUserSelected
<1>5. CASE \/ \E name \in TypedRoutes : OnAddRouteClicked(c, name)
           \/ \E rid \in RouteIds : OnDeleteRouteClicked(c, rid)
           \/ \E uid \in UserIds : OnUserSelected(c, uid)
  <2>1. OfficeClick(c) /\ UNCHANGED <<screen, panel>>
    BY <1>5 DEF OnAddRouteClicked, OnDeleteRouteClicked, OnUserSelected, panelVars
  <2>2. \E req \in ClientRequest :
          /\ SendRequests(c, <<req>>)
          /\ req.type \in {"ADD_ROUTE", "DEL_ROUTE", "get_user_detail"}
    BY <1>2, <1>3, <1>4, <1>5
  <2>. QED
    BY <1>1, <2>1, <2>2 DEF OfficeClick, Click
<1>6. CASE \E rid \in RouteIds : OnRouteSelectionChanged(c, rid)
  <2>1. PICK rid \in RouteIds : OnRouteSelectionChanged(c, rid)
    BY <1>6
  <2>. DEFINE p == [panel[c] EXCEPT !.box = rid, !.trips = panel[c].routesData[rid]]
  <2>2. rid \in DOMAIN panel[c].routesData
    BY <2>1 DEF OnRouteSelectionChanged
  <2>3. panel[c].routesData[rid] \in Seq(Trip)
    BY <1>1, <2>2 DEF Panel
  <2>4. p \in Panel /\ p.routesData = panel[c].routesData /\ p.box = rid
        /\ p.trips = panel[c].routesData[rid]
    BY <1>1, <2>3 DEF Panel
  <2>5. panel' = [panel EXCEPT ![c] = p]
    BY <2>1 DEF OnRouteSelectionChanged, Display
  <2>. HIDE DEF p
  <2>6. Selected(p) /\ Fits(p) /\ p.box # 0
    BY <2>2, <2>4 DEF Selected, Fits, RouteIds
  <2>. QED
    BY <2>1, <2>4, <2>5, <2>6 DEF OnRouteSelectionChanged
<1>7. ASSUME NEW trips \in Seq(Trip), panel[c].box \in DOMAIN panel[c].routesData,
             SendSchedule(c, trips), OfficeClick(c), UNCHANGED screen
      PROVE  \E p \in Panel :
               /\ panel' = [panel EXCEPT ![c] = p] /\ Selected(p)
               /\ Click(c) /\ UNCHANGED screen
               /\ \E req \in ClientRequest :
                    SendRequests(c, <<req>>) /\ req.type = "UPDATE_SCHEDULE"
  <2>. DEFINE p == [panel[c] EXCEPT !.routesData[panel[c].box] = trips]
              req == [type |-> "UPDATE_SCHEDULE", routeId |-> panel[c].box, schedule |-> trips]
  <2>1. p \in Panel /\ Selected(p) /\ panel[c].box \in RouteIds
    BY <1>1, <1>7, EditType
  <2>2. req \in ClientRequest
    BY <2>1 DEF ClientRequest, RouteIds
  <2>3. SendRequests(c, <<req>>) /\ panel' = [panel EXCEPT ![c] = p]
    BY <1>7 DEF SendSchedule, Display
  <2>4. req.type = "UPDATE_SCHEDULE"
    OBVIOUS
  <2>. HIDE DEF p, req
  <2>. QED
    BY <1>7, <2>1, <2>2, <2>3, <2>4 DEF OfficeClick
<1>8. CASE \E trip \in TypedTrips : OnAddTripClicked(c, trip)
  <2>1. PICK trip \in TypedTrips : OnAddTripClicked(c, trip)
    BY <1>8
  <2>2. panel[c].box \in DOMAIN panel[c].routesData /\ trip \in Trip
    BY <1>1, <2>1, OfficeAssumption DEF OnAddTripClicked, Selected
  <2>3. Append(panel[c].routesData[panel[c].box], trip) \in Seq(Trip)
    <3>1. panel[c].routesData[panel[c].box] \in Seq(Trip)
      BY <1>1, <2>2 DEF Panel
    <3>. QED
      BY <2>2, <3>1
  <2>. QED
    BY <1>7, <2>1, <2>2, <2>3 DEF OnAddTripClicked, OfficeClick, Click
<1>9. CASE \E row \in DOMAIN panel[c].trips : OnDeleteTripClicked(c, row)
  <2>1. PICK row \in DOMAIN panel[c].trips : OnDeleteTripClicked(c, row)
    BY <1>9
  <2>. DEFINE trips == panel[c].routesData[panel[c].box]
  <2>2. panel[c].box \in DOMAIN panel[c].routesData
    BY <1>1, <2>1 DEF Selected
  <2>3. trips \in Seq(Trip)
    BY <1>1, <2>2 DEF Panel
  <2>4. CASE row \in DOMAIN trips /\ SendSchedule(c, RemoveAt(trips, row)) /\ UNCHANGED screen
    <3>1. RemoveAt(trips, row) \in Seq(Trip)
      BY <2>3, <2>4, RemoveAtType
    <3>. QED
      BY <1>7, <2>1, <2>2, <2>4, <3>1 DEF OnDeleteTripClicked, OfficeClick, Click
  <2>5. CASE /\ row \notin DOMAIN trips /\ screen' = [screen EXCEPT ![c] = "terminated"]
             /\ UNCHANGED <<panel, toServer>>
    <3>1. ~Fits(panel[c])
      <4>1. panel[c].box # 0
        BY <1>1, <2>2 DEF Panel, RouteIds
      <4>. QED
        BY <2>5, <4>1 DEF Fits
    <3>. QED
      BY <1>1, <2>1, <2>5, <3>1 DEF OnDeleteTripClicked, OfficeClick, Click
  <2>. QED
    BY <2>1, <2>4, <2>5 DEF OnDeleteTripClicked
<1>. QED
  BY <1>5, <1>6, <1>8, <1>9 DEF OfficeClicks

(* What a click sends and what is wished then: where the trips shown are   *)
(* those of the route selected, a schedule sent has the trips wished for   *)
(* it as often as they are wished if the map's had.                        *)
LEMMA OfficeWishing ==
  ASSUME CInv, PInv, NEW c \in Clients, OfficeClicks(c), Fits(panel[c]),
         \A rid \in DOMAIN wished : wished[rid] \in Seq(Trip)
  PROVE  LET p == panel[c] IN
         \/ UNCHANGED <<toServer, wished>>
         \/ /\ UNCHANGED wished
            /\ \E req \in ClientRequest : SendRequests(c, <<req>>) /\ req.type # "UPDATE_SCHEDULE"
         \/ /\ p.box \in DOMAIN p.routesData
            /\ \E req \in ClientRequest, all \in Seq(Trip) :
                 /\ SendRequests(c, <<req>>)
                 /\ req.type = "UPDATE_SCHEDULE" /\ req.routeId = p.box
                 /\ Wish(p.box, all)
                 /\ Alike(p.routesData[p.box], Wished(p.box), Trip) => Alike(req.schedule, all, Trip)
<1>. DEFINE p == panel[c]
            trips == p.routesData[p.box]
            old == Wished(p.box)
            Kept(s, all) == Alike(trips, old, Trip) => Alike(s, all, Trip)
<1>1. p \in Panel /\ Selected(p) /\ old \in Seq(Trip)
  BY DEF PInv, Wished
<1>2. ASSUME NEW name \in TypedRoutes, OnAddRouteClicked(c, name)
      PROVE  \E req \in ClientRequest : SendRequests(c, <<req>>) /\ req.type # "UPDATE_SCHEDULE"
  <2>1. [type |-> "ADD_ROUTE", name |-> name, schedule |-> EmptyText] \in ClientRequest
    BY OfficeAssumption DEF ClientRequest, Schedule
  <2>. QED
    BY <1>2, <2>1 DEF OnAddRouteClicked
<1>3. ASSUME NEW rid \in RouteIds, OnDeleteRouteClicked(c, rid)
      PROVE  \E req \in ClientRequest : SendRequests(c, <<req>>) /\ req.type # "UPDATE_SCHEDULE"
  <2>1. [type |-> "DEL_ROUTE", routeId |-> rid] \in ClientRequest
    BY DEF ClientRequest, RouteIds
  <2>. QED
    BY <1>3, <2>1 DEF OnDeleteRouteClicked
<1>4. ASSUME NEW uid \in UserIds, OnUserSelected(c, uid)
      PROVE  \E req \in ClientRequest : SendRequests(c, <<req>>) /\ req.type # "UPDATE_SCHEDULE"
  <2>1. [type |-> "get_user_detail", userId |-> uid] \in ClientRequest
    BY DEF ClientRequest
  <2>. QED
    BY <1>4, <2>1 DEF OnUserSelected
<1>5. ASSUME NEW s \in Seq(Trip), NEW all \in Seq(Trip), p.box \in DOMAIN p.routesData,
             SendSchedule(c, s), Wish(p.box, all), Kept(s, all)
      PROVE  \E req \in ClientRequest, a \in Seq(Trip) :
               /\ SendRequests(c, <<req>>)
               /\ req.type = "UPDATE_SCHEDULE" /\ req.routeId = p.box
               /\ Wish(p.box, a) /\ Kept(req.schedule, a)
  <2>. DEFINE req == [type |-> "UPDATE_SCHEDULE", routeId |-> p.box, schedule |-> s]
  <2>1. p.box \in RouteIds
    BY <1>1, <1>5, EditType
  <2>2. req \in ClientRequest /\ req.type = "UPDATE_SCHEDULE" /\ req.routeId = p.box
        /\ req.schedule = s
    BY <2>1 DEF ClientRequest, RouteIds
  <2>3. SendRequests(c, <<req>>)
    BY <1>5 DEF SendSchedule
  <2>. HIDE DEF req, Kept
  <2>. QED
    BY <1>5, <2>2, <2>3
<1>6. p.box \in DOMAIN p.routesData => trips \in Seq(Trip)
  BY <1>1 DEF Panel
<1>7. ASSUME NEW trip \in TypedTrips, OnAddTripClicked(c, trip)
      PROVE  /\ p.box \in DOMAIN p.routesData
             /\ \E s \in Seq(Trip), all \in Seq(Trip) :
                  SendSchedule(c, s) /\ Wish(p.box, all) /\ Kept(s, all)
  <2>1. p.box \in DOMAIN p.routesData /\ trip \in Trip
    BY <1>1, <1>7, OfficeAssumption DEF OnAddTripClicked, Selected
  <2>2. /\ Append(trips, trip) \in Seq(Trip) /\ Append(old, trip) \in Seq(Trip)
        /\ Kept(Append(trips, trip), Append(old, trip))
    <3>1. trips \in Seq(Trip) /\ old \in Seq(Trip) /\ trip \in Trip
      BY <1>1, <1>6, <2>1
    <3>. HIDE DEF trips, old
    <3>. QED
      BY <3>1, AlikeAppend
  <2>. QED
    BY <1>7, <2>1, <2>2 DEF OnAddTripClicked
<1>8. ASSUME NEW row \in DOMAIN p.trips, OnDeleteTripClicked(c, row)
      PROVE  /\ p.box \in DOMAIN p.routesData
             /\ \E s \in Seq(Trip), all \in Seq(Trip) :
                  SendSchedule(c, s) /\ Wish(p.box, all) /\ Kept(s, all)
  <2>1. p.box \in DOMAIN p.routesData
    BY <1>1 DEF Selected
  <2>2. p.trips = trips
    <3>1. p.box # 0
      BY <1>1, <2>1 DEF Panel, RouteIds
    <3>. QED
      BY <3>1 DEF Fits
  <2>3. /\ RemoveAt(trips, row) \in Seq(Trip) /\ RemoveFirst(old, trips[row]) \in Seq(Trip)
        /\ Kept(RemoveAt(trips, row), RemoveFirst(old, trips[row]))
    <3>1. trips \in Seq(Trip) /\ old \in Seq(Trip) /\ row \in DOMAIN trips
      BY <1>1, <1>6, <2>1, <2>2
    <3>. HIDE DEF trips, old
    <3>. QED
      BY <3>1, RemoveAtType, RemoveFirstType, AlikeRemove
  <2>. QED
    BY <1>8, <2>1, <2>2, <2>3 DEF OnDeleteTripClicked
<1>9. CASE \/ \E name \in TypedRoutes : OnAddRouteClicked(c, name)
           \/ \E rid \in RouteIds : OnDeleteRouteClicked(c, rid)
           \/ \E uid \in UserIds : OnUserSelected(c, uid)
  <2>1. UNCHANGED wished
    BY <1>9 DEF OnAddRouteClicked, OnDeleteRouteClicked, OnUserSelected, panelVars
  <2>. QED
    BY <1>2, <1>3, <1>4, <1>9, <2>1
<1>10. CASE \E rid \in RouteIds : OnRouteSelectionChanged(c, rid)
  BY <1>10 DEF OnRouteSelectionChanged, clientVars
<1>11. CASE \/ \E trip \in TypedTrips : OnAddTripClicked(c, trip)
            \/ \E row \in DOMAIN p.trips : OnDeleteTripClicked(c, row)
  <2>1. /\ p.box \in DOMAIN p.routesData
        /\ \E s \in Seq(Trip), all \in Seq(Trip) :
             SendSchedule(c, s) /\ Wish(p.box, all) /\ Kept(s, all)
    BY <1>7, <1>8, <1>11
  <2>2. \E req \in ClientRequest, a \in Seq(Trip) :
          /\ SendRequests(c, <<req>>)
          /\ req.type = "UPDATE_SCHEDULE" /\ req.routeId = p.box
          /\ Wish(p.box, a) /\ Kept(req.schedule, a)
    BY <1>5, <2>1
  <2>. QED
    BY <2>1, <2>2
<1>. QED
  BY <1>9, <1>10, <1>11 DEF OfficeClicks

LEMMA OfficeClicksKeep ==
  ASSUME CInv, PInv, NEW c \in Clients, OfficeClicks(c)
  PROVE  CInv' /\ PInv'
<1>1. PInv'
  BY OfficeClicking, PanelChanged
<1>2. CASE UNCHANGED <<logicVars, clientVars>>
  BY <1>1, <1>2, UnchangedKeeps
<1>3. CASE Click(c) /\ UNCHANGED screen /\ \E req \in ClientRequest : SendRequests(c, <<req>>)
  <2>1. screen' = [screen EXCEPT ![c] = "dashboard"] /\ screen[c] = "dashboard"
    BY <1>3, OfficeClicking DEF Shows, CInv, ClientTypes
  <2>2. PICK req \in ClientRequest : SendRequests(c, <<req>>)
    BY <1>3
  <2>3. <<req>> \in Seq(ClientRequest)
    OBVIOUS
  <2>4. CInv'
    BY <1>3, <2>1, <2>2, <2>3, ClickKeeps
  <2>. QED
    BY <1>1, <2>4
<1>4. CASE Click(c) /\ UNCHANGED toServer /\ screen' = [screen EXCEPT ![c] = "terminated"]
  BY <1>1, <1>4, ClickKeeps
<1>. QED
  BY <1>2, <1>3, <1>4, OfficeClicking
=============================================================================
