--------------------------- MODULE UserDashboard ---------------------------
(***************************************************************************)
(* The riders' view, client/src/views/UserDashboard.cpp: five lists, the   *)
(* cache of requests that each submission sends as a whole, and what they  *)
(* become when messages arrive and buttons are clicked.  Of the dashboards *)
(* a client has opened for riders only the newest can be seen again; its   *)
(* lists are the ones kept here.                                           *)
(***************************************************************************)
EXTENDS Client

VARIABLES
  view,     \* the members and lists of the newest UserDashboard
  wanted    \* history: what has been asked for on the dashboards of each name

viewVars == <<view, wanted>>

(* m_routesList (and m_reqRouteBox), m_subsList, m_ticketsList,            *)
(* m_myRequestsList and m_myVotes.  A row of m_subsList is the text of a   *)
(* row of m_routesList, which stands for its route here.                   *)
EmptyView(uid, username) ==
  [userId |-> uid, username |-> username, routes |-> {}, subs |-> {}, tickets |-> {},
   requests |-> <<>>, myVotes |-> <<>>]
----------------------------------------------------------------------------
(* Messages from the server *)

Show(c, v) == view' = [view EXCEPT ![c] = v]

(* Mutant: the dashboard of the previous login is used again.              *)
OpenReusing(c, msg) ==
  /\ msg.type = "AUTH_OK" /\ msg.user.role # "admin"
  /\ Show(c, [view[c] EXCEPT !.userId = msg.user.id])

(* Mutant: the user's id is not kept.                                      *)
OpenForNobody(c, msg) ==
  /\ msg.type = "AUTH_OK" /\ msg.user.role # "admin"
  /\ Show(c, EmptyView(0, msg.user.username))

Open(c, msg) ==
  /\ msg.type = "AUTH_OK" /\ msg.user.role # "admin"
  /\ Show(c, EmptyView(msg.user.id, msg.user.username))

OnRoutesList(c, msg) ==
  /\ msg.type = "ROUTES_LIST"
  /\ Show(c, [view[c] EXCEPT !.routes = IdsOf(msg.routes)])

(* Only subscriptions to routes already in the list are shown.             *)
OnSubsList(c, msg) ==
  /\ msg.type = "SUBS_LIST"
  /\ Show(c, [view[c] EXCEPT !.subs = view[c].routes \cap msg.subs])

OnTickets(c, msg) ==
  /\ msg.type = "TICKETS"
  /\ Show(c, [view[c] EXCEPT !.tickets = msg.tickets])

OnVotesList(c, msg) ==
  /\ msg.type = "VOTES_LIST"
  /\ Show(c, [view[c] EXCEPT !.requests = msg.votes, !.myVotes = msg.votes])

(* No dashboard for a rider has been opened yet.                           *)
NoView(c) == "user" \notin {dashboards[c][d] : d \in DOMAIN dashboards[c]}

ShownInView == {"ROUTES_LIST", "SUBS_LIST", "TICKETS", "VOTES_LIST"}

ViewReacts(c) ==
  /\ LET msg == Head(toClient[c]) IN
       \/ Open(c, msg)
       \/ /\ ~NoView(c)
          /\ OnRoutesList(c, msg) \/ OnSubsList(c, msg) \/ OnTickets(c, msg) \/ OnVotesList(c, msg)
       \/ /\ ~(msg.type = "AUTH_OK" /\ msg.user.role # "admin")
          /\ NoView(c) \/ msg.type \notin ShownInView
          /\ UNCHANGED view
  /\ UNCHANGED wanted
----------------------------------------------------------------------------
(* Clicks *)

RiderClick(c) == Shows(c, "user") /\ Click(c) /\ UNCHANGED screen

Wants(c, field, value) ==
  wanted' = [wanted EXCEPT ![view[c].username] = [@ EXCEPT ![field] = value]]

OnSubscribeClicked(c, rid) ==
  /\ RiderClick(c) /\ rid \in view[c].routes
  /\ SendRequests(c, <<[type |-> "SUBSCRIBE", routeId |-> rid]>>)
  /\ Wants(c, "routes", wanted[view[c].username].routes \cup {rid})
  /\ UNCHANGED view

(* The rows of m_subsList carry no Qt::UserRole data, so that toInt of the *)
(* selected row's is 0 whichever row it is.                                *)
OnUnsubscribeClicked(c, rid) ==
  /\ RiderClick(c) /\ rid \in view[c].subs
  /\ SendRequests(c, <<[type |-> "UNSUBSCRIBE", routeId |-> 0]>>)
  /\ Wants(c, "routes", wanted[view[c].username].routes \ {rid})
  /\ UNCHANGED view

(* Mutant: the button's signal is connected twice.                         *)
OnBookRideClickedTwice(c, rid) ==
  /\ RiderClick(c) /\ rid \in view[c].routes
  /\ SendRequests(c, <<[type |-> "RIDE", routeId |-> rid], [type |-> "RIDE", routeId |-> rid]>>)
  /\ Wants(c, "rides", wanted[view[c].username].rides + 1)
  /\ UNCHANGED view

OnBookRideClicked(c, rid) ==
  /\ RiderClick(c) /\ rid \in view[c].routes
  /\ SendRequests(c, <<[type |-> "RIDE", routeId |-> rid]>>)
  /\ Wants(c, "rides", wanted[view[c].username].rides + 1)
  /\ UNCHANGED view

(* The whole list of this dashboard is sent, in place of the one on file.  *)
SendVotes(c, vs) ==
  /\ SendRequests(c, <<[type |-> "SET_VOTES", votes |-> vs]>>)
  /\ Show(c, [view[c] EXCEPT !.myVotes = vs])

(* Mutant: only the new request is sent.                                   *)
OnAddRequestSendingOne(c, vote) ==
  /\ RiderClick(c) /\ vote.routeId \in view[c].routes
  /\ SendVotes(c, <<vote>>)
  /\ Wants(c, "votes", Append(wanted[view[c].username].votes, vote))

OnAddRequestClicked(c, vote) ==
  /\ RiderClick(c) /\ vote.routeId \in view[c].routes
  /\ SendVotes(c, Append(view[c].myVotes, vote))
  /\ Wants(c, "votes", Append(wanted[view[c].username].votes, vote))

(* The row is one of m_myRequestsList, the entry erased one of m_myVotes.  *)
OnDeleteRequestClicked(c, row) ==
  /\ RiderClick(c)
  /\ row \in DOMAIN view[c].requests /\ row <= Len(view[c].myVotes)
  /\ SendVotes(c, RemoveAt(view[c].myVotes, row))
  /\ Wants(c, "votes", RemoveFirst(wanted[view[c].username].votes, view[c].requests[row]))

RiderClicks(c) ==
  \/ \E rid \in RouteIds : \/ OnSubscribeClicked(c, rid)
                           \/ OnUnsubscribeClicked(c, rid)
                           \/ OnBookRideClicked(c, rid)
                           \/ \E slot \in Slots :
                                OnAddRequestClicked(c, [routeId |-> rid, slot |-> slot])
  \/ \E row \in 1..MaxClicks : OnDeleteRequestClicked(c, row)
----------------------------------------------------------------------------
(* Riders' clients whose connections stay up *)

NothingWanted == [name \in UserNames |-> [votes |-> <<>>, routes |-> {}, rides |-> 0]]

ViewInit ==
  /\ view = [c \in Clients |-> EmptyView(0, EmptyText)]
  /\ wanted = NothingWanted

RiderInit == ClientInit /\ ViewInit

RiderNext ==
  \/ \E c \in Clients :
       \/ (OnConnected(c) \/ Serve(c) \/ WindowClicks(c)) /\ UNCHANGED viewVars
       \/ OnMessageReceived(c) /\ ViewReacts(c)
       \/ RiderClicks(c)
  \/ OthersAct /\ UNCHANGED viewVars

riderVars == <<logicVars, clientVars, viewVars>>

RiderSpec == RiderInit /\ [][RiderNext]_riderVars
----------------------------------------------------------------------------
(* Properties *)

(* The types of the view and of what is shown in it; there is a view from  *)
(* the first login of a rider on.                                          *)
ViewTypeOK ==
  \A c \in Clients :
    /\ view[c].userId \in UserIds \cup {0} /\ (view[c].userId = 0 <=> NoView(c))
    /\ view[c].subs \subseteq RouteIds /\ view[c].routes \subseteq RouteIds
    /\ view[c].tickets \subseteq Ticket
    /\ \A i \in DOMAIN view[c].myVotes : view[c].myVotes[i] \in RouteVote

(* When nothing is under way on a session that is somebody's, the rider's  *)
(* dashboard is that user's and shows the tickets and requests on file,    *)
(* its cache of the requests is the list shown, and the subscriptions      *)
(* shown are the user's, up to routes closed since: everything that        *)
(* changes them is answered with OK, and OK refreshes.                     *)
SettledViewsCurrent ==
  \A c \in Clients : Settled(c, "user") /\ sessionUserId[c] # 0 =>
    LET v == view[c] IN
    /\ v.userId = sessionUserId[c]
    /\ v.tickets = RowsOf(v.userId, tickets)
    /\ v.myVotes = votes[v.userId] /\ v.requests = v.myVotes
    /\ v.subs \cap IdsOf(routes) = SubscribedRouteIds(v.userId)

(* At every moment the tickets shown, and the balance computed from them,  *)
(* are of the user the dashboard was opened for, although dashboards of    *)
(* other accounts live on in the client after a logout.                    *)
ShowsOwnTickets ==
  \A c \in Clients : Shows(c, "user") =>
    \A t \in view[c].tickets : t.userId = view[c].userId

(* The slots a rider asked for are the ones on file once all is answered,  *)
(* each as often as it was asked for.                                      *)
RequestsKept ==
  \A c \in Clients : Settled(c, "user") =>
    \A rid \in RouteIds, slot \in Slots :
      LET Count(vs) == Cardinality({i \in DOMAIN vs : vs[i] = [routeId |-> rid, slot |-> slot]})
      IN  Count(votes[view[c].userId]) = Count(wanted[view[c].username].votes)

(* A rider is subscribed to no route they have asked to leave.             *)
UnsubscribeObeyed ==
  \A c \in Clients : Settled(c, "user") =>
    SubscribedRouteIds(view[c].userId) \subseteq wanted[view[c].username].routes

(* Nobody is charged for more rides than were booked on dashboards of      *)
(* their name, whatever is lost on the way or done by others, and although *)
(* a server started anew gives out the same ids to other accounts.         *)
ChargedAsBooked ==
  \A u \in users : Cardinality(RowsOf(u.id, tickets)) <= wanted[u.username].rides
=============================================================================
