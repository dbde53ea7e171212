--------------------------- MODULE AdminDashboard ---------------------------
(***************************************************************************)
(* The administrator's view, client/src/views/AdminDashboard.cpp.  It      *)
(* keeps every route's schedule in a map of its own, edits that map before *)
(* the server knows, and sends the whole schedule of the route edited.     *)
(* What is deleted is the index of a row of the list shown, which is       *)
(* rebuilt only when routes arrive or another route is selected.           *)
(***************************************************************************)
EXTENDS Client

CONSTANTS
  TypedRoutes,   \* names typed for new routes
  TypedTrips,    \* trips typed for a schedule
  BarredSlots    \* slots with a bar, which the demand list's keys are split at

(* The text of a list of trips has its brackets at least.                  *)
ASSUME OfficeAssumption ==
  /\ TypedRoutes \subseteq RouteNames \ {EmptyText}
  /\ TypedTrips \subseteq Trip /\ BarredSlots \subseteq Slots
  /\ EmptyText \notin Seq(Trip)

VARIABLES
  panel,    \* the members and lists of the newest AdminDashboard
  wished    \* history: the schedules of the first routes, as edited at the panels

panelVars == <<panel, wished>>

NoTrips == [rid \in {} |-> <<>>]

(* m_routesData (and m_routesList, whose rows are its keys), the route     *)
(* selected in m_scheduleRouteBox (0 for none), m_tripsList, m_usersList,  *)
(* m_demandList and the user in the detail tab.                            *)
EmptyPanel ==
  [routesData |-> NoTrips, box |-> 0, trips |-> <<>>,
   users |-> {}, demand |-> {}, detail |-> 0]
----------------------------------------------------------------------------
(* Messages from the server *)

Display(c, p) == panel' = [panel EXCEPT ![c] = p]

(* A text that is no JSON counts as an empty schedule.                     *)
Parsed(schedule) == IF schedule = EmptyText THEN <<>> ELSE schedule

(* Mutant: the trips are listed only if none are yet.                      *)
OnPanelRoutesKeepingTrips(c, msg) ==
  LET ids == IdsOf(msg.routes)
      data == [rid \in ids |-> Parsed((CHOOSE r \in msg.routes : r.id = rid).schedule)]
      first == CHOOSE rid \in ids : \A i \in ids : rid <= i
  IN
  /\ msg.type = "ROUTES_LIST"
  /\ Display(c, [panel[c] EXCEPT
       !.routesData = data,
       !.box = IF ids = {} THEN 0 ELSE first,
       !.trips = IF ids = {} THEN <<>> ELSE IF @ # <<>> THEN @ ELSE data[first]])

(* Mutant: the route that was selected stays so.                           *)
OnPanelRoutesKeepingBox(c, msg) ==
  LET data == [rid \in IdsOf(msg.routes) |->
                 Parsed((CHOOSE r \in msg.routes : r.id = rid).schedule)]
  IN
  /\ msg.type = "ROUTES_LIST"
  /\ Display(c, [panel[c] EXCEPT
       !.routesData = data,
       !.trips = IF panel[c].box \in DOMAIN data THEN data[panel[c].box] ELSE <<>>])

(* The box is filled anew, so that its first route is the one selected.    *)
OnPanelRoutes(c, msg) ==
  LET ids == IdsOf(msg.routes)
      data == [rid \in ids |-> Parsed((CHOOSE r \in msg.routes : r.id = rid).schedule)]
      first == CHOOSE rid \in ids : \A i \in ids : rid <= i
  IN
  /\ msg.type = "ROUTES_LIST"
  /\ Display(c, [panel[c] EXCEPT
       !.routesData = data,
       !.box = IF ids = {} THEN 0 ELSE first,
       !.trips = IF ids = {} THEN <<>> ELSE data[first]])

OnPanelUsers(c, msg) ==
  /\ msg.type = "USERS_LIST"
  /\ Display(c, [panel[c] EXCEPT !.users = IdsOf(msg.users)])

(* A key that does not split into four parts is left out.                  *)
OnPanelDemand(c, msg) ==
  /\ msg.type = "DEMAND_LIST"
  /\ Display(c, [panel[c] EXCEPT
       !.demand = {d \in msg.demand : d.key.slot \notin BarredSlots}])

OnMessageUserDetail(c, msg) ==
  /\ msg.type = "user_detail"
  /\ Display(c, [panel[c] EXCEPT !.detail = msg.user.id])

OpenPanel(c, msg) ==
  /\ msg.type = "AUTH_OK" /\ msg.user.role = "admin"
  /\ Display(c, EmptyPanel)

(* No dashboard of an administrator has been opened yet.                   *)
NoPanel(c) == "admin" \notin {dashboards[c][d] : d \in DOMAIN dashboards[c]}

ShownInPanel == {"ROUTES_LIST", "USERS_LIST", "DEMAND_LIST", "user_detail"}

PanelReacts(c) ==
  /\ LET msg == Head(toClient[c]) IN
       \/ OpenPanel(c, msg)
       \/ /\ ~NoPanel(c)
          /\ \/ OnPanelRoutes(c, msg) \/ OnPanelUsers(c, msg)
             \/ OnPanelDemand(c, msg) \/ OnMessageUserDetail(c, msg)
       \/ /\ ~(msg.type = "AUTH_OK" /\ msg.user.role = "admin")
          /\ NoPanel(c) \/ msg.type \notin ShownInPanel
          /\ UNCHANGED panel
  /\ UNCHANGED wished
----------------------------------------------------------------------------
(* Clicks *)

OfficeClick(c) == Shows(c, "admin") /\ Click(c)

OnAddRouteClicked(c, name) ==
  /\ OfficeClick(c) /\ UNCHANGED <<screen, panelVars>>
  /\ SendRequests(c, <<[type |-> "ADD_ROUTE", name |-> name, schedule |-> EmptyText]>>)

OnDeleteRouteClicked(c, rid) ==
  /\ OfficeClick(c) /\ UNCHANGED <<screen, panelVars>>
  /\ rid \in DOMAIN panel[c].routesData
  /\ SendRequests(c, <<[type |-> "DEL_ROUTE", routeId |-> rid]>>)

OnUserSelected(c, uid) ==
  /\ OfficeClick(c) /\ UNCHANGED <<screen, panelVars>>
  /\ uid \in panel[c].users
  /\ SendRequests(c, <<[type |-> "get_user_detail", userId |-> uid]>>)

(* Another route is selected; nothing is sent.                             *)
OnRouteSelectionChanged(c, rid) ==
  /\ Shows(c, "admin") /\ MayClick(c)
  /\ rid \in DOMAIN panel[c].routesData \ {panel[c].box}
  /\ Display(c, [panel[c] EXCEPT !.box = rid, !.trips = panel[c].routesData[rid]])
  /\ UNCHANGED <<logicVars, clientVars, wished>>

Wish(rid, trips) ==
  wished' = IF rid \in DOMAIN wished THEN [wished EXCEPT ![rid] = trips] ELSE wished

Wished(rid) == IF rid \in DOMAIN wished THEN wished[rid] ELSE <<>>

(* The map is edited, the list shown is not, and the whole is sent.        *)
SendSchedule(c, trips) ==
  /\ Display(c, [panel[c] EXCEPT !.routesData[panel[c].box] = trips])
  /\ SendRequests(c, <<[type |-> "UPDATE_SCHEDULE", routeId |-> panel[c].box,
                        schedule |-> trips]>>)

(* Mutant: the trip is sent alone.                                         *)
OnAddTripSendingOne(c, trip) ==
  /\ OfficeClick(c) /\ UNCHANGED screen
  /\ panel[c].box # 0
  /\ SendSchedule(c, <<trip>>)
  /\ Wish(panel[c].box, Append(Wished(panel[c].box), trip))

OnAddTripClicked(c, trip) ==
  /\ OfficeClick(c) /\ UNCHANGED screen
  /\ panel[c].box # 0
  /\ SendSchedule(c, Append(panel[c].routesData[panel[c].box], trip))
  /\ Wish(panel[c].box, Append(Wished(panel[c].box), trip))

(* An index past the end makes erase throw out of the slot, which ends the *)
(* application.                                                            *)
OnDeleteTripClicked(c, row) ==
  LET trips == panel[c].routesData[panel[c].box] IN
  /\ OfficeClick(c)
  /\ row \in DOMAIN panel[c].trips
  /\ \/ /\ row \in DOMAIN trips
        /\ SendSchedule(c, RemoveAt(trips, row))
        /\ UNCHANGED screen
     \/ /\ row \notin DOMAIN trips
        /\ screen' = [screen EXCEPT ![c] = "terminated"]
        /\ UNCHANGED <<panel, toServer>>
  /\ Wish(panel[c].box, RemoveFirst(Wished(panel[c].box), panel[c].trips[row]))

OfficeClicks(c) ==
  \/ \E name \in TypedRoutes : OnAddRouteClicked(c, name)
  \/ \E rid \in RouteIds : OnDeleteRouteClicked(c, rid) \/ OnRouteSelectionChanged(c, rid)
  \/ \E uid \in UserIds : OnUserSelected(c, uid)
  \/ \E trip \in TypedTrips : OnAddTripClicked(c, trip)
  \/ \E row \in DOMAIN panel[c].trips : OnDeleteTripClicked(c, row)
----------------------------------------------------------------------------
NothingWished == [rid \in DOMAIN SeedRoutes |-> GenerateDefaultSchedule(SeedRoutes[rid])]

PanelInit ==
  /\ panel = [c \in Clients |-> EmptyPanel]
  /\ wished = NothingWished
----------------------------------------------------------------------------
(* Properties *)

(* The types of the panel, and how its parts go together: the route        *)
(* selected is one of the map, so that a click edits an existing entry.    *)
PanelTypeOK ==
  \A c \in Clients :
    /\ DOMAIN panel[c].routesData \subseteq RouteIds
    /\ \/ panel[c].box \in DOMAIN panel[c].routesData
       \/ panel[c].box = 0 /\ panel[c].routesData = NoTrips
    /\ panel[c].users \subseteq UserIds /\ panel[c].detail \in UserIds \cup {0}

(* When nothing is under way on a session that is somebody's, the panel    *)
(* has the routes and schedules on file and shows the selected route's:    *)
(* edits made before the answers came, and deletions that were refused,    *)
(* have left no trace.                                                     *)
SettledPanelCurrent ==
  \A c \in Clients : Settled(c, "admin") /\ sessionUserId[c] # 0 =>
    LET p == panel[c] IN
    /\ p.routesData = [rid \in IdsOf(routes) |->
                         Parsed((CHOOSE r \in routes : r.id = rid).schedule)]
    /\ p.trips = (IF p.box = 0 THEN <<>> ELSE p.routesData[p.box])

(* No click ends the application.                                          *)
ClientSurvives == \A c \in Clients : Runs(c)
=============================================================================
