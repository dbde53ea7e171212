----------------------------- MODULE BusSystem -----------------------------
(***************************************************************************)
(* The whole system: the server with its tables, and clients whose users   *)
(* are riders or administrators, one after the other at the same client if *)
(* they like.  Connections break, and the server ends (on Ctrl+C, or by an *)
(* exception that leaves io_context::run) and is started again with empty  *)
(* tables, whose ids are given out from 1 again; the clients, with all     *)
(* their dashboards, live on.                                              *)
(***************************************************************************)
EXTENDS UserDashboard, AdminDashboard

CONSTANT MaxFaults   \* bound on the connections broken and the ends of the server

ASSUME FaultsAssumption == MaxFaults \in Nat

VARIABLE faults      \* faults so far

busVars == <<logicVars, clientVars, viewVars, panelVars, faults>>

dashboardVars == <<viewVars, panelVars>>
----------------------------------------------------------------------------
(* Faults.  A client notices later; what it has been sent it may still     *)
(* read before that.                                                       *)

Fault == faults < MaxFaults /\ faults' = faults + 1

ConnectionLost(c) ==
  /\ Fault /\ session[c]
  /\ session' = [session EXCEPT ![c] = FALSE]
  /\ toServer' = [toServer EXCEPT ![c] = <<>>]
  /\ UNCHANGED <<logicVars, serverUp, socket, toClient, screen, dashboards, clicks,
                 dashboardVars>>

(* Nothing is persisted: what the next start constructs, as in Init.       *)
Reconstructed ==
  /\ users' = {[id |-> 1, username |-> AdminName,
                passwordHash |-> HashPassword(AdminPassword), role |-> "admin"]}
  /\ routes' = {NewRoute(i, SeedRoutes[i], EmptyText) : i \in DOMAIN SeedRoutes}
  /\ subscriptions' = [p \in UserIds \X RouteIds |-> 0]
  /\ tickets' = {}
  /\ votes' = [uid \in UserIds |-> <<>>]
  /\ nextUserId' = 2 /\ nextRouteId' = Len(SeedRoutes) + 1 /\ nextTicketId' = 1
  /\ sessionUserId' = [s \in Sessions |-> 0] /\ sent' = <<>>

(* What was wanted of the old tables counts no more.                       *)
ServerStops ==
  /\ Fault /\ serverUp
  /\ serverUp' = FALSE
  /\ session' = [c \in Clients |-> FALSE]
  /\ toServer' = [c \in Clients |-> <<>>]
  /\ Reconstructed
  /\ wanted' = NothingWanted /\ wished' = NothingWished
  /\ UNCHANGED <<socket, toClient, screen, dashboards, clicks, view, panel>>

ServerStarts ==
  /\ ~serverUp /\ serverUp' = TRUE
  /\ UNCHANGED <<logicVars, session, socket, toServer, toClient, screen, dashboards, clicks,
                 dashboardVars, faults>>
----------------------------------------------------------------------------
(* The composition *)

Connection(c) ==
  /\ OnConnected(c) \/ OnConnectionRefused(c) \/ OnDisconnected(c)
  /\ UNCHANGED <<dashboardVars, faults>>

Served(c) == Serve(c) /\ UNCHANGED <<dashboardVars, faults>>

Received(c) ==
  OnMessageReceived(c) /\ ViewReacts(c) /\ PanelReacts(c) /\ UNCHANGED faults

Clicked(c) ==
  /\ \/ WindowClicks(c) /\ UNCHANGED dashboardVars
     \/ RiderClicks(c) /\ UNCHANGED panelVars
     \/ OfficeClicks(c) /\ UNCHANGED viewVars
  /\ UNCHANGED faults

BusInit == ClientInit /\ ViewInit /\ PanelInit /\ faults = 0

BusNext ==
  \/ \E c \in Clients : \/ Connection(c) \/ Served(c) \/ Received(c) \/ Clicked(c)
                        \/ ConnectionLost(c)
  \/ ServerStops \/ ServerStarts
  \/ OthersAct /\ UNCHANGED <<dashboardVars, faults>>

(* The io_context and Qt's event loop handle what has arrived, a socket    *)
(* that is connecting or has lost its other end says so, and somebody      *)
(* starts the server again.  Nobody has to click.                          *)
Fairness ==
  /\ \A c \in Clients : /\ WF_busVars(Connection(c))
                        /\ WF_busVars(Served(c))
                        /\ WF_busVars(Received(c))
  /\ WF_busVars(ServerStarts)

BusSpec == BusInit /\ [][BusNext]_busVars /\ Fairness
----------------------------------------------------------------------------
(* Properties *)

(* The traffic dies down: an OK makes all dashboards of the client ask for *)
(* everything, hidden ones too, which on a session of another role or of   *)
(* nobody provokes errors, and errors provoke nothing.                     *)
Settles == \A c \in Clients : []<>(Idle(c) \/ ~Runs(c))

(* A connection that breaks is followed by another one.                    *)
Mended(c) == (socket[c] = "connected" /\ ~session[c]) ~> (session[c] \/ ~Runs(c))

(* As long as the server does not end, a client whose connection broke is  *)
(* connected again.                                                        *)
ReconnectsWhileUp == []serverUp => \A c \in Clients : Mended(c)

(* A client that says "Reconnecting...", and asks its user to wait and try *)
(* again, is connected again at some time, as the server is up again.      *)
Reconnects == \A c \in Clients : Mended(c)

(* What changes an account's tickets, requests or subscriptions at the     *)
(* wish of a client was wished on a dashboard that bears the account's     *)
(* name: dashboards that outlive their session, or the server that gave    *)
(* their user's id, never act for another account that has the id now.     *)
ActsAsShown(c, uid) ==
  /\ sent' # <<>> /\ sent'[1].to = c
  /\ \/ RowsOf(uid, tickets') # RowsOf(uid, tickets)
     \/ votes'[uid] # votes[uid]
     \/ SubscribedRouteIds(uid)' \ SubscribedRouteIds(uid) # {}
  => \E u \in users : u.id = uid /\ u.username = view[c].username

NamedDashboardsOnly ==
  [][\A c \in Clients, uid \in UserIds : ActsAsShown(c, uid)]_busVars
=============================================================================
