-------------------------- MODULE BusSystem_proofs --------------------------
(***************************************************************************)
(* Proofs about the whole system: any number of clients, accounts, routes, *)
(* clicks and faults, unless a theorem says otherwise.                     *)
(***************************************************************************)
EXTENDS Losses, Dashboards_proofs
----------------------------------------------------------------------------
(* What holds of all clients, patient or not *)

BusInv == CInv /\ VInv /\ OInv /\ PInv

LEMMA BusInitInv == BusInit => BusInv
BY InitCInv, InitVInv, InitOInv, InitPInv DEF BusInit, BusInv

(* The tables that the next start of the server constructs.                *)
LEMMA Rebuilt == Reconstructed => IInv'
<1>1. (Init => IInv)'
  BY InitIInv, PTL
<1>2. Reconstructed => Init'
  BY DEF Reconstructed, Init, StoreInit
<1>. QED
  BY <1>1, <1>2

LEMMA ConnectionLostKeeps ==
  ASSUME BusInv, NEW c \in Clients, ConnectionLost(c)
  PROVE  BusInv'
<1>. USE DEF BusInv
<1>1. UNCHANGED <<logicVars, serverUp, socket, toClient, screen, dashboards, clicks, view, panel,
                  wanted>>
  BY DEF ConnectionLost, dashboardVars, viewVars, panelVars
<1>2. session' = [session EXCEPT ![c] = FALSE] /\ toServer' = [toServer EXCEPT ![c] = <<>>]
  BY DEF ConnectionLost
<1>3. CInv'
  <2>1. IInv'
    BY <1>1, LogicKept DEF CInv
  <2>. QED
    BY <1>1, <1>2, <2>1 DEF CInv, ClientTypes, Linked
<1>4. VInv'
  BY <1>1, ViewsKept DEF VInv
<1>5. PInv'
  BY <1>1, PanelsKept
<1>6. OInv'
  <2>1. ASSUME NEW d \in Clients PROVE Owned(d)'
    <3>1. session'[d] => session[d]
      BY <1>2 DEF CInv, ClientTypes
    <3>2. SameEnd(d) /\ UNCHANGED <<users, sessionUserId>>
      BY <1>1 DEF SameEnd, logicVars, store
    <3>. QED
      BY <3>1, <3>2, OwnedElsewhere DEF OInv
  <2>. QED
    BY <2>1 DEF OInv
<1>. QED
  BY <1>3, <1>4, <1>5, <1>6

LEMMA ServerStopsKeeps ==
  ASSUME BusInv, ServerStops
  PROVE  BusInv'
<1>. USE DEF BusInv
<1>1. UNCHANGED <<socket, toClient, screen, dashboards, clicks, view, panel>>
  BY DEF ServerStops
<1>2. /\ serverUp' = FALSE /\ session' = [c \in Clients |-> FALSE]
      /\ toServer' = [c \in Clients |-> <<>>] /\ wanted' = NothingWanted
  BY DEF ServerStops
<1>3. CInv'
  <2>1. IInv'
    BY Rebuilt DEF ServerStops
  <2>2. ClientTypes'
    <3>1. toServer' \in [Clients -> Seq(ClientRequest)]
      BY <1>2
    <3>2. session' \in [Clients -> BOOLEAN] /\ serverUp' \in BOOLEAN
      BY <1>2
    <3>. QED
      BY <1>1, <3>1, <3>2 DEF CInv, ClientTypes
  <2>3. ASSUME NEW c \in Clients PROVE Linked(c)'
    BY <1>1, <1>2 DEF CInv, Linked
  <2>. QED
    BY <2>1, <2>2, <2>3 DEF CInv
<1>4. VInv'
  <2>1. NothingWanted \in [UserNames -> Wanted]
    BY DEF NothingWanted, Wanted
  <2>. QED
    BY <1>1, <1>2, <2>1, ViewsKept
<1>5. PInv'
  BY <1>1, PanelsKept
<1>6. OInv'
  BY <1>1, <1>2, OwnedElsewhere DEF OInv, SameEnd
<1>. QED
  BY <1>3, <1>4, <1>5, <1>6

(* A step that changes at most whether the server runs, and that only      *)
(* where no session is.                                                    *)
LEMMA RestKeeps ==
  ASSUME BusInv, serverUp' = TRUE \/ UNCHANGED serverUp,
         UNCHANGED <<logicVars, session, socket, toServer, toClient, screen, dashboards, clicks,
                     dashboardVars>>
  PROVE  BusInv'
<1>. USE DEF BusInv
<1>1. UNCHANGED <<view, wanted, panel>>
  BY DEF dashboardVars, viewVars, panelVars
<1>2. CInv'
  <2>1. IInv'
    BY LogicKept DEF CInv
  <2>. QED
    BY <2>1 DEF CInv, ClientTypes, Linked
<1>3. VInv'
  BY <1>1, ViewsKept DEF VInv
<1>4. OInv'
  BY <1>1, IdleKeepsOwned DEF SameEnd, logicVars, store
<1>. QED
  BY <1>1, <1>2, <1>3, <1>4, PanelsKept

LEMMA BusNextInv == BusInv /\ [BusNext]_busVars => BusInv'
<1>. SUFFICES ASSUME BusInv, [BusNext]_busVars PROVE BusInv'
  OBVIOUS
<1>. USE DEF BusInv
<1>1. ASSUME NEW c \in Clients, Connection(c) PROVE BusInv'
  <2>1. UNCHANGED <<view, wanted, panel, dashboards>>
    BY <1>1 DEF Connection, dashboardVars, viewVars, panelVars, OnConnected, OnConnectionRefused,
      OnDisconnected
  <2>. QED
    BY <1>1, <2>1, ConnectionKeeps, ViewsKept, ConnectionKeepsOwned, PanelsKept
    DEF Connection, VInv
<1>2. ASSUME NEW c \in Clients, Served(c) PROVE BusInv'
  <2>1. UNCHANGED <<view, wanted, panel, dashboards>>
    BY <1>2 DEF Served, dashboardVars, viewVars, panelVars, Serve
  <2>. QED
    BY <1>2, <2>1, ServeKeeps, ViewsKept, ServeKeepsOwned, PanelsKept DEF Served, VInv
<1>3. ASSUME NEW c \in Clients, Received(c) PROVE BusInv'
  BY <1>3, ReceiveKeeps, ReceiveKeepsViews, ReceiveKeepsOwned, ReceiveKeepsPanels DEF Received
<1>4. ASSUME NEW c \in Clients, WindowClicks(c), UNCHANGED dashboardVars PROVE BusInv'
  <2>1. UNCHANGED <<view, wanted, panel>>
    BY <1>4 DEF dashboardVars, viewVars, panelVars
  <2>2. UNCHANGED <<logicVars, network, toClient, dashboards>>
    BY <1>4, WindowClicking DEF Click
  <2>3. OInv'
    BY <2>1, <2>2, IdleKeepsOwned DEF SameEnd, logicVars, store, network
  <2>. QED
    BY <1>4, <2>1, <2>2, <2>3, WindowClicksKeep, ViewsKept, PanelsKept DEF VInv
<1>5. ASSUME NEW c \in Clients, RiderClicks(c), UNCHANGED panelVars PROVE BusInv'
  BY <1>5, RiderClicksKeep, RiderClicksKeepOwned, PanelsKept DEF panelVars
<1>6. ASSUME NEW c \in Clients, OfficeClicks(c), UNCHANGED viewVars PROVE BusInv'
  <2>1. UNCHANGED <<logicVars, network, toClient, dashboards, view, wanted>>
    BY <1>6, OfficeClicking DEF Click, clientVars, viewVars
  <2>2. OInv'
    BY <2>1, IdleKeepsOwned DEF SameEnd, logicVars, store, network
  <2>. QED
    BY <1>6, <2>1, <2>2, OfficeClicksKeep, ViewsKept DEF VInv
<1>7. ASSUME OthersAct, UNCHANGED dashboardVars PROVE BusInv'
  <2>1. UNCHANGED <<view, wanted, panel, dashboards>>
    BY <1>7 DEF OthersAct, clientVars, dashboardVars, viewVars, panelVars
  <2>. QED
    BY <1>7, <2>1, OthersKeep, ViewsKept, OthersKeepOwned, PanelsKept DEF VInv
<1>8. ASSUME ServerStarts \/ UNCHANGED busVars PROVE BusInv'
  BY <1>8, RestKeeps DEF ServerStarts, busVars, clientVars, network, dashboardVars
<1>. QED
  BY <1>1, <1>2, <1>3, <1>4, <1>5, <1>6, <1>7, <1>8, ConnectionLostKeeps, ServerStopsKeeps
  DEF BusNext, Clicked

(* The invariant holds throughout every behaviour of the system, faults    *)
(* and all.                                                                *)
THEOREM BusInvariance == BusSpec => []BusInv
BY BusInitInv, BusNextInv, PTL DEF BusSpec

(* The tables stay consistent in the composition too, where the requests   *)
(* are those of real clients and the server is started again with empty    *)
(* tables and ids from 1 (DataStore.cpp).                                  *)
THEOREM StoreAlwaysConsistent ==
  BusSpec => [](TypeOK /\ SubscriptionsLive /\ AccountsUnambiguous)
<1>1. BusInv => TypeOK /\ SubscriptionsLive /\ AccountsUnambiguous
  BY DEF BusInv, CInv, IInv
<1>. QED
  BY <1>1, BusInvariance, PTL

(* Over broken connections and restarts of the server, what clients send   *)
(* is known to it and what is under way goes with the connection's state   *)
(* (NetworkManager.cpp, LoginView.cpp, Session.cpp).                       *)
THEOREM ClientsTypeCorrect == BusSpec => []ClientTypeOK
BY BusInvariance, ClientTypesOK, PTL DEF BusInv

(* The route selected in AdminDashboard.cpp is always one of its map, so   *)
(* that onAddTrip and onDeleteTrip edit an entry that exists.              *)
THEOREM PanelsTypeCorrect == BusSpec => []PanelTypeOK
BY BusInvariance, PanelTypesOK, PTL DEF BusInv

(* The lists of UserDashboard.cpp keep their types.                        *)
THEOREM ViewsTypeCorrect == BusSpec => []ViewTypeOK
BY BusInvariance, ViewTypesOK, PTL DEF BusInv

(* No dashboard shown has tickets of another account, whoever has used the *)
(* client before, and although after a restart the server gives the same   *)
(* ids to other accounts.                                                  *)
THEOREM OwnTicketsAlwaysShown == BusSpec => []ShowsOwnTickets
BY BusInvariance, OwnTicketsShown, PTL DEF BusInv
----------------------------------------------------------------------------
(* What patient users can count on *)

(* What is sent at the wish of a user who has waited for the answers is    *)
(* under way alone, from the dashboard shown.                              *)
Alone(c) ==
  \A i \in DOMAIN toServer[c] :
    toServer[c][i].type \in Acts \cup {"UPDATE_SCHEDULE"} =>
      /\ Len(toServer[c]) = 1 /\ toClient[c] = <<>> /\ dashboards[c] # <<>>
      /\ Last(dashboards[c]) = IF toServer[c][i].type = "UPDATE_SCHEDULE" THEN "admin" ELSE "user"

AInv == \A c \in Clients : Alone(c)

(* What happens at one client, or at none, leaves the others' alone.       *)
Same(c) ==
  UNCHANGED <<session[c], socket[c], toServer[c], toClient[c], screen[c], dashboards[c],
              clicks[c], sessionUserId[c], view[c], panel[c]>>

LEMMA Elsewhere ==
  ASSUME BusInv, NEW c \in Clients, NEW d \in Clients, d # c,
         Connection(c) \/ Served(c) \/ Received(c) \/ Clicked(c) \/ ConnectionLost(c)
  PROVE  Same(d)
<1>. USE DEF BusInv
<1>0. /\ c \in Sessions /\ d \in Sessions /\ DOMAIN sessionUserId = Sessions
      /\ \A f \in {session, socket, toServer, toClient, screen, dashboards, clicks, view, panel} :
           DOMAIN f = Clients
  BY ClientAssumption DEF CInv, IInv, TypeOK, ClientTypes, VInv, PInv
<1>1. CASE Connection(c)
  BY <1>0, <1>1 DEF Connection, Same, OnConnected, Accept, OnConnectionRefused, OnDisconnected,
    logicVars, dashboardVars, viewVars, panelVars
<1>2. CASE Served(c)
  <2>1. sessionUserId'[d] = sessionUserId[d] /\ toClient'[d] = toClient[d]
    BY <1>0, <1>2, Serving DEF Served, Answered
  <2>. QED
    BY <1>0, <1>2, <2>1 DEF Served, Same, Serve, network, dashboardVars, viewVars, panelVars
<1>3. CASE Received(c)
  <2>1. toServer'[d] = toServer[d] /\ dashboards'[d] = dashboards[d] /\ screen'[d] = screen[d]
    <3>1. \A reqs \in Seq(Question) : reqs \in Seq(ClientRequest)
      BY RefreshType
    <3>2. UNCHANGED toServer \/ \E reqs \in Seq(ClientRequest) : SendRequests(c, reqs)
      BY <1>3, <3>1, Reading DEF Received
    <3>3. toServer'[d] = toServer[d]
      BY <3>2, Sending
    <3>. QED
      BY <1>0, <1>3, <3>3, Reading DEF Received
  <2>2. panel'[d] = panel[d]
    BY <1>3, Paneling, PanelChanged DEF Received
  <2>3. view'[d] = view[d]
    BY <1>0, <1>3, Viewing DEF Received
  <2>. QED
    BY <1>0, <1>3, <2>1, <2>2, <2>3 DEF Received, OnMessageReceived, Same, logicVars, network
<1>4. CASE Clicked(c)
  <2>1. CASE WindowClicks(c) /\ UNCHANGED dashboardVars
    <3>1. \A req \in ClientRequest : <<req>> \in Seq(ClientRequest)
      OBVIOUS
    <3>2. \A reqs \in Seq(Question) : reqs \in Seq(ClientRequest)
      BY RefreshType
    <3>3. toServer'[d] = toServer[d]
      BY <2>1, <3>1, <3>2, WindowClicking, Sending
    <3>. QED
      BY <1>0, <2>1, <3>3, WindowClicking
      DEF Same, Click, logicVars, network, dashboardVars, viewVars, panelVars
  <2>2. CASE RiderClicks(c) /\ UNCHANGED panelVars
    <3>1. \A req \in ClientRequest : <<req>> \in Seq(ClientRequest)
      OBVIOUS
    <3>2. toServer'[d] = toServer[d]
      BY <2>2, <3>1, RiderClicking, Sending
    <3>3. view'[d] = view[d]
      BY <1>0, <2>2, RiderClicking
    <3>. QED
      BY <1>0, <2>2, <3>2, <3>3, RiderClicking DEF Same, Click, logicVars, network, panelVars
  <2>3. CASE OfficeClicks(c) /\ UNCHANGED viewVars
    <3>1. \A req \in ClientRequest : <<req>> \in Seq(ClientRequest)
      OBVIOUS
    <3>2. toServer'[d] = toServer[d]
      BY <2>3, <3>1, OfficeClicking, Sending DEF clientVars
    <3>3. panel'[d] = panel[d]
      BY <2>3, OfficeClicking, PanelChanged
    <3>4. /\ UNCHANGED <<logicVars, network, toClient, dashboards>>
          /\ screen'[d] = screen[d] /\ clicks'[d] = clicks[d]
      BY <1>0, <2>3, OfficeClicking DEF Click, clientVars
    <3>. QED
      BY <2>3, <3>2, <3>3, <3>4 DEF Same, logicVars, network, viewVars
  <2>. QED
    BY <1>4, <2>1, <2>2, <2>3 DEF Clicked
<1>5. CASE ConnectionLost(c)
  BY <1>0, <1>5 DEF ConnectionLost, Same, logicVars, dashboardVars, viewVars, panelVars
<1>. QED
  BY <1>1, <1>2, <1>3, <1>4, <1>5

LEMMA Nowhere ==
  ASSUME BusInv, NEW c \in Clients,
         \/ OthersAct /\ UNCHANGED <<dashboardVars, faults>>
         \/ ServerStarts
         \/ UNCHANGED busVars
  PROVE  Same(c)
<1>1. CASE OthersAct /\ UNCHANGED <<dashboardVars, faults>>
  <2>1. PICK s \in Sessions \ Clients, req \in Requests : HandleMessage(s, req)
    BY <1>1 DEF OthersAct
  <2>2. \E msg : Answered(s, req, msg)
    BY <2>1, Answers, RequestAssumption DEF BusInv, CInv
  <2>3. sessionUserId'[c] = sessionUserId[c]
    BY <2>1, <2>2, ClientAssumption DEF Answered, BusInv, CInv, IInv, TypeOK
  <2>. QED
    BY <1>1, <2>3 DEF OthersAct, Same, clientVars, network, dashboardVars, viewVars, panelVars
<1>2. CASE ServerStarts
  BY <1>2 DEF ServerStarts, Same, logicVars, dashboardVars, viewVars, panelVars
<1>3. CASE UNCHANGED busVars
  BY <1>3 DEF busVars, Same, logicVars, clientVars, network, viewVars, panelVars
<1>. QED
  BY <1>1, <1>2, <1>3

(* Requests that only ask.                                                 *)
Inert(reqs) == \A i \in DOMAIN reqs : reqs[i].type \notin Acts \cup {"UPDATE_SCHEDULE"}

LEMMA InertQuestions ==
  /\ \A reqs \in Seq(Question) : Inert(reqs)
  /\ \A c \in Clients : \A req \in Logins[c] : Inert(<<req>>)
<1>1. ASSUME NEW reqs \in Seq(Question), NEW i \in DOMAIN reqs
      PROVE  reqs[i].type \notin Acts \cup {"UPDATE_SCHEDULE"}
  <2>1. reqs[i] \in Question
    OBVIOUS
  <2>. QED
    BY <2>1 DEF Question, Acts
<1>2. ASSUME NEW c \in Clients, NEW req \in Logins[c]
      PROVE  Inert(<<req>>)
  <2>1. req.type \in {"LOGIN", "REGISTER"}
    BY ClientAssumption
  <2>. QED
    BY <2>1 DEF Inert, Acts
<1>. QED
  BY <1>1, <1>2 DEF Inert

LEMMA InertSent ==
  ASSUME CInv, NEW c \in Clients, NEW reqs \in Seq(ClientRequest), SendRequests(c, reqs),
         Inert(toServer[c]), Inert(reqs)
  PROVE  Inert(toServer'[c])
<1>1. toServer[c] \in Seq(ClientRequest)
  BY DEF CInv, ClientTypes
<1>2. toServer'[c] = toServer[c] \/ toServer'[c] = toServer[c] \o reqs
  BY Sending
<1>3. Inert(toServer[c] \o reqs)
  <2>. SUFFICES ASSUME NEW i \in DOMAIN (toServer[c] \o reqs)
                PROVE  (toServer[c] \o reqs)[i].type \notin Acts \cup {"UPDATE_SCHEDULE"}
    BY DEF Inert
  <2>1. CASE i \in DOMAIN toServer[c]
    BY <1>1, <2>1 DEF Inert
  <2>2. CASE i \notin DOMAIN toServer[c]
    <3>1. i - Len(toServer[c]) \in DOMAIN reqs /\ (toServer[c] \o reqs)[i] = reqs[i - Len(toServer[c])]
      BY <1>1, <2>2
    <3>. QED
      BY <3>1 DEF Inert
  <2>. QED
    BY <2>1, <2>2
<1>. QED
  BY <1>2, <1>3

LEMMA InertAlone ==
  ASSUME NEW c \in Clients, Inert(toServer'[c])
  PROVE  Alone(c)'
BY DEF Inert, Alone

(* A request sent when nothing was under way.                              *)
LEMMA SentAlone ==
  ASSUME CInv, NEW c \in Clients, Idle(c), NEW req \in ClientRequest, SendRequests(c, <<req>>),
         dashboards'[c] # <<>>, toClient'[c] = <<>>,
         Last(dashboards'[c]) = IF req.type = "UPDATE_SCHEDULE" THEN "admin" ELSE "user"
  PROVE  Alone(c)'
<1>1. <<req>> \in Seq(ClientRequest)
  OBVIOUS
<1>2. <<>> \o <<req>> = <<req>>
  OBVIOUS
<1>3. toServer'[c] = <<>> \/ toServer'[c] = <<req>>
  BY <1>1, <1>2, Sending DEF Idle
<1>. QED
  BY <1>3 DEF Alone

LEMMA StayAlone ==
  ASSUME NEW c \in Clients, Alone(c), UNCHANGED <<toServer[c], toClient[c], dashboards[c]>>
  PROVE  Alone(c)'
BY DEF Alone

LEMMA BusInitAlone == BusInit => AInv
BY DEF BusInit, ClientInit, AInv, Alone

(* Once it is handled nothing else like it is under way, and while answers *)
(* are nothing like it is sent.                                            *)
LEMMA InertAfter ==
  ASSUME BusInv, AInv, NEW c \in Clients,
         Served(c) \/ Received(c) \/ (Idle(c) /\ WindowClicks(c))
  PROVE  Inert(toServer'[c])
<1>. USE DEF BusInv
<1>0. Alone(c) /\ toServer[c] \in Seq(ClientRequest) /\ toClient[c] \in Seq(Reply)
  BY DEF AInv, CInv, ClientTypes
<1>1. \A reqs \in Seq(Question) : reqs \in Seq(ClientRequest)
  BY RefreshType
<1>2. CASE Served(c)
  <2>1. toServer[c] # <<>> /\ toServer'[c] = Tail(toServer[c])
    BY <1>2 DEF Served, Serve, CInv, ClientTypes
  <2>2. ASSUME NEW i \in DOMAIN Tail(toServer[c])
        PROVE  Tail(toServer[c])[i].type \notin Acts \cup {"UPDATE_SCHEDULE"}
    <3>1. /\ i + 1 \in DOMAIN toServer[c] /\ Tail(toServer[c])[i] = toServer[c][i + 1]
          /\ Len(toServer[c]) # 1
      BY <1>0, <2>1, TailAt
    <3>. QED
      BY <1>0, <3>1 DEF Alone
  <2>. QED
    BY <2>1, <2>2 DEF Inert
<1>3. CASE Received(c)
  <2>1. Inert(toServer[c])
    BY <1>0, <1>3 DEF Received, OnMessageReceived, Alone, Inert
  <2>2. UNCHANGED toServer \/ \E reqs \in Seq(Question) : SendRequests(c, reqs)
    BY <1>3, Reading DEF Received
  <2>. QED
    BY <1>1, <2>1, <2>2, InertSent, InertQuestions
<1>4. CASE Idle(c) /\ WindowClicks(c)
  <2>1. \A req \in ClientRequest : <<req>> \in Seq(ClientRequest)
    OBVIOUS
  <2>2. Inert(toServer[c])
    BY <1>4 DEF Idle, Inert
  <2>. QED
    BY <1>1, <1>4, <2>1, <2>2, WindowClicking, InertSent, InertQuestions
<1>. QED
  BY <1>2, <1>3, <1>4

(* Patience keeps the requests apart.                                      *)
LEMMA BusNextAlone ==
  ASSUME Patient = Clients, BusInv, AInv, [BusNext]_busVars
  PROVE  AInv'
<1>. USE DEF BusInv
<1>1. ASSUME NEW c \in Clients,
             Connection(c) \/ Served(c) \/ Received(c) \/ Clicked(c) \/ ConnectionLost(c)
      PROVE  Alone(c)'
  <2>0. Alone(c) /\ toServer[c] \in Seq(ClientRequest) /\ toClient[c] \in Seq(Reply)
    BY DEF AInv, CInv, ClientTypes
  <2>1. CASE Connection(c)
    <3>1. CASE toServer[c] = <<>>
      <4>1. toServer'[c] = <<>>
        BY <2>1, <3>1 DEF Connection, OnConnected, OnConnectionRefused, OnDisconnected
      <4>. QED
        BY <4>1 DEF Alone
    <3>2. CASE toServer[c] # <<>>
      <4>1. session[c] /\ socket[c] = "connected"
        BY <3>2 DEF CInv, Linked
      <4>. QED
        BY <2>1, <4>1 DEF Connection, OnConnected, OnConnectionRefused, OnDisconnected
    <3>. QED
      BY <3>1, <3>2
  <2>2. CASE Served(c) \/ Received(c)
    BY <2>2, InertAfter, InertAlone
  <2>4. CASE Clicked(c) /\ MayClick(c)
    <3>1. Idle(c) /\ Inert(toServer[c])
      BY <2>4 DEF MayClick, Idle, Inert
    <3>2. CASE WindowClicks(c)
      BY <3>1, <3>2, InertAfter, InertAlone
    <3>3. CASE RiderClicks(c)
      <4>1. PICK req \in ClientRequest : req.type \in Acts /\ SendRequests(c, <<req>>)
        BY <3>3, RiderClicking
      <4>2. /\ dashboards'[c] # <<>> /\ Last(dashboards[c]) = "user" /\ dashboards' = dashboards
            /\ toClient'[c] = <<>>
        BY <3>1, <3>3, RiderClicking DEF Shows, Click, Idle
      <4>3. req.type # "UPDATE_SCHEDULE"
        BY <4>1 DEF Acts
      <4>. QED
        BY <3>1, <4>1, <4>2, <4>3, SentAlone
    <3>4. CASE OfficeClicks(c)
      <4>1. /\ dashboards'[c] # <<>> /\ Last(dashboards[c]) = "admin" /\ dashboards' = dashboards
            /\ toClient'[c] = <<>>
        BY <3>1, <3>4, OfficeClicking DEF Shows, Click, Idle, clientVars
      <4>2. CASE UNCHANGED toServer
        BY <2>0, <4>1, <4>2, <3>1, StayAlone DEF Idle
      <4>3. ASSUME NEW req \in ClientRequest, SendRequests(c, <<req>>),
                   req.type \in {"ADD_ROUTE", "DEL_ROUTE", "get_user_detail"}
            PROVE  Alone(c)'
        <5>1. Inert(<<req>>) /\ <<req>> \in Seq(ClientRequest)
          BY <4>3 DEF Inert, Acts
        <5>. QED
          BY <3>1, <4>3, <5>1, InertSent, InertAlone
      <4>4. ASSUME NEW req \in ClientRequest, SendRequests(c, <<req>>), req.type = "UPDATE_SCHEDULE"
            PROVE  Alone(c)'
        BY <3>1, <4>1, <4>4, SentAlone
      <4>. QED
        BY <3>4, <4>2, <4>3, <4>4, OfficeClicking DEF clientVars
    <3>. QED
      BY <2>4, <3>2, <3>3, <3>4 DEF Clicked
  <2>5. Clicked(c) => MayClick(c)
    BY WindowClicking, RiderClicking, OfficeClicking DEF Clicked, Click
  <2>6. CASE ConnectionLost(c)
    <3>1. toServer'[c] = <<>>
      BY <2>6 DEF ConnectionLost, CInv, ClientTypes
    <3>. QED
      BY <3>1 DEF Alone
  <2>. QED
    BY <1>1, <2>1, <2>2, <2>4, <2>5, <2>6
<1>2. ASSUME ServerStops PROVE AInv'
  BY <1>2 DEF ServerStops, AInv, Alone
<1>3. ASSUME NEW c \in Clients, Same(c) PROVE Alone(c)'
  BY <1>3, StayAlone DEF Same, AInv
<1>4. CASE \E c \in Clients : \/ Connection(c) \/ Served(c) \/ Received(c) \/ Clicked(c)
                             \/ ConnectionLost(c)
  BY <1>1, <1>3, <1>4, Elsewhere DEF AInv
<1>5. CASE \/ OthersAct /\ UNCHANGED <<dashboardVars, faults>>
           \/ ServerStarts
           \/ UNCHANGED busVars
  BY <1>3, <1>5, Nowhere DEF AInv
<1>. QED
  BY <1>2, <1>4, <1>5 DEF BusNext

(* Whose session it is when something of an account's grows.               *)
LEMMA ActedFor ==
  ASSUME IInv, NEW s \in Sessions, NEW req, WellFormed(req), HandleMessage(s, req),
         NEW uid \in UserIds,
         \/ RowsOf(uid, tickets') # RowsOf(uid, tickets)
         \/ votes'[uid] # votes[uid]
         \/ SubscribedRouteIds(uid)' \ SubscribedRouteIds(uid) # {}
  PROVE  req.type \in Acts /\ uid = sessionUserId[s] /\ uid # 0
<1>1. ~UNCHANGED <<subscriptions, tickets, votes>>
  BY DEF RowsOf, SubscribedRouteIds, IsSubscribed
<1>2. ~QuietStep(s) /\ ~JoinStep(s)
  BY <1>1 DEF QuietStep, JoinStep, AddUser, store
<1>3. ~FleetStep(s)
  BY FleetIsOwnDoing DEF RowsOf
<1>4. RiderStep(s, req)
  BY <1>2, <1>3, StepKinds
<1>5. uid = Uid(s)
  BY <1>4, RiderIsOwnDoing DEF OwnDoing
<1>. QED
  BY <1>4, <1>5 DEF RiderStep, Acts, Uid

LEMMA BusNextNamed ==
  ASSUME BusInv, AInv, [BusNext]_busVars, NEW c \in Clients, NEW uid \in UserIds
  PROVE  ActsAsShown(c, uid)
<1>. USE DEF BusInv
<1>. SUFFICES ASSUME sent' # <<>>, sent'[1].to = c,
                     \/ RowsOf(uid, tickets') # RowsOf(uid, tickets)
                     \/ votes'[uid] # votes[uid]
                     \/ SubscribedRouteIds(uid)' \ SubscribedRouteIds(uid) # {}
              PROVE  \E u \in users : u.id = uid /\ u.username = view[c].username
  BY DEF ActsAsShown
<1>1. ~UNCHANGED store
  BY DEF store, RowsOf, SubscribedRouteIds, IsSubscribed
<1>2. ASSUME NEW d \in Clients, Served(d)
      PROVE  \E u \in users : u.id = uid /\ u.username = view[c].username
  <2>. DEFINE req == Head(toServer[d])
  <2>1. /\ d \in Sessions /\ session[d] /\ toServer[d] # <<>> /\ WellFormed(req)
        /\ HandleMessage(d, req) /\ \E msg : Answered(d, req, msg)
    BY <1>2, Serving DEF Served
  <2>2. d = c
    BY <2>1 DEF Answered, SaysTo
  <2>3. req.type \in Acts /\ uid = sessionUserId[c] /\ uid # 0
    BY <2>1, <2>2, ActedFor DEF CInv
  <2>4. toClient[c] = <<>> /\ Last(dashboards[c]) = "user"
    <3>1. 1 \in DOMAIN toServer[c] /\ req = toServer[c][1]
      BY <2>1, <2>2 DEF CInv, ClientTypes
    <3>. QED
      BY <2>3, <3>1 DEF AInv, Alone, Acts
  <2>5. PICK w \in users : w.id = uid /\ IsOwner(c, 0, ToPublicJson(w))
    BY <2>1, <2>2, <2>3, <2>4 DEF OInv, Owned, SessionOwned
  <2>6. view[c].username = w.username
    BY <2>4, <2>5 DEF IsOwner, ToPublicJson
  <2>. QED
    BY <2>5, <2>6
<1>3. ASSUME NEW d \in Clients, Connection(d) \/ Received(d) \/ Clicked(d) \/ ConnectionLost(d)
      PROVE  UNCHANGED store \/ sent' = <<>>
  <2>1. Clicked(d) => UNCHANGED logicVars
    BY WindowClicking, RiderClicking, OfficeClicking DEF Clicked, Click
  <2>. QED
    BY <1>3, <2>1 DEF Connection, OnConnected, Accept, OnConnectionRefused, OnDisconnected,
      Received, OnMessageReceived, ConnectionLost, logicVars
<1>4. ASSUME OthersAct
      PROVE  FALSE
  <2>1. PICK s \in Sessions \ Clients, req \in Requests : HandleMessage(s, req)
    BY <1>4 DEF OthersAct
  <2>2. \E msg : Answered(s, req, msg)
    BY <2>1, Answers, RequestAssumption DEF CInv
  <2>. QED
    BY <2>1, <2>2 DEF Answered, SaysTo
<1>. QED
  BY <1>1, <1>2, <1>3, <1>4
  DEF BusNext, ServerStops, Reconstructed, ServerStarts, busVars, logicVars

(* Whatever a client's user wishes acts on the account that the dashboard  *)
(* names, if users wait for the answers: over logouts, other logins at the *)
(* client and restarts of the server, which gives the ids of before to     *)
(* others (BusinessLogic.cpp takes the user from the session, not from the *)
(* request).                                                               *)
THEOREM PatientActAsShown ==
  ASSUME Patient = Clients
  PROVE  BusSpec => NamedDashboardsOnly
<1>1. BusInit => BusInv /\ AInv
  BY BusInitInv, BusInitAlone
<1>2. BusInv /\ AInv /\ [BusNext]_busVars => (BusInv /\ AInv)'
  BY BusNextInv, BusNextAlone
<1>3. BusInv /\ AInv /\ [BusNext]_busVars => \A c \in Clients, uid \in UserIds : ActsAsShown(c, uid)
  BY BusNextNamed
<1>. QED
  BY <1>1, <1>2, <1>3, PTL DEF BusSpec, NamedDashboardsOnly

(* The clients that have booked a ride the server has not recorded yet.    *)
Pending(uid) ==
  {c \in Clients : /\ sessionUserId[c] = uid
                   /\ \E i \in DOMAIN toServer[c] : toServer[c][i].type = "RIDE"}

Booked(u) ==
  /\ IsFiniteSet(RowsOf(u.id, tickets)) /\ IsFiniteSet(Pending(u.id))
  /\ Cardinality(RowsOf(u.id, tickets)) + Cardinality(Pending(u.id)) <= wanted[u.username].rides

(* An id that is nobody's yet has no tickets.                              *)
RInv ==
  /\ \A u \in users : Booked(u)
  /\ \A uid \in UserIds : RowsOf(uid, tickets) # {} => uid \in IdsOf(users)

LEMMA UserTyped ==
  ASSUME BusInv, NEW u \in users
  PROVE  u.id \in UserIds /\ u.id # 0 /\ u.username \in UserNames
BY DEF BusInv, CInv, IInv, TypeOK, StoreTypeOK, User, UserIds

LEMMA ChargedWithin == BusInv /\ RInv => ChargedAsBooked
<1>. SUFFICES ASSUME BusInv, RInv, NEW u \in users
              PROVE  Cardinality(RowsOf(u.id, tickets)) <= wanted[u.username].rides
  BY DEF ChargedAsBooked
<1>1. Booked(u) /\ wanted[u.username].rides \in Nat
  BY UserTyped DEF RInv, BusInv, VInv, Wanted
<1>2. Cardinality(RowsOf(u.id, tickets)) \in Nat /\ Cardinality(Pending(u.id)) \in Nat
  BY <1>1, FS_CardinalityType DEF Booked
<1>. QED
  BY <1>1, <1>2 DEF Booked

(* A booking is counted as a ride wanted, then as pending at one client,   *)
(* then as a ticket.                                                       *)
LEMMA Counting ==
  ASSUME NEW T, NEW P, NEW T2, NEW P2, NEW c, NEW m \in Nat, NEW n \in Nat,
         IsFiniteSet(T), IsFiniteSet(P), Cardinality(T) + Cardinality(P) <= m,
         P2 \subseteq P \cup {c},
         \/ T2 = T /\ c \notin P2 /\ m <= n
         \/ c \in P /\ c \notin P2 /\ m = n /\ \E t : T2 = T \cup {t}
         \/ T2 = T /\ n = m + 1
  PROVE  /\ IsFiniteSet(T2) /\ IsFiniteSet(P2)
         /\ Cardinality(T2) + Cardinality(P2) <= n
<1>1. ASSUME NEW S, IsFiniteSet(S), NEW x
      PROVE  /\ IsFiniteSet(S \cup {x}) /\ Cardinality(S) \in Nat
             /\ Cardinality(S \cup {x}) \in Nat /\ Cardinality(S \cup {x}) <= Cardinality(S) + 1
  <2>1. Cardinality(S) \in Nat
    BY <1>1, FS_CardinalityType
  <2>2. IsFiniteSet(S \cup {x})
        /\ Cardinality(S \cup {x}) = IF x \in S THEN Cardinality(S) ELSE Cardinality(S) + 1
    BY <1>1, FS_AddElement
  <2>. QED
    BY <2>1, <2>2
<1>2. /\ IsFiniteSet(P2) /\ Cardinality(P2) \in Nat /\ Cardinality(P2) <= Cardinality(P) + 1
      /\ Cardinality(P) \in Nat
  <2>1. IsFiniteSet(P \cup {c}) /\ Cardinality(P \cup {c}) \in Nat
        /\ Cardinality(P \cup {c}) <= Cardinality(P) + 1 /\ Cardinality(P) \in Nat
    BY <1>1
  <2>2. IsFiniteSet(P2) /\ Cardinality(P2) <= Cardinality(P \cup {c}) /\ Cardinality(P2) \in Nat
    BY <2>1, FS_Subset, FS_CardinalityType
  <2>. QED
    BY <2>1, <2>2
<1>3. CASE T2 = T /\ c \notin P2 /\ m <= n
  <2>1. P2 \subseteq P
    BY <1>3
  <2>2. Cardinality(P2) <= Cardinality(P)
    BY <2>1, FS_Subset
  <2>3. Cardinality(T) \in Nat
    BY <1>1
  <2>. QED
    BY <1>2, <1>3, <2>2, <2>3
<1>4. CASE c \in P /\ c \notin P2 /\ m = n /\ \E t : T2 = T \cup {t}
  <2>1. P2 \subseteq P \ {c}
    BY <1>4
  <2>2. IsFiniteSet(P \ {c}) /\ Cardinality(P \ {c}) = Cardinality(P) - 1
    BY <1>4, FS_RemoveElement
  <2>3. Cardinality(P2) <= Cardinality(P \ {c})
    BY <2>1, <2>2, FS_Subset
  <2>4. IsFiniteSet(T2) /\ Cardinality(T2) \in Nat /\ Cardinality(T2) <= Cardinality(T) + 1
        /\ Cardinality(T) \in Nat
    <3>1. PICK t : T2 = T \cup {t}
      BY <1>4
    <3>. QED
      BY <1>1, <3>1
  <2>. QED
    BY <1>2, <1>4, <2>2, <2>3, <2>4
<1>5. CASE T2 = T /\ n = m + 1
  <2>1. Cardinality(T) \in Nat
    BY <1>1
  <2>. QED
    BY <1>2, <1>5, <2>1
<1>. QED
  BY <1>3, <1>4, <1>5

(* Only a ride's own request adds to the tickets of an account, and one.   *)
LEMMA Charged ==
  ASSUME IInv, NEW s \in Sessions, NEW req, WellFormed(req), HandleMessage(s, req),
         NEW uid \in UserIds, RowsOf(uid, tickets') # RowsOf(uid, tickets)
  PROVE  /\ req.type = "RIDE" /\ uid = sessionUserId[s]
         /\ \E t : RowsOf(uid, tickets') = RowsOf(uid, tickets) \cup {t}
<1>1. uid = sessionUserId[s]
  BY ActedFor
<1>2. RiderStep(s, req)
  <2>1. ~QuietStep(s) /\ ~JoinStep(s)
    BY DEF QuietStep, JoinStep, AddUser, store
  <2>2. ~FleetStep(s)
    BY FleetIsOwnDoing
  <2>. QED
    BY <2>1, <2>2, StepKinds
<1>3. ~UNCHANGED tickets
  OBVIOUS
<1>4. req.type = "RIDE" /\ \E rid : IssueTicket(Uid(s), rid, TRUE, TicketPrice)
  BY <1>2, <1>3 DEF RiderStep, Subscribe, Unsubscribe, SetVotes
<1>5. PICK t : tickets' = tickets \cup {t}
  BY <1>4 DEF IssueTicket
<1>6. RowsOf(uid, tickets') \in {RowsOf(uid, tickets), RowsOf(uid, tickets) \cup {t}}
  BY <1>5 DEF RowsOf
<1>. QED
  BY <1>1, <1>4, <1>6

LEMMA BusInitBooked == BusInit => RInv
<1>. SUFFICES ASSUME BusInit PROVE RInv
  OBVIOUS
<1>1. \A uid : RowsOf(uid, tickets) = {} /\ Pending(uid) = {}
  BY DEF BusInit, ClientInit, Init, StoreInit, RowsOf, Pending
<1>2. \A u \in users : wanted[u.username].rides = 0
  BY BusInitInv, UserTyped DEF BusInit, ViewInit, NothingWanted
<1>. QED
  BY <1>1, <1>2, FS_EmptySet DEF Booked, RInv

LEMMA BookedCounted ==
  ASSUME BusInv, RInv, BusInv', NEW u \in users, NEW c,
         Pending(u.id)' \subseteq Pending(u.id) \cup {c},
         \/ /\ RowsOf(u.id, tickets') = RowsOf(u.id, tickets) /\ c \notin Pending(u.id)'
            /\ wanted[u.username].rides <= wanted'[u.username].rides
         \/ /\ c \in Pending(u.id) /\ c \notin Pending(u.id)'
            /\ wanted'[u.username].rides = wanted[u.username].rides
            /\ \E t : RowsOf(u.id, tickets') = RowsOf(u.id, tickets) \cup {t}
         \/ /\ RowsOf(u.id, tickets') = RowsOf(u.id, tickets)
            /\ wanted'[u.username].rides = wanted[u.username].rides + 1
  PROVE  Booked(u)'
<1>. DEFINE T == RowsOf(u.id, tickets)
            P == Pending(u.id)
            m == wanted[u.username].rides
<1>1. m \in Nat /\ m' \in Nat
  BY UserTyped DEF BusInv, VInv, Wanted
<1>2. IsFiniteSet(T) /\ IsFiniteSet(P) /\ Cardinality(T) + Cardinality(P) <= m
  BY DEF RInv, Booked
<1>3. T' = RowsOf(u.id, tickets')
  BY DEF RowsOf
<1>4. /\ P' \subseteq P \cup {c}
      /\ \/ T' = T /\ c \notin P' /\ m <= m'
         \/ c \in P /\ c \notin P' /\ m = m' /\ \E t : T' = T \cup {t}
         \/ T' = T /\ m' = m + 1
  BY <1>3
<1>. HIDE DEF T, P, m
<1>5. IsFiniteSet(T') /\ IsFiniteSet(P') /\ Cardinality(T') + Cardinality(P') <= m'
  BY <1>1, <1>2, <1>4, Counting, ZenonT(60)
<1>. QED
  BY <1>5 DEF T, P, m, Booked

LEMMA BookedKept ==
  ASSUME BusInv, RInv, NEW u \in users, Pending(u.id)' \subseteq Pending(u.id),
         RowsOf(u.id, tickets') = RowsOf(u.id, tickets), UNCHANGED wanted
  PROVE  Booked(u)'
<1>1. wanted[u.username].rides \in Nat /\ Booked(u)
  BY UserTyped DEF BusInv, VInv, Wanted, RInv
<1>2. /\ IsFiniteSet(Pending(u.id)') /\ Cardinality(Pending(u.id)') <= Cardinality(Pending(u.id))
      /\ Cardinality(Pending(u.id)') \in Nat /\ Cardinality(Pending(u.id)) \in Nat
      /\ Cardinality(RowsOf(u.id, tickets)) \in Nat
  BY <1>1, FS_Subset, FS_CardinalityType DEF Booked
<1>3. RowsOf(u.id, tickets)' = RowsOf(u.id, tickets')
  BY DEF RowsOf
<1>. QED
  BY <1>1, <1>2, <1>3 DEF Booked

(* The rows of nobody's and the users who are new.                         *)
LEMMA NewcomersBooked ==
  ASSUME BusInv, BusInv', AInv, RInv, [BusNext]_busVars, ~ServerStops
  PROVE  /\ \A u \in users' : u \in users \/ Booked(u)'
         /\ \A uid \in UserIds : RowsOf(uid, tickets') # {} => uid \in IdsOf(users')
<1>. USE DEF BusInv
<1>1. ASSUME NEW d \in Clients, Connection(d) \/ Received(d) \/ Clicked(d) \/ ConnectionLost(d)
      PROVE  UNCHANGED store
  <2>1. Clicked(d) => UNCHANGED logicVars
    BY WindowClicking, RiderClicking, OfficeClicking DEF Clicked, Click
  <2>. QED
    BY <1>1, <2>1 DEF Connection, OnConnected, Accept, OnConnectionRefused, OnDisconnected,
      Received, OnMessageReceived, ConnectionLost, logicVars
<1>2. \/ UNCHANGED store
      \/ \E s \in Sessions : \E req : WellFormed(req) /\ HandleMessage(s, req)
  <2>1. \A d \in Clients : Served(d) => \E s \in Sessions : \E req : WellFormed(req) /\ HandleMessage(s, req)
    BY Serving DEF Served
  <2>2. OthersAct => \E s \in Sessions : \E req : WellFormed(req) /\ HandleMessage(s, req)
    BY RequestAssumption DEF OthersAct
  <2>. QED
    BY <1>1, <2>1, <2>2 DEF BusNext, ServerStarts, busVars, logicVars
<1>3. users \subseteq users'
  BY <1>2, UsersStay DEF store, CInv
<1>4. ASSUME NEW uid \in UserIds, RowsOf(uid, tickets') # RowsOf(uid, tickets)
      PROVE  uid \in IdsOf(users)
  <2>1. PICK s \in Sessions : \E req : WellFormed(req) /\ HandleMessage(s, req)
    BY <1>2, <1>4 DEF store, RowsOf
  <2>2. uid = sessionUserId[s] /\ uid # 0
    BY <1>4, <2>1, ActedFor DEF CInv
  <2>. QED
    BY <2>2 DEF CInv, IInv, AccountsUnambiguous
<1>5. ASSUME NEW uid \in UserIds, RowsOf(uid, tickets') # {}
      PROVE  uid \in IdsOf(users)
  BY <1>4, <1>5 DEF RInv
<1>6. ASSUME NEW u \in users', u \notin users
      PROVE  Booked(u)'
  <2>1. u.id \notin IdsOf(users) /\ u.id \in UserIds /\ u.id # 0 /\ u.username \in UserNames
    <3>1. \A v \in users : v.id # u.id
      BY <1>3, <1>6 DEF CInv, IInv, AccountsUnambiguous
    <3>2. u.id \in UserIds /\ u.id # 0 /\ u.username \in UserNames
      BY DEF CInv, IInv, TypeOK, StoreTypeOK, User, UserIds
    <3>. QED
      BY <3>1, <3>2 DEF IdsOf
  <2>2. RowsOf(u.id, tickets') = {}
    BY <1>5, <2>1
  <2>3. ASSUME NEW c \in Clients, sessionUserId'[c] = u.id PROVE Inert(toServer'[c])
    <3>1. sessionUserId'[c] # sessionUserId[c]
      BY <2>1, <2>3, ClientAssumption DEF CInv, IInv, AccountsUnambiguous
    <3>2. ~Same(c)
      BY <3>1 DEF Same
    <3>3. Served(c)
      <4>1. \A d \in Clients : Clicked(d) => UNCHANGED sessionUserId
        BY WindowClicking, RiderClicking, OfficeClicking DEF Clicked, Click, logicVars
      <4>2. ~Connection(c)
        BY <2>1, <2>3, <3>1, ClientAssumption
        DEF Connection, OnConnected, Accept, OnConnectionRefused, OnDisconnected, logicVars, CInv,
          IInv, TypeOK
      <4>. QED
        BY <3>1, <3>2, <4>1, <4>2, Elsewhere, Nowhere
        DEF BusNext, Received, OnMessageReceived, ConnectionLost, logicVars
    <3>. QED
      BY <3>3, InertAfter
  <2>4. Pending(u.id)' = {}
    BY <2>3 DEF Pending, Inert, Acts
  <2>5. wanted'[u.username].rides \in Nat
    BY <2>1 DEF VInv, Wanted
  <2>. QED
    BY <2>2, <2>4, <2>5, FS_EmptySet DEF Booked, RowsOf
<1>7. IdsOf(users) \subseteq IdsOf(users')
  BY <1>3 DEF IdsOf
<1>. QED
  BY <1>5, <1>6, <1>7

LEMMA UsersBooked ==
  ASSUME Patient = Clients, \A req \in Requests : req.type # "RIDE",
         BusInv, BusInv', AInv, RInv, [BusNext]_busVars, ~ServerStops, NEW u \in users
  PROVE  Booked(u)'
<1>. DEFINE uid == u.id
<1>0. /\ wanted[u.username].rides \in Nat /\ uid \in UserIds /\ uid # 0 /\ u.username \in UserNames
      /\ \A v \in users : v.id = uid => v = u
      /\ wanted[u.username].rides <= wanted[u.username].rides
  BY UserTyped DEF BusInv, VInv, Wanted, CInv, IInv, AccountsUnambiguous
<1>. HIDE DEF uid
<1>1. ASSUME NEW c \in Clients,
             Connection(c) \/ Served(c) \/ Received(c) \/ Clicked(c) \/ ConnectionLost(c)
      PROVE  Booked(u)'
  <2>0. /\ \A d \in Clients : d # c => Same(d)
        /\ Alone(c) /\ toServer[c] \in Seq(ClientRequest) /\ toServer'[c] \in Seq(ClientRequest)
    BY <1>1, Elsewhere DEF AInv, BusInv, CInv, ClientTypes
  <2>1. Pending(uid)' \subseteq Pending(uid) \cup {c}
    BY <2>0 DEF Pending, Same
  <2>2. (\A i \in DOMAIN toServer'[c] : toServer'[c][i].type # "RIDE") => c \notin Pending(uid)'
    BY DEF Pending
  <2>3. Inert(toServer'[c]) => c \notin Pending(uid)'
    BY <2>2 DEF Inert, Acts
  <2>4. CASE UNCHANGED <<tickets, wanted>> /\ c \notin Pending(uid)'
    BY <1>0, <2>1, <2>4, BookedCounted DEF uid
  <2>5. CASE Connection(c) \/ ConnectionLost(c)
    <3>1. UNCHANGED <<tickets, wanted>>
      BY <2>5 DEF Connection, OnConnected, Accept, OnConnectionRefused, OnDisconnected,
        ConnectionLost, logicVars, store, dashboardVars, viewVars
    <3>2. toServer'[c] = <<>> \/ Same(c)
      <4>1. c \in Sessions /\ (toServer[c] # <<>> => session[c] /\ socket[c] = "connected")
        BY ClientAssumption DEF BusInv, CInv, Linked
      <4>2. CASE Connection(c)
        BY <4>1, <4>2 DEF Connection, OnConnected, OnConnectionRefused, OnDisconnected
      <4>3. CASE ConnectionLost(c)
        BY <4>3 DEF ConnectionLost, BusInv, CInv, ClientTypes
      <4>. QED
        BY <2>5, <4>2, <4>3
    <3>3. CASE toServer'[c] = <<>>
      BY <2>2, <2>4, <3>1, <3>3
    <3>4. CASE Same(c)
      <4>1. Pending(uid)' \subseteq Pending(uid)
        BY <2>0, <3>4 DEF Pending, Same
      <4>. QED
        BY <3>1, <4>1, BookedKept DEF uid
    <3>. QED
      BY <3>2, <3>3, <3>4
  <2>6. CASE Served(c)
    <3>1. c \notin Pending(uid)' /\ UNCHANGED wanted
      BY <2>3, <2>6, InertAfter DEF Served, dashboardVars, viewVars
    <3>. DEFINE req == Head(toServer[c])
    <3>2. /\ c \in Sessions /\ toServer[c] # <<>> /\ WellFormed(req) /\ HandleMessage(c, req)
      BY <2>6, Serving DEF Served, BusInv
    <3>3. CASE RowsOf(uid, tickets') = RowsOf(uid, tickets)
      BY <1>0, <2>1, <3>1, <3>3, BookedCounted DEF uid
    <3>4. CASE RowsOf(uid, tickets') # RowsOf(uid, tickets)
      <4>1. /\ req.type = "RIDE" /\ uid = sessionUserId[c]
            /\ \E t : RowsOf(uid, tickets') = RowsOf(uid, tickets) \cup {t}
        BY <1>0, <3>2, <3>4, Charged DEF BusInv, CInv
      <4>2. 1 \in DOMAIN toServer[c] /\ req = toServer[c][1]
        BY <2>0, <3>2
      <4>3. c \in Pending(uid)
        BY <4>1, <4>2 DEF Pending
      <4>. QED
        BY <2>1, <3>1, <4>1, <4>3, BookedCounted DEF uid
    <3>. QED
      BY <3>3, <3>4
  <2>7. CASE Received(c)
    <3>1. UNCHANGED <<tickets, wanted>>
      BY <2>7 DEF Received, OnMessageReceived, ViewReacts, logicVars, store
    <3>. QED
      BY <2>3, <2>4, <2>7, <3>1, InertAfter
  <2>8. CASE Clicked(c)
    <3>1. MayClick(c) /\ Idle(c) /\ UNCHANGED <<tickets, sessionUserId, session>>
      <4>1. MayClick(c) /\ UNCHANGED <<logicVars, network>>
        BY <2>8, WindowClicking, RiderClicking, OfficeClicking
        DEF Clicked, BusInv, Click, clientVars
      <4>. QED
        BY <4>1 DEF MayClick, Idle, logicVars, store, network
    <3>2. ASSUME NEW req \in ClientRequest, SendRequests(c, <<req>>)
          PROVE  toServer'[c] = <<>> \/ (session[c] /\ toServer'[c] = <<req>>)
      <4>1. <<req>> \in Seq(ClientRequest) /\ <<>> \o <<req>> = <<req>>
        OBVIOUS
      <4>. QED
        BY <3>1, <3>2, <4>1, Sending DEF Idle, BusInv
    <3>3. CASE WindowClicks(c) /\ UNCHANGED dashboardVars
      BY <2>3, <2>4, <3>1, <3>3, InertAfter DEF dashboardVars, viewVars
    <3>4. CASE OfficeClicks(c) /\ UNCHANGED viewVars
      <4>1. \A i \in DOMAIN toServer'[c] : toServer'[c][i].type # "RIDE"
        <5>1. ASSUME NEW req \in ClientRequest, SendRequests(c, <<req>>),
                     req.type \in {"ADD_ROUTE", "DEL_ROUTE", "get_user_detail", "UPDATE_SCHEDULE"}
              PROVE  \A i \in DOMAIN toServer'[c] : toServer'[c][i].type # "RIDE"
          BY <3>2, <5>1
        <5>2. CASE UNCHANGED toServer
          BY <3>1, <5>2 DEF Idle
        <5>. QED
          BY <3>4, <5>1, <5>2, OfficeClicking DEF clientVars, BusInv
      <4>. QED
        BY <2>2, <2>4, <3>1, <3>4, <4>1 DEF viewVars
    <3>5. CASE RiderClicks(c)
      <4>1. PICK req \in ClientRequest, w \in Wanted :
              /\ SendRequests(c, <<req>>) /\ wanted' = [wanted EXCEPT ![view[c].username] = w]
              /\ w.rides = wanted[view[c].username].rides + (IF req.type = "RIDE" THEN 1 ELSE 0)
        BY <3>5, RiderClicking DEF BusInv
      <4>2. /\ Shows(c, "user") /\ view[c].username \in UserNames
        BY <3>5, RiderClicking DEF BusInv
      <4>3. wanted'[view[c].username] = w
            /\ (u.username # view[c].username => wanted'[u.username] = wanted[u.username])
        BY <1>0, <4>1, <4>2 DEF BusInv, VInv
      <4>4. CASE c \notin Pending(uid)'
        <5>1. wanted[u.username].rides <= wanted'[u.username].rides
          BY <1>0, <4>1, <4>3
        <5>. QED
          BY <2>1, <3>1, <4>4, <5>1, BookedCounted DEF uid
      <4>5. CASE c \in Pending(uid)'
        <5>1. session[c] /\ req.type = "RIDE" /\ uid = sessionUserId[c]
          BY <3>1, <3>2, <4>1, <4>5 DEF Pending
        <5>2. PICK w2 \in users : w2.id = uid /\ IsOwner(c, 0, ToPublicJson(w2))
          BY <1>0, <3>1, <5>1 DEF BusInv, OInv, Owned, SessionOwned, Idle
        <5>3. view[c].username = u.username
          BY <1>0, <4>2, <5>2 DEF IsOwner, ToPublicJson, Shows
        <5>4. wanted'[u.username].rides = wanted[u.username].rides + 1
          BY <4>1, <4>3, <5>1, <5>3
        <5>. QED
          BY <2>1, <3>1, <5>4, BookedCounted DEF uid
      <4>. QED
        BY <4>4, <4>5
    <3>. QED
      BY <2>8, <3>3, <3>4, <3>5 DEF Clicked
  <2>. QED
    BY <1>1, <2>5, <2>6, <2>7, <2>8
<1>2. ASSUME \/ OthersAct /\ UNCHANGED <<dashboardVars, faults>>
             \/ ServerStarts
             \/ UNCHANGED busVars
      PROVE  Booked(u)'
  <2>1. Pending(uid)' \subseteq Pending(uid)
    BY <1>2, Nowhere DEF Same, Pending
  <2>2. CASE OthersAct
    <3>1. PICK s \in Sessions \ Clients, req \in Requests : HandleMessage(s, req)
      BY <2>2 DEF OthersAct
    <3>2. RowsOf(uid, tickets') = RowsOf(uid, tickets)
      BY <1>0, <3>1, Charged, RequestAssumption DEF BusInv, CInv
    <3>3. UNCHANGED wanted
      BY <1>2 DEF dashboardVars, viewVars, ServerStarts, busVars
    <3>. QED
      BY <2>1, <3>2, <3>3, BookedKept DEF uid
  <2>3. CASE UNCHANGED <<tickets, wanted>>
    BY <2>1, <2>3, BookedKept DEF uid
  <2>. QED
    BY <1>2, <2>2, <2>3
    DEF ServerStarts, busVars, logicVars, store, dashboardVars, viewVars
<1>. QED
  BY <1>1, <1>2 DEF BusNext

LEMMA BusNextBooked ==
  ASSUME Patient = Clients, \A req \in Requests : req.type # "RIDE",
         BusInv, BusInv', AInv, RInv, [BusNext]_busVars
  PROVE  RInv'
<1>1. CASE ServerStops
  <2>1. \A uid : RowsOf(uid, tickets') = {} /\ Pending(uid)' = {}
    BY <1>1 DEF ServerStops, Reconstructed, RowsOf, Pending
  <2>2. \A u \in users' : wanted'[u.username].rides = 0
    <3>1. \A u \in users' : u.username \in UserNames
      BY DEF BusInv, CInv, IInv, TypeOK, StoreTypeOK, User
    <3>. QED
      BY <1>1, <3>1 DEF ServerStops, NothingWanted
  <2>3. ASSUME NEW u \in users' PROVE Booked(u)'
    BY <2>1, <2>2, FS_EmptySet DEF Booked, RowsOf
  <2>4. \A uid \in UserIds : RowsOf(uid, tickets)' = {}
    BY <2>1 DEF RowsOf
  <2>. QED
    BY <2>3, <2>4 DEF RInv
<1>2. CASE ~ServerStops
  <2>1. \A u \in users' : Booked(u)'
    BY <1>2, UsersBooked, NewcomersBooked
  <2>2. \A uid \in UserIds : RowsOf(uid, tickets)' # {} => uid \in IdsOf(users)'
    BY <1>2, NewcomersBooked DEF RowsOf, IdsOf
  <2>. QED
    BY <2>1, <2>2 DEF RInv
<1>. QED
  BY <1>1, <1>2

(* Nobody is charged for a ride that was not booked on a dashboard of      *)
(* their account: no booking is recorded twice or for somebody else,       *)
(* whatever is lost on the way, provided users wait for the answers and    *)
(* nobody books rides from elsewhere (handleRide of BusinessLogic.cpp,     *)
(* onBookRideClicked of UserDashboard.cpp).                                *)
THEOREM PatientChargedAsBooked ==
  ASSUME Patient = Clients, \A req \in Requests : req.type # "RIDE"
  PROVE  BusSpec => []ChargedAsBooked
<1>1. BusInit => BusInv /\ AInv /\ RInv
  BY BusInitInv, BusInitAlone, BusInitBooked
<1>2. BusInv /\ AInv /\ RInv /\ [BusNext]_busVars => (BusInv /\ AInv /\ RInv)'
  BY BusNextInv, BusNextAlone, BusNextBooked
<1>3. BusInv /\ RInv => ChargedAsBooked
  BY ChargedWithin
<1>. QED
  BY <1>1, <1>2, <1>3, PTL DEF BusSpec

(* Messages of these types are under way.                                  *)
Carries(msgs, types) == \E i \in DOMAIN msgs : msgs[i].type \in types

(* What is sent on a connection that is up is under way, behind what was.  *)
LEMMA SentCarries ==
  ASSUME CInv, NEW c \in Clients, NEW reqs \in Seq(ClientRequest), SendRequests(c, reqs), NEW types
  PROVE  /\ Carries(toServer[c], types) => Carries(toServer'[c], types)
         /\ session[c] /\ Carries(reqs, types) => Carries(toServer'[c], types)
<1>1. toServer[c] \in Seq(ClientRequest)
  BY DEF CInv, ClientTypes
<1>2. toServer'[c] = IF session[c] THEN toServer[c] \o reqs ELSE toServer[c]
  BY Sending
<1>3. ASSUME NEW i \in DOMAIN toServer[c]
      PROVE  i \in DOMAIN (toServer[c] \o reqs) /\ (toServer[c] \o reqs)[i] = toServer[c][i]
  BY <1>1
<1>4. ASSUME NEW i \in DOMAIN reqs
      PROVE  /\ Len(toServer[c]) + i \in DOMAIN (toServer[c] \o reqs)
             /\ (toServer[c] \o reqs)[Len(toServer[c]) + i] = reqs[i]
  BY <1>1
<1>. QED
  BY <1>2, <1>3, <1>4 DEF Carries

(* What follows the first message still carries what the first was not.    *)
LEMMA TailCarries ==
  ASSUME NEW S, NEW msgs \in Seq(S), msgs # <<>>, NEW types, Carries(msgs, types)
  PROVE  Head(msgs).type \in types \/ Carries(Tail(msgs), types)
<1>1. PICK i \in DOMAIN msgs : msgs[i].type \in types
  BY DEF Carries
<1>2. CASE i = 1
  BY <1>1, <1>2
<1>3. CASE i # 1
  <2>1. i - 1 \in DOMAIN Tail(msgs) /\ Tail(msgs)[i - 1] = msgs[i]
    BY <1>3, TailAt
  <2>. QED
    BY <1>1, <2>1 DEF Carries
<1>. QED
  BY <1>2, <1>3

LEMMA AppendCarries ==
  ASSUME NEW S, NEW msgs \in Seq(S), NEW msg \in S, NEW types
  PROVE  /\ Carries(msgs, types) => Carries(Append(msgs, msg), types)
         /\ msg.type \in types => Carries(Append(msgs, msg), types)
         /\ Carries(Append(msgs, msg), types) => Carries(msgs, types) \/ msg.type \in types
<1>1. /\ Len(msgs) \in Nat /\ DOMAIN msgs = 1..Len(msgs)
      /\ DOMAIN Append(msgs, msg) = 1..(Len(msgs) + 1)
      /\ Append(msgs, msg)[Len(msgs) + 1] = msg
      /\ \A i \in 1..Len(msgs) : Append(msgs, msg)[i] = msgs[i]
  OBVIOUS
<1>. DEFINE n == Len(msgs)
            longer == Append(msgs, msg)
<1>. HIDE DEF longer
<1>2. /\ n \in Nat /\ DOMAIN msgs = 1..n /\ DOMAIN longer = 1..(n + 1) /\ longer[n + 1] = msg
      /\ \A i \in 1..n : longer[i] = msgs[i]
  BY <1>1 DEF longer
<1>. HIDE DEF n
<1>3. n + 1 \in 1..(n + 1) /\ 1..n \subseteq 1..(n + 1) /\ \A i \in 1..(n + 1) : i = n + 1 \/ i \in 1..n
  BY <1>2
<1>4. /\ Carries(msgs, types) => Carries(longer, types)
      /\ msg.type \in types => Carries(longer, types)
      /\ Carries(longer, types) => Carries(msgs, types) \/ msg.type \in types
  BY <1>2, <1>3 DEF Carries
<1>. QED
  BY <1>4 DEF longer
----------------------------------------------------------------------------
(* What is shown once all is answered *)

(* The last message of the kind is one of the good ones.                   *)
Newest(msgs, kind, good) ==
  \E i \in DOMAIN msgs :
    /\ msgs[i].type = kind /\ msgs[i] \in good
    /\ \A j \in DOMAIN msgs : j > i => msgs[j].type # kind

(* A list that messages of the kind fill is right, or is going to be: it   *)
(* is asked for, or something on its way will make the dashboard ask, or   *)
(* the last such message that will be read is right.                       *)
UpToDate(reqs, msgs, asks, news, kind, good, shown) ==
  \/ Carries(reqs, asks) \/ Carries(msgs, news)
  \/ Newest(msgs, kind, good)
  \/ ~Carries(msgs, {kind}) /\ shown

LEMMA ShownInTheEnd ==
  ASSUME NEW asks, NEW news, NEW kind, NEW good, NEW shown \in BOOLEAN,
         UpToDate(<<>>, <<>>, asks, news, kind, good, shown)
  PROVE  shown
BY DEF UpToDate, Carries, Newest

(* The first request is answered.  What changes the list is news, the list *)
(* is sent to whoever asks, and it is sent as it is then.                  *)
LEMMA AnsweredStill ==
  ASSUME NEW S, NEW reqs \in Seq(S), reqs # <<>>, NEW T, NEW msgs \in Seq(T), NEW msg \in T,
         NEW asks, NEW news, NEW kind, NEW good, NEW better,
         NEW shown \in BOOLEAN, NEW seen \in BOOLEAN,
         UpToDate(reqs, msgs, asks, news, kind, good, shown),
         \/ msg.type \in news
         \/ /\ Head(reqs).type \in asks => msg.type = kind
            /\ msg.type = kind => msg \in better
            /\ good \subseteq better /\ (shown => seen)
  PROVE  UpToDate(Tail(reqs), Append(msgs, msg), asks, news, kind, better, seen)
<1>. DEFINE n == Len(msgs)
            longer == Append(msgs, msg)
<1>1. /\ n \in Nat /\ DOMAIN msgs = 1..n /\ DOMAIN longer = 1..(n + 1) /\ longer[n + 1] = msg
      /\ \A i \in 1..n : longer[i] = msgs[i]
  OBVIOUS
<1>2. \A types : /\ Carries(msgs, types) => Carries(longer, types)
                 /\ msg.type \in types => Carries(longer, types)
                 /\ Carries(longer, types) => Carries(msgs, types) \/ msg.type \in types
  BY AppendCarries
<1>. HIDE DEF longer, n
<1>3. n + 1 \in 1..(n + 1) /\ 1..n \subseteq 1..(n + 1)
      /\ \A i \in 1..(n + 1) : i = n + 1 \/ i \in 1..n
  BY <1>1
<1>4. CASE msg.type \in news
  BY <1>2, <1>4 DEF UpToDate, longer
<1>5. CASE msg.type \notin news /\ msg.type = kind
  <2>1. \A j \in DOMAIN longer : ~(j > n + 1)
    BY <1>1
  <2>2. Newest(longer, kind, better)
    BY <1>1, <1>3, <1>5, <2>1 DEF Newest
  <2>. QED
    BY <2>2 DEF UpToDate, longer
<1>6. CASE msg.type \notin news /\ msg.type # kind
  <2>1. CASE Carries(reqs, asks)
    <3>1. Carries(Tail(reqs), asks)
      BY <1>6, <2>1, TailCarries
    <3>. QED
      BY <3>1 DEF UpToDate
  <2>2. CASE Carries(msgs, news)
    BY <1>2, <2>2 DEF UpToDate, longer
  <2>3. CASE Newest(msgs, kind, good)
    <3>1. PICK i \in 1..n : /\ msgs[i].type = kind /\ msgs[i] \in good
                            /\ \A j \in 1..n : j > i => msgs[j].type # kind
      BY <1>1, <2>3 DEF Newest
    <3>2. longer[i].type = kind /\ longer[i] \in better /\ i \in DOMAIN longer
      BY <1>1, <1>3, <1>6, <3>1
    <3>3. \A j \in DOMAIN longer : j > i => longer[j].type # kind
      BY <1>1, <1>3, <1>6, <3>1
    <3>. QED
      BY <3>2, <3>3 DEF UpToDate, Newest, longer
  <2>4. CASE ~Carries(msgs, {kind}) /\ shown
    BY <1>2, <1>6, <2>4 DEF UpToDate, longer
  <2>. QED
    BY <2>1, <2>2, <2>3, <2>4 DEF UpToDate
<1>. QED
  BY <1>4, <1>5, <1>6

(* The first message is read.  News makes the dashboard ask, and a good    *)
(* message of the kind makes the list right.                               *)
LEMMA ReadStill ==
  ASSUME NEW T, NEW msgs \in Seq(T), msgs # <<>>, NEW reqs, NEW later,
         NEW asks, NEW news, NEW kind, NEW good, NEW shown \in BOOLEAN, NEW seen \in BOOLEAN,
         UpToDate(reqs, msgs, asks, news, kind, good, shown),
         Carries(reqs, asks) => Carries(later, asks),
         Head(msgs).type \in news => Carries(later, asks),
         Head(msgs).type = kind /\ Head(msgs) \in good => seen,
         Head(msgs).type # kind /\ shown => seen
  PROVE  UpToDate(later, Tail(msgs), asks, news, kind, good, seen)
<1>1. \A i \in DOMAIN msgs : i # 1 => i - 1 \in DOMAIN Tail(msgs) /\ Tail(msgs)[i - 1] = msgs[i]
  BY TailAt
<1>2. \A i \in DOMAIN Tail(msgs) : i + 1 \in DOMAIN msgs /\ Tail(msgs)[i] = msgs[i + 1]
  BY TailAt
<1>3. CASE Carries(reqs, asks)
  BY <1>3 DEF UpToDate
<1>4. CASE Carries(msgs, news)
  <2>1. Head(msgs).type \in news \/ Carries(Tail(msgs), news)
    BY <1>4, TailCarries
  <2>. QED
    BY <2>1 DEF UpToDate
<1>5. CASE Newest(msgs, kind, good)
  <2>1. PICK i \in DOMAIN msgs : /\ msgs[i].type = kind /\ msgs[i] \in good
                                 /\ \A j \in DOMAIN msgs : j > i => msgs[j].type # kind
    BY <1>5 DEF Newest
  <2>2. i \in Nat /\ DOMAIN msgs \subseteq Nat /\ DOMAIN Tail(msgs) \subseteq Nat
    BY <2>1
  <2>3. CASE i = 1
    <3>1. seen
      BY <2>1, <2>3
    <3>2. ASSUME NEW j \in DOMAIN Tail(msgs) PROVE Tail(msgs)[j].type # kind
      <4>1. j + 1 \in DOMAIN msgs /\ j + 1 > i /\ Tail(msgs)[j] = msgs[j + 1]
        BY <1>2, <2>3, <3>2
      <4>. QED
        BY <2>1, <4>1
    <3>. QED
      BY <3>1, <3>2 DEF UpToDate, Carries
  <2>4. CASE i # 1
    <3>1. i - 1 \in DOMAIN Tail(msgs) /\ Tail(msgs)[i - 1] = msgs[i]
      BY <1>1, <2>4
    <3>2. ASSUME NEW j \in DOMAIN Tail(msgs), j > i - 1 PROVE Tail(msgs)[j].type # kind
      <4>1. j + 1 \in DOMAIN msgs /\ j + 1 > i /\ Tail(msgs)[j] = msgs[j + 1]
        BY <1>2, <2>2, <3>2
      <4>. QED
        BY <2>1, <4>1
    <3>. QED
      BY <2>1, <3>1, <3>2 DEF UpToDate, Newest
  <2>. QED
    BY <2>3, <2>4
<1>6. CASE ~Carries(msgs, {kind}) /\ shown
  <2>1. ~Carries(Tail(msgs), {kind}) /\ Head(msgs).type # kind
    <3>1. 1 \in DOMAIN msgs /\ Head(msgs) = msgs[1]
      OBVIOUS
    <3>. QED
      BY <1>2, <1>6, <3>1 DEF Carries
  <2>. QED
    BY <1>6, <2>1 DEF UpToDate
<1>. QED
  BY <1>3, <1>4, <1>5, <1>6 DEF UpToDate

(* The session is somebody's, and the dashboard of that role is the newest *)
(* and will be.                                                            *)
Current(c, role) ==
  /\ session[c] /\ sessionUserId[c] # 0 /\ ~Carries(toClient[c], {"AUTH_OK"})
  /\ dashboards[c] # <<>> /\ Last(dashboards[c]) = role

(* It is that user's, who has the role.                                    *)
LEMMA CurrentOwner ==
  ASSUME BusInv, NEW c \in Clients, NEW role \in {"user", "admin"}, Current(c, role)
  PROVE  /\ sessionUserId[c] \in UserIds /\ (IsAdmin(c) <=> role = "admin")
         /\ role = "user" => view[c].userId = sessionUserId[c] /\ ~NoView(c)
         /\ role = "admin" => ~NoPanel(c)
<1>. USE DEF BusInv
<1>. DEFINE n == Len(toClient[c])
<1>1. toClient[c] \in Seq(Reply) /\ n \in Nat /\ DOMAIN toClient[c] = 1..n
  BY DEF CInv, ClientTypes
<1>2. PICK w \in users : w.id = sessionUserId[c] /\ IsOwner(c, n, ToPublicJson(w))
  BY DEF Current, OInv, Owned, SessionOwned
<1>3. PICK i \in 0..n :
        \/ i # 0 /\ toClient[c][i].type = "AUTH_OK"
        \/ /\ i = 0 /\ Last(dashboards[c]) = ToPublicJson(w).role
           /\ ToPublicJson(w).role = "user" => view[c].userId = ToPublicJson(w).id
  BY <1>2 DEF IsOwner
<1>4. i = 0
  <2>1. i # 0 => i \in DOMAIN toClient[c]
    BY <1>1
  <2>. QED
    BY <1>3, <2>1 DEF Current, Carries
<1>5. w.role = role /\ (role = "user" => view[c].userId = sessionUserId[c])
  BY <1>2, <1>3, <1>4 DEF Current, ToPublicJson
<1>6. sessionUserId[c] \in UserIds
  BY <1>2 DEF CInv, IInv, TypeOK, StoreTypeOK, User
<1>7. IsAdmin(c) <=> role = "admin"
  <2>1. \A u \in users : u.id = sessionUserId[c] => u = w
    BY <1>2 DEF CInv, IInv, AccountsUnambiguous
  <2>. QED
    BY <1>2, <1>5, <2>1 DEF IsAdmin, FindUserById
<1>8. Len(dashboards[c]) \in DOMAIN dashboards[c]
  BY DEF Current, CInv, ClientTypes
<1>. QED
  BY <1>5, <1>6, <1>7, <1>8 DEF Current, NoView, NoPanel, Last

(* Every dashboard of the role asks for everything.                        *)
Asks(c, role) ==
  \E reqs \in Seq(ClientRequest), o \in Nat :
    SendRequests(c, reqs) /\ At(reqs, o, RefreshOf(role))

LEMMA Asked ==
  ASSUME CInv, NEW c \in Clients, session[c], NEW role \in {"user", "admin"}, Asks(c, role),
         NEW i \in DOMAIN RefreshOf(role), NEW types, RefreshOf(role)[i].type \in types
  PROVE  Carries(toServer'[c], types)
<1>1. PICK reqs \in Seq(ClientRequest), o \in Nat :
        SendRequests(c, reqs) /\ At(reqs, o, RefreshOf(role))
  BY DEF Asks
<1>2. RefreshOf(role) \in Seq(Question)
  BY RefreshType
<1>. DEFINE asked == RefreshOf(role)
<1>3. asked \in Seq(Question) /\ i \in DOMAIN asked /\ asked[i].type \in types
      /\ At(reqs, o, asked)
  BY <1>1, <1>2
<1>. HIDE DEF asked
<1>4. Carries(reqs, types)
  <2>0. i \in 1..Len(asked) /\ Len(asked) \in Nat /\ o + Len(asked) <= Len(reqs)
        /\ \A m \in 1..Len(asked) : reqs[o + m] = asked[m]
    BY <1>3 DEF At
  <2>1. o + i \in DOMAIN reqs /\ reqs[o + i] = asked[i]
    BY <2>0
  <2>. QED
    BY <1>3, <2>1 DEF Carries
<1>. QED
  BY <1>1, <1>4, SentCarries

LEMMA NewsAsks ==
  ASSUME CInv, NEW c \in Clients, OnMessageReceived(c),
         NEW role \in {"user", "admin"}, dashboards[c] # <<>>, Last(dashboards[c]) = role,
         \/ Head(toClient[c]).type = "OK"
         \/ Head(toClient[c]).type = "ROUTE_OK" /\ role = "admin"
  PROVE  Asks(c, role)
<1>1. PICK roles \in SUBSET {"user", "admin"} : RefreshAll(c, roles) /\ role \in roles
  <2>1. Head(toClient[c]).type = "OK" => RefreshAll(c, {"user", "admin"})
    BY DEF OnMessageReceived, OnAuthOk, OnOk, OnRouteOk, OnOther
  <2>2. Head(toClient[c]).type = "ROUTE_OK" => RefreshAll(c, {"admin"})
    BY DEF OnMessageReceived, OnAuthOk, OnOk, OnRouteOk, OnOther
  <2>. QED
    BY <2>1, <2>2
<1>2. PICK reqs \in Seq(Question) :
        /\ SendRequests(c, reqs)
        /\ \A d \in DOMAIN dashboards[c] : dashboards[c][d] \in roles =>
             \E o \in Nat : At(reqs, o, RefreshOf(dashboards[c][d]))
  BY <1>1, Refreshing
<1>3. Len(dashboards[c]) \in DOMAIN dashboards[c] /\ dashboards[c][Len(dashboards[c])] = role
  BY DEF CInv, ClientTypes, Last
<1>4. PICK o \in Nat : At(reqs, o, RefreshOf(role))
  BY <1>1, <1>2, <1>3
<1>5. reqs \in Seq(ClientRequest)
  BY RefreshType
<1>. QED
  BY <1>2, <1>4, <1>5 DEF Asks

LEMMA OpeningAsks ==
  ASSUME CInv, NEW c \in Clients, OnMessageReceived(c), Head(toClient[c]).type = "AUTH_OK",
         NEW role \in {"user", "admin"}, Head(toClient[c]).user.role = role
  PROVE  Asks(c, role)
<1>1. SendRequests(c, RefreshOf(role))
  BY DEF OnMessageReceived, OnAuthOk, OnOk, OnRouteOk, OnOther
<1>. DEFINE asked == RefreshOf(role)
<1>2. asked \in Seq(ClientRequest)
  BY RefreshType
<1>. HIDE DEF asked
<1>3. At(asked, 0, asked)
  BY <1>2 DEF At
<1>. QED
  BY <1>1, <1>2, <1>3 DEF asked, Asks

(* A message is read after which the dashboard is, or still is, current.   *)
LEMMA CurrentRead ==
  ASSUME BusInv, NEW c \in Clients, NEW role \in {"user", "admin"}, Received(c),
         Current(c, role)'
  PROVE  LET msg == Head(toClient[c]) IN
         /\ toClient[c] \in Seq(Reply) /\ toClient[c] # <<>> /\ msg \in Reply
         /\ toClient'[c] = Tail(toClient[c]) /\ UNCHANGED logicVars /\ session[c]
         /\ \A types : Carries(toServer[c], types) => Carries(toServer'[c], types)
         /\ \/ msg.type = "AUTH_OK" /\ Asks(c, role)
            \/ /\ msg.type # "AUTH_OK" /\ Current(c, role)
               /\ \/ msg.type = "OK"
                  \/ msg.type = "ROUTE_OK" /\ role = "admin"
                  => Asks(c, role)
<1>. USE DEF BusInv
<1>. DEFINE msg == Head(toClient[c])
<1>1. /\ msg \in Reply /\ toClient' = [toClient EXCEPT ![c] = Tail(@)]
      /\ UNCHANGED <<logicVars, network>>
      /\ UNCHANGED toServer \/ \E reqs \in Seq(Question) : SendRequests(c, reqs)
      /\ \/ /\ msg.type = "AUTH_OK" /\ msg.user \in PublicUser
            /\ dashboards' = [dashboards EXCEPT ![c] = Append(@, msg.user.role)]
         \/ msg.type # "AUTH_OK" /\ UNCHANGED dashboards
  BY Reading DEF Received
<1>2. toClient[c] \in Seq(Reply) /\ toClient[c] # <<>> /\ toClient'[c] = Tail(toClient[c])
  BY <1>1 DEF Received, OnMessageReceived, CInv, ClientTypes
<1>3. session[c] /\ sessionUserId[c] # 0
  BY <1>1 DEF Current, network, logicVars
<1>4. \A types : Carries(toServer[c], types) => Carries(toServer'[c], types)
  <2>1. \A reqs \in Seq(Question) : reqs \in Seq(ClientRequest)
    BY RefreshType
  <2>. QED
    BY <1>1, <2>1, SentCarries
<1>5. CASE msg.type = "AUTH_OK"
  <2>1. PICK r \in {"user", "admin"} : msg.user.role = r
    BY <1>1, <1>5 DEF PublicUser
  <2>2. dashboards'[c] = Append(dashboards[c], r) /\ dashboards[c] \in Seq({"user", "admin"})
    BY <1>1, <1>5, <2>1 DEF CInv, ClientTypes
  <2>3. r = role
    BY <2>2 DEF Current, Last
  <2>4. Asks(c, role)
    BY <1>5, <2>1, <2>3, OpeningAsks DEF Received
  <2>. QED
    BY <1>1, <1>2, <1>3, <1>4, <1>5, <2>4
<1>6. CASE msg.type # "AUTH_OK"
  <2>1. ~Carries(toClient[c], {"AUTH_OK"})
    <3>1. Carries(toClient[c], {"AUTH_OK"}) => Carries(Tail(toClient[c]), {"AUTH_OK"})
      BY <1>2, <1>6, TailCarries
    <3>. QED
      BY <1>2, <3>1 DEF Current
  <2>2. Current(c, role)
    BY <1>1, <1>3, <1>6, <2>1 DEF Current
  <2>3. msg.type = "OK" \/ (msg.type = "ROUTE_OK" /\ role = "admin") => Asks(c, role)
    BY <2>2, NewsAsks DEF Received, Current
  <2>. QED
    BY <1>1, <1>2, <1>3, <1>4, <1>6, <2>2, <2>3
<1>. QED
  BY <1>5, <1>6

(* A request is answered after which the dashboard is still current.       *)
LEMMA CurrentServed ==
  ASSUME BusInv, NEW c \in Clients, NEW role \in {"user", "admin"}, Served(c),
         Current(c, role)'
  PROVE  /\ Current(c, role) /\ UNCHANGED <<sessionUserId, dashboardVars>>
         /\ toServer[c] \in Seq(ClientRequest) /\ toServer[c] # <<>>
         /\ toServer'[c] = Tail(toServer[c]) /\ toClient[c] \in Seq(Reply)
         /\ \E msg \in Reply :
              /\ Answered(c, Head(toServer[c]), msg) /\ msg.type # "AUTH_OK"
              /\ toClient'[c] = Append(toClient[c], msg)
<1>. USE DEF BusInv
<1>1. PICK msg : /\ Answered(c, Head(toServer[c]), msg)
                 /\ toClient' = [toClient EXCEPT ![c] = Append(@, msg)]
  BY Serving DEF Served
<1>2. /\ toServer[c] # <<>> /\ toServer' = [toServer EXCEPT ![c] = Tail(@)]
      /\ UNCHANGED <<network, dashboards, dashboardVars>>
  BY Serving DEF Served
<1>3. msg \in Reply
  BY <1>1 DEF Answered
<1>4. /\ toClient[c] \in Seq(Reply) /\ toClient'[c] = Append(toClient[c], msg)
      /\ toServer[c] \in Seq(ClientRequest) /\ toServer'[c] = Tail(toServer[c])
  BY <1>1, <1>2 DEF CInv, ClientTypes
<1>5. msg.type # "AUTH_OK" /\ ~Carries(toClient[c], {"AUTH_OK"})
  <2>1. Carries(toClient[c], {"AUTH_OK"}) \/ msg.type = "AUTH_OK" =>
          Carries(Append(toClient[c], msg), {"AUTH_OK"})
    BY <1>3, <1>4, AppendCarries
  <2>. QED
    BY <1>4, <2>1 DEF Current
<1>6. UNCHANGED sessionUserId
  BY <1>1, <1>5 DEF Answered
<1>7. Current(c, role)
  BY <1>2, <1>5, <1>6 DEF Current, network
<1>. QED
  BY <1>1, <1>2, <1>3, <1>4, <1>5, <1>6, <1>7

(* A click leaves what has been sent to the client, and who it is.         *)
LEMMA CurrentClicked ==
  ASSUME BusInv, NEW c \in Clients, NEW role, Clicked(c), Current(c, role)'
  PROVE  Current(c, role) /\ UNCHANGED <<logicVars, toClient, session>>
<1>. USE DEF BusInv
<1>1. UNCHANGED <<logicVars, network, toClient, dashboards>>
  BY WindowClicking, RiderClicking, OfficeClicking DEF Clicked, Click, clientVars
<1>. QED
  BY <1>1 DEF Current, logicVars, network

Somebodys(c) == session[c] /\ sessionUserId[c] # 0

(* With one client, no other step leaves the session somebody's but those  *)
(* that do not touch the client.  A new connection is nobody's.            *)
LEMMA SomebodysSteps ==
  ASSUME BusInv, [BusNext]_busVars, NEW c \in Clients, Somebodys(c)',
         \A d \in Clients : d = c
  PROVE  \/ Served(c) \/ Received(c) \/ Clicked(c)
         \/ /\ Same(c) /\ UNCHANGED dashboardVars
            /\ UNCHANGED logicVars
               \/ \E s \in Sessions \ Clients, req \in Requests : HandleMessage(s, req)
<1>. USE DEF BusInv
<1>1. ~Connection(c)
  <2>1. OnConnected(c) => sessionUserId'[c] = 0
    BY ClientAssumption DEF OnConnected, Accept, CInv, IInv, TypeOK
  <2>2. OnConnectionRefused(c) \/ OnDisconnected(c) => ~session'[c]
    BY DEF OnConnectionRefused, OnDisconnected, CInv, Linked
  <2>. QED
    BY <2>1, <2>2 DEF Connection, Somebodys
<1>2. ~ConnectionLost(c)
  BY DEF ConnectionLost, Somebodys, CInv, ClientTypes
<1>3. ~ServerStops
  BY DEF ServerStops, Somebodys
<1>4. CASE \/ OthersAct /\ UNCHANGED <<dashboardVars, faults>>
           \/ ServerStarts
           \/ UNCHANGED busVars
  <2>1. Same(c)
    BY <1>4, Nowhere
  <2>. QED
    BY <1>4, <2>1 DEF OthersAct, ServerStarts, busVars, dashboardVars
<1>. QED
  BY <1>1, <1>2, <1>3, <1>4 DEF BusNext

(* Nor do they make a dashboard current that was not.                      *)
LEMMA CurrentSteps ==
  ASSUME BusInv, [BusNext]_busVars, NEW c \in Clients, NEW role, Current(c, role)',
         \A d \in Clients : d = c
  PROVE  \/ Served(c) \/ Received(c) \/ Clicked(c)
         \/ /\ Current(c, role) /\ Same(c) /\ UNCHANGED dashboardVars
            /\ UNCHANGED logicVars
               \/ \E s \in Sessions \ Clients, req \in Requests : HandleMessage(s, req)
<1>1. Somebodys(c)'
  BY DEF Current, Somebodys
<1>2. Same(c) => Current(c, role)
  BY DEF Same, Current
<1>. QED
  BY <1>1, <1>2, SomebodysSteps

(* More may be asked for.                                                  *)
LEMMA AskedStill ==
  ASSUME NEW reqs, NEW later, NEW msgs, NEW asks, NEW news, NEW kind, NEW good,
         NEW shown \in BOOLEAN, NEW seen \in BOOLEAN,
         UpToDate(reqs, msgs, asks, news, kind, good, shown),
         Carries(reqs, asks) => Carries(later, asks),
         Carries(later, asks) \/ (shown => seen)
  PROVE  UpToDate(later, msgs, asks, news, kind, good, seen)
BY DEF UpToDate
----------------------------------------------------------------------------
(* An administrator's panel *)

RouteEdits == {"ADD_ROUTE", "DEL_ROUTE", "UPDATE_SCHEDULE"}

(* Only they change routes.                                                *)
LEMMA RoutesStay ==
  ASSUME IInv, NEW s \in Sessions, NEW req, WellFormed(req), HandleMessage(s, req),
         req.type \notin RouteEdits
  PROVE  UNCHANGED routes
<1>1. CASE HandlePublic(s, req)
  BY <1>1, PublicKinds DEF QuietStep, JoinStep, AddUser, store
<1>2. CASE \E text : Refuse(s, text)
  BY <1>2 DEF Refuse, Answer, store
<1>3. CASE \/ HandleAddRoute(s, req) \/ HandleDelRoute(s, req)
           \/ HandleUpdateSchedule(s, req) \/ HandleGetUsers(s, req)
           \/ HandleGetUserDetail(s, req) \/ HandleGetDemand(s, req)
  BY <1>3 DEF RouteEdits, HandleAddRoute, HandleDelRoute, HandleUpdateSchedule, HandleGetUsers,
    HandleGetUserDetail, HandleGetDemand, Refuse, Answer, store
<1>4. CASE \/ HandleSubscribe(s, req) \/ HandleUnsubscribe(s, req)
           \/ HandleGetSubs(s, req) \/ HandleRide(s, req) \/ HandleGetTickets(s, req)
           \/ HandleSetVotes(s, req) \/ HandleGetVotes(s, req)
  BY <1>4 DEF HandleSubscribe, HandleUnsubscribe, HandleGetSubs, HandleRide, HandleGetTickets,
    HandleSetVotes, HandleGetVotes, RideRecorded, RideCharged, Subscribe, Unsubscribe, IssueTicket,
    SetVotes, Refuse, Answer, store
<1>. QED
  BY <1>1, <1>2, <1>3, <1>4 DEF HandleMessage, HandleAuthenticated

RoutesList == [type |-> "ROUTES_LIST", routes |-> routes]

(* The panel shows the routes on file, or will: an OK or ROUTE_OK asks for *)
(* them, an edit of a schedule is answered with OK, and the list that is   *)
(* read last, if one is to come that nothing follows, is the one on file.  *)
PanelUpToDate(c) ==
  UpToDate(toServer[c], toClient[c], {"GET_ROUTES", "UPDATE_SCHEDULE"}, {"OK", "ROUTE_OK"},
           "ROUTES_LIST", {RoutesList}, Filled(panel[c], routes))

PanelsInv == \A c \in Clients : Current(c, "admin") => PanelUpToDate(c)

LEMMA SettledPanels == PanelsInv => SettledPanelCurrent
<1>. SUFFICES ASSUME PanelsInv, NEW c \in Clients, Settled(c, "admin"), sessionUserId[c] # 0
              PROVE  Filled(panel[c], routes)
  BY DEF SettledPanelCurrent, Filled, DataOf
<1>1. toServer[c] = <<>> /\ toClient[c] = <<>> /\ Current(c, "admin")
  BY DEF Settled, Shows, Idle, Current, Carries
<1>2. Filled(panel[c], routes) \in BOOLEAN
  BY DEF Filled
<1>3. UpToDate(<<>>, <<>>, {"GET_ROUTES", "UPDATE_SCHEDULE"}, {"OK", "ROUTE_OK"},
               "ROUTES_LIST", {RoutesList}, Filled(panel[c], routes))
  BY <1>1 DEF PanelsInv, PanelUpToDate
<1>. QED
  BY <1>2, <1>3, ShownInTheEnd

LEMMA PanelServed ==
  ASSUME BusInv, NEW c \in Clients, Served(c), Current(c, "admin")',
         Current(c, "admin") => PanelUpToDate(c)
  PROVE  PanelUpToDate(c)'
<1>1. /\ Current(c, "admin") /\ UNCHANGED <<sessionUserId, dashboardVars>>
      /\ toServer[c] \in Seq(ClientRequest) /\ toServer[c] # <<>>
      /\ toServer'[c] = Tail(toServer[c]) /\ toClient[c] \in Seq(Reply)
  BY CurrentServed
<1>2. PICK msg \in Reply :
        /\ Answered(c, Head(toServer[c]), msg) /\ msg.type # "AUTH_OK"
        /\ toClient'[c] = Append(toClient[c], msg)
  BY CurrentServed
<1>3. IsAdmin(c)
  BY <1>1, CurrentOwner
<1>4. Filled(panel[c], routes) \in BOOLEAN /\ Filled(panel[c], routes)' \in BOOLEAN
  BY DEF Filled
<1>5. PanelUpToDate(c)
  BY <1>1
<1>6. \/ msg.type \in {"OK", "ROUTE_OK"}
      \/ /\ Head(toServer[c]).type \in {"GET_ROUTES", "UPDATE_SCHEDULE"} =>
              msg.type = "ROUTES_LIST"
         /\ msg.type = "ROUTES_LIST" => msg \in {RoutesList'}
         /\ {RoutesList} \subseteq {RoutesList'}
         /\ Filled(panel[c], routes) => Filled(panel[c], routes)'
  <2>. SUFFICES ASSUME msg.type \notin {"OK", "ROUTE_OK"}
                PROVE  /\ Head(toServer[c]).type \in {"GET_ROUTES", "UPDATE_SCHEDULE"} =>
                           msg.type = "ROUTES_LIST"
                       /\ msg.type = "ROUTES_LIST" => msg = RoutesList
                       /\ UNCHANGED <<routes, panel[c]>>
    BY DEF RoutesList
  <2>1. UNCHANGED <<routes, panel[c]>>
    BY <1>1, <1>2 DEF Answered, store, dashboardVars, panelVars
  <2>2. msg.type = "ROUTES_LIST" => msg = RoutesList
    BY <1>2 DEF Answered, Listed, RoutesList
  <2>3. Head(toServer[c]).type \in {"GET_ROUTES", "UPDATE_SCHEDULE"} => msg.type = "ROUTES_LIST"
    BY <1>2, <1>3 DEF Answered, Heard
  <2>. QED
    BY <2>1, <2>2, <2>3
<1>7. UpToDate(Tail(toServer[c]), Append(toClient[c], msg), {"GET_ROUTES", "UPDATE_SCHEDULE"},
               {"OK", "ROUTE_OK"}, "ROUTES_LIST", {RoutesList'}, Filled(panel[c], routes)')
  <2>. DEFINE asks == {"GET_ROUTES", "UPDATE_SCHEDULE"}
              news == {"OK", "ROUTE_OK"}
  <2>1. UpToDate(toServer[c], toClient[c], asks, news, "ROUTES_LIST", {RoutesList},
                 Filled(panel[c], routes))
    BY <1>5 DEF PanelUpToDate
  <2>2. \/ msg.type \in news
        \/ /\ Head(toServer[c]).type \in asks => msg.type = "ROUTES_LIST"
           /\ msg.type = "ROUTES_LIST" => msg \in {RoutesList'}
           /\ {RoutesList} \subseteq {RoutesList'}
           /\ Filled(panel[c], routes) => Filled(panel[c], routes)'
    BY <1>6
  <2>. HIDE DEF asks, news
  <2>3. UpToDate(Tail(toServer[c]), Append(toClient[c], msg), asks, news, "ROUTES_LIST",
                 {RoutesList'}, Filled(panel[c], routes)')
    <3>1. /\ toServer[c] \in Seq(ClientRequest) /\ toServer[c] # <<>>
          /\ toClient[c] \in Seq(Reply) /\ msg \in Reply
      BY <1>1, <1>2
    <3>. QED
      BY <1>4, <2>1, <2>2, <3>1, AnsweredStill
  <2>. QED
    BY <2>3 DEF asks, news
<1>. QED
  BY <1>1, <1>2, <1>7 DEF PanelUpToDate

LEMMA PanelRead ==
  ASSUME BusInv, NEW c \in Clients, Received(c), Current(c, "admin")',
         Current(c, "admin") => PanelUpToDate(c)
  PROVE  PanelUpToDate(c)'
<1>. DEFINE msg == Head(toClient[c])
<1>1. /\ toClient[c] \in Seq(Reply) /\ toClient[c] # <<>> /\ msg \in Reply
      /\ toClient'[c] = Tail(toClient[c]) /\ UNCHANGED logicVars /\ session[c]
      /\ \A types : Carries(toServer[c], types) => Carries(toServer'[c], types)
      /\ \/ msg.type = "AUTH_OK" /\ Asks(c, "admin")
         \/ /\ msg.type # "AUTH_OK" /\ Current(c, "admin")
            /\ msg.type \in {"OK", "ROUTE_OK"} => Asks(c, "admin")
  BY CurrentRead
<1>2. Asks(c, "admin") => Carries(toServer'[c], {"GET_ROUTES", "UPDATE_SCHEDULE"})
  <2>1. /\ CInv /\ session[c] /\ "admin" \in {"user", "admin"} /\ 1 \in DOMAIN RefreshOf("admin")
        /\ RefreshOf("admin")[1].type \in {"GET_ROUTES", "UPDATE_SCHEDULE"}
    BY <1>1 DEF BusInv, RefreshOf, AdminRefresh
  <2>. QED
    BY <2>1, Asked
<1>3. CASE msg.type = "AUTH_OK"
  BY <1>1, <1>2, <1>3 DEF PanelUpToDate, UpToDate
<1>4. CASE msg.type # "AUTH_OK"
  <2>1. Filled(panel[c], routes) \in BOOLEAN /\ Filled(panel[c], routes)' \in BOOLEAN
    BY DEF Filled
  <2>2. PanelUpToDate(c) /\ ~NoPanel(c)
    BY <1>1, <1>4, CurrentOwner
  <2>3. PICK p \in Panel :
          /\ panel' = [panel EXCEPT ![c] = p]
          /\ msg.type = "ROUTES_LIST" => Filled(p, msg.routes)
          /\ msg.type # "ROUTES_LIST" => SameTrips(p, panel[c])
    BY <1>4, <2>2, Paneling DEF Received, BusInv
  <2>4. panel'[c] = p /\ routes' = routes
    BY <1>1, <2>3 DEF BusInv, PInv, logicVars, store
  <2>5. msg.type = "ROUTES_LIST" /\ msg \in {RoutesList} => Filled(panel[c], routes)'
    BY <2>3, <2>4 DEF RoutesList
  <2>6. msg.type # "ROUTES_LIST" /\ Filled(panel[c], routes) => Filled(panel[c], routes)'
    BY <2>3, <2>4 DEF Filled, SameTrips
  <2>7. msg.type \in {"OK", "ROUTE_OK"} =>
          Carries(toServer'[c], {"GET_ROUTES", "UPDATE_SCHEDULE"})
    BY <1>1, <1>2, <1>4
  <2>8. UpToDate(toServer'[c], Tail(toClient[c]), {"GET_ROUTES", "UPDATE_SCHEDULE"},
                 {"OK", "ROUTE_OK"}, "ROUTES_LIST", {RoutesList}, Filled(panel[c], routes)')
    <3>. DEFINE asks == {"GET_ROUTES", "UPDATE_SCHEDULE"}
                news == {"OK", "ROUTE_OK"}
                good == {RoutesList}
    <3>1. /\ toClient[c] \in Seq(Reply) /\ toClient[c] # <<>>
          /\ Carries(toServer[c], asks) => Carries(toServer'[c], asks)
          /\ Head(toClient[c]).type \in news => Carries(toServer'[c], asks)
          /\ UpToDate(toServer[c], toClient[c], asks, news, "ROUTES_LIST", good,
                      Filled(panel[c], routes))
      BY <1>1, <2>2, <2>7 DEF PanelUpToDate
    <3>2. /\ Head(toClient[c]).type = "ROUTES_LIST" /\ Head(toClient[c]) \in good =>
               Filled(panel[c], routes)'
          /\ Head(toClient[c]).type # "ROUTES_LIST" /\ Filled(panel[c], routes) =>
               Filled(panel[c], routes)'
      BY <2>5, <2>6
    <3>. HIDE DEF asks, news, good
    <3>3. UpToDate(toServer'[c], Tail(toClient[c]), asks, news, "ROUTES_LIST", good,
                   Filled(panel[c], routes)')
      BY <2>1, <3>1, <3>2, ReadStill
    <3>. QED
      BY <3>3 DEF asks, news, good
  <2>9. RoutesList' = RoutesList
    BY <2>4 DEF RoutesList
  <2>. QED
    BY <1>1, <2>8, <2>9 DEF PanelUpToDate
<1>. QED
  BY <1>3, <1>4

LEMMA PanelClicked ==
  ASSUME BusInv, NEW c \in Clients, Clicked(c), Current(c, "admin")',
         Current(c, "admin") => PanelUpToDate(c)
  PROVE  PanelUpToDate(c)'
<1>. USE DEF BusInv
<1>. DEFINE asks == {"GET_ROUTES", "UPDATE_SCHEDULE"}
<1>1. Current(c, "admin") /\ UNCHANGED <<logicVars, toClient, session>>
  BY CurrentClicked
<1>2. PanelUpToDate(c) /\ session[c] /\ UNCHANGED <<routes, toClient[c]>> /\ RoutesList' = RoutesList
  BY <1>1 DEF Current, logicVars, store, RoutesList
<1>3. Filled(panel[c], routes) \in BOOLEAN /\ Filled(panel[c], routes)' \in BOOLEAN
  BY DEF Filled
<1>4. \A req \in ClientRequest : <<req>> \in Seq(ClientRequest)
  OBVIOUS
<1>5. \A reqs \in Seq(Question) : reqs \in Seq(ClientRequest)
  BY RefreshType
<1>6. Carries(toServer[c], asks) => Carries(toServer'[c], asks)
  BY <1>4, <1>5, WindowClicking, RiderClicking, OfficeClicking, SentCarries DEF Clicked, clientVars
<1>7. Carries(toServer'[c], asks) \/ (Filled(panel[c], routes) => Filled(panel[c], routes)')
  <2>1. CASE UNCHANGED panelVars
    BY <1>2, <2>1 DEF panelVars
  <2>2. CASE OfficeClicks(c)
    <3>1. PICK p \in Panel :
            /\ panel' = [panel EXCEPT ![c] = p]
            /\ \/ Fits(p) /\ p.routesData = panel[c].routesData /\ p.box # 0
               \/ \E req \in ClientRequest :
                    /\ SendRequests(c, <<req>>)
                    /\ SameTrips(p, panel[c]) \/ req.type = "UPDATE_SCHEDULE"
               \/ SameTrips(p, panel[c])
      BY <2>2, OfficeClicking
    <3>2. panel'[c] = p
      BY <3>1 DEF PInv
    <3>3. CASE Fits(p) /\ p.routesData = panel[c].routesData /\ p.box # 0
      BY <1>2, <3>2, <3>3 DEF Filled, Fits
    <3>4. CASE SameTrips(p, panel[c])
      BY <1>2, <3>2, <3>4 DEF Filled, SameTrips
    <3>5. ASSUME NEW req \in ClientRequest, SendRequests(c, <<req>>),
                 req.type = "UPDATE_SCHEDULE"
          PROVE  Carries(toServer'[c], asks)
      <4>1. 1 \in DOMAIN <<req>> /\ <<req>>[1] = req
        OBVIOUS
      <4>2. Carries(<<req>>, asks)
        BY <3>5, <4>1 DEF Carries
      <4>. QED
        BY <1>2, <1>4, <3>5, <4>2, SentCarries
    <3>. QED
      BY <3>1, <3>3, <3>4, <3>5
  <2>. QED
    BY <2>1, <2>2 DEF Clicked, dashboardVars
<1>8. UpToDate(toServer'[c], toClient[c], asks, {"OK", "ROUTE_OK"}, "ROUTES_LIST", {RoutesList},
               Filled(panel[c], routes)')
  <2>. DEFINE news == {"OK", "ROUTE_OK"}
              good == {RoutesList}
  <2>1. UpToDate(toServer[c], toClient[c], asks, news, "ROUTES_LIST", good,
                 Filled(panel[c], routes))
    BY <1>2 DEF PanelUpToDate
  <2>. HIDE DEF asks, news, good
  <2>2. UpToDate(toServer'[c], toClient[c], asks, news, "ROUTES_LIST", good,
                 Filled(panel[c], routes)')
    BY <1>3, <1>6, <1>7, <2>1, AskedStill
  <2>. QED
    BY <2>2 DEF news, good
<1>. QED
  BY <1>2, <1>8 DEF PanelUpToDate

LEMMA BusNextPanels ==
  ASSUME \A c, d \in Clients : c = d, \A req \in Requests : req.type \notin RouteEdits,
         BusInv, PanelsInv, [BusNext]_busVars
  PROVE  PanelsInv'
<1>. SUFFICES ASSUME NEW c \in Clients, Current(c, "admin")' PROVE PanelUpToDate(c)'
  BY DEF PanelsInv
<1>1. \/ Served(c) \/ Received(c) \/ Clicked(c)
      \/ /\ Current(c, "admin") /\ Same(c) /\ UNCHANGED dashboardVars
         /\ UNCHANGED logicVars
            \/ \E s \in Sessions \ Clients, req \in Requests : HandleMessage(s, req)
  BY CurrentSteps
<1>2. ASSUME Current(c, "admin"), Same(c), UNCHANGED routes
      PROVE  PanelUpToDate(c)'
  BY <1>2 DEF PanelsInv, PanelUpToDate, Same, RoutesList
<1>3. ASSUME NEW s \in Sessions \ Clients, NEW req \in Requests, HandleMessage(s, req)
      PROVE  UNCHANGED routes
  BY <1>3, RequestAssumption, RoutesStay DEF BusInv, CInv
<1>. QED
  BY <1>1, <1>2, <1>3, PanelServed, PanelRead, PanelClicked
  DEF PanelsInv, logicVars, store

LEMMA BusInitPanels == BusInit => PanelsInv
BY DEF BusInit, ClientInit, PanelsInv, Current

(* Whatever an administrator edits, and however fast, over logouts, broken *)
(* connections and restarts of the server: once all is answered, the panel *)
(* shows what is on file.  Nobody else may change routes, since nothing    *)
(* tells a panel that another one did (AdminDashboard.cpp asks only after  *)
(* OK and ROUTE_OK to itself).                                             *)
THEOREM SettledPanelsCurrent ==
  ASSUME \A c, d \in Clients : c = d, \A req \in Requests : req.type \notin RouteEdits
  PROVE  BusSpec => []SettledPanelCurrent
<1>1. BusInit => BusInv /\ PanelsInv
  BY BusInitInv, BusInitPanels
<1>2. BusInv /\ PanelsInv /\ [BusNext]_busVars => (BusInv /\ PanelsInv)'
  BY BusNextInv, BusNextPanels
<1>3. PanelsInv => SettledPanelCurrent
  BY SettledPanels
<1>. QED
  BY <1>1, <1>2, <1>3, PTL DEF BusSpec
----------------------------------------------------------------------------
(* A rider's lists *)

LEMMA RiderServed ==
  ASSUME BusInv, NEW c \in Clients, Served(c), Current(c, "user")'
  PROVE  /\ Current(c, "user") /\ UNCHANGED <<sessionUserId, view>>
         /\ toServer[c] \in Seq(ClientRequest) /\ toServer[c] # <<>>
         /\ toServer'[c] = Tail(toServer[c]) /\ toClient[c] \in Seq(Reply)
         /\ \E msg \in Reply :
              /\ toClient'[c] = Append(toClient[c], msg)
              /\ Listed(c, msg) /\ Heard(c, Head(toServer[c]), msg)
              /\ msg.type = "OK" \/ UNCHANGED store
<1>1. /\ Current(c, "user") /\ UNCHANGED <<sessionUserId, dashboardVars>>
      /\ toServer[c] \in Seq(ClientRequest) /\ toServer[c] # <<>>
      /\ toServer'[c] = Tail(toServer[c]) /\ toClient[c] \in Seq(Reply)
  BY CurrentServed
<1>2. PICK msg \in Reply :
        /\ Answered(c, Head(toServer[c]), msg) /\ msg.type # "AUTH_OK"
        /\ toClient'[c] = Append(toClient[c], msg)
  BY CurrentServed
<1>3. ~IsAdmin(c)
  BY <1>1, CurrentOwner
<1>4. Listed(c, msg) /\ Heard(c, Head(toServer[c]), msg) /\ (msg.type = "OK" \/ UNCHANGED store)
  BY <1>2, <1>3 DEF Answered
<1>. QED
  BY <1>1, <1>2, <1>4 DEF dashboardVars, viewVars

(* A list stays up to date when a request is answered ...                  *)
LEMMA ListServed ==
  ASSUME BusInv, NEW c \in Clients, Served(c), Current(c, "user")',
         NEW asks, NEW kind, NEW good, NEW better, NEW shown \in BOOLEAN, NEW seen \in BOOLEAN,
         UpToDate(toServer[c], toClient[c], asks, {"OK"}, kind, good, shown),
         \A msg \in Reply :
           /\ Listed(c, msg) /\ Heard(c, Head(toServer[c]), msg)
           /\ UNCHANGED <<store, sessionUserId, view>> /\ msg.type # "OK"
           => /\ Head(toServer[c]).type \in asks => msg.type = kind
              /\ msg.type = kind => msg \in better
              /\ good \subseteq better /\ (shown => seen)
  PROVE  UpToDate(toServer'[c], toClient'[c], asks, {"OK"}, kind, better, seen)
<1>1. /\ UNCHANGED <<sessionUserId, view>>
      /\ toServer[c] \in Seq(ClientRequest) /\ toServer[c] # <<>>
      /\ toServer'[c] = Tail(toServer[c]) /\ toClient[c] \in Seq(Reply)
  BY RiderServed
<1>2. PICK msg \in Reply :
        /\ toClient'[c] = Append(toClient[c], msg)
        /\ Listed(c, msg) /\ Heard(c, Head(toServer[c]), msg)
        /\ msg.type = "OK" \/ UNCHANGED store
  BY RiderServed
<1>. DEFINE news == {"OK"}
<1>3. \/ msg.type \in news
      \/ /\ Head(toServer[c]).type \in asks => msg.type = kind
         /\ msg.type = kind => msg \in better
         /\ good \subseteq better /\ (shown => seen)
  BY <1>1, <1>2
<1>4. UpToDate(toServer[c], toClient[c], asks, news, kind, good, shown)
  OBVIOUS
<1>. HIDE DEF news
<1>5. UpToDate(Tail(toServer[c]), Append(toClient[c], msg), asks, news, kind, better, seen)
  BY <1>1, <1>2, <1>3, <1>4, AnsweredStill
<1>. QED
  BY <1>1, <1>2, <1>5 DEF news

(* ... and when a message is read.                                         *)
LEMMA ListRead ==
  ASSUME BusInv, NEW c \in Clients, Received(c), Current(c, "user")',
         NEW asks, NEW kind, NEW good, NEW shown \in BOOLEAN, NEW seen \in BOOLEAN,
         NEW i \in DOMAIN UserRefresh, UserRefresh[i].type \in asks,
         Current(c, "user") => UpToDate(toServer[c], toClient[c], asks, {"OK"}, kind, good, shown),
         Current(c, "user") /\ Head(toClient[c]).type # "AUTH_OK" =>
           /\ Head(toClient[c]).type = kind /\ Head(toClient[c]) \in good => seen
           /\ Head(toClient[c]).type # kind /\ shown => seen
  PROVE  UpToDate(toServer'[c], toClient'[c], asks, {"OK"}, kind, good, seen)
<1>. DEFINE msg == Head(toClient[c])
<1>1. /\ toClient[c] \in Seq(Reply) /\ toClient[c] # <<>>
      /\ toClient'[c] = Tail(toClient[c]) /\ session[c]
      /\ \A types : Carries(toServer[c], types) => Carries(toServer'[c], types)
      /\ \/ msg.type = "AUTH_OK" /\ Asks(c, "user")
         \/ /\ msg.type # "AUTH_OK" /\ Current(c, "user")
            /\ msg.type = "OK" => Asks(c, "user")
  BY CurrentRead
<1>2. Asks(c, "user") => Carries(toServer'[c], asks)
  <2>1. /\ CInv /\ session[c] /\ "user" \in {"user", "admin"} /\ i \in DOMAIN RefreshOf("user")
        /\ RefreshOf("user")[i].type \in asks
    BY <1>1 DEF BusInv, RefreshOf
  <2>. QED
    BY <2>1, Asked
<1>3. CASE msg.type = "AUTH_OK"
  BY <1>1, <1>2, <1>3 DEF UpToDate
<1>4. CASE msg.type # "AUTH_OK"
  <2>. DEFINE news == {"OK"}
  <2>1. /\ UpToDate(toServer[c], toClient[c], asks, news, kind, good, shown)
        /\ Carries(toServer[c], asks) => Carries(toServer'[c], asks)
        /\ Head(toClient[c]).type \in news => Carries(toServer'[c], asks)
        /\ Head(toClient[c]).type = kind /\ Head(toClient[c]) \in good => seen
        /\ Head(toClient[c]).type # kind /\ shown => seen
    BY <1>1, <1>2, <1>4
  <2>. HIDE DEF news
  <2>2. UpToDate(toServer'[c], Tail(toClient[c]), asks, news, kind, good, seen)
    <3>1. toClient[c] \in Seq(Reply) /\ toClient[c] # <<>>
      BY <1>1
    <3>. QED
      BY <2>1, <3>1, ReadStill
  <2>. QED
    BY <1>1, <2>2 DEF news
<1>. QED
  BY <1>3, <1>4

(* What a click does to a rider's view: it changes the cache of requests,  *)
(* and sends it, or nothing.                                               *)
LEMMA RiderClicked ==
  ASSUME BusInv, NEW c \in Clients, Clicked(c), Current(c, "user")'
  PROVE  /\ Current(c, "user") /\ UNCHANGED <<logicVars, toClient[c]>>
         /\ \A types : Carries(toServer[c], types) => Carries(toServer'[c], types)
         /\ UNCHANGED <<view[c].tickets, view[c].routes, view[c].subs, view[c].requests>>
         /\ UNCHANGED view[c] \/ Carries(toServer'[c], {"GET_VOTES", "SET_VOTES"})
<1>. USE DEF BusInv
<1>1. Current(c, "user") /\ UNCHANGED <<logicVars, toClient, session>>
  BY CurrentClicked
<1>2. \A req \in ClientRequest : <<req>> \in Seq(ClientRequest)
  OBVIOUS
<1>3. \A reqs \in Seq(Question) : reqs \in Seq(ClientRequest)
  BY RefreshType
<1>4. \A types : Carries(toServer[c], types) => Carries(toServer'[c], types)
  BY <1>2, <1>3, WindowClicking, RiderClicking, OfficeClicking, SentCarries DEF Clicked, clientVars
<1>5. CASE UNCHANGED viewVars
  BY <1>1, <1>4, <1>5 DEF viewVars
<1>6. CASE RiderClicks(c)
  <2>1. PICK vs \in Seq(RouteVote) : view' = [view EXCEPT ![c] = [view[c] EXCEPT !.myVotes = vs]]
    BY <1>6, RiderClicking
  <2>2. UNCHANGED <<view[c].tickets, view[c].routes, view[c].subs, view[c].requests>>
    BY <2>1 DEF VInv, View
  <2>3. UNCHANGED view[c] \/ Carries(toServer'[c], {"GET_VOTES", "SET_VOTES"})
    <3>1. PICK req \in ClientRequest :
            SendRequests(c, <<req>>) /\ (req.type = "SET_VOTES" \/ UNCHANGED view)
      BY <1>6, RiderClicking
    <3>2. ASSUME req.type = "SET_VOTES"
          PROVE  Carries(toServer'[c], {"GET_VOTES", "SET_VOTES"})
      <4>1. 1 \in DOMAIN <<req>> /\ <<req>>[1] = req /\ session[c]
        BY <1>1 DEF Current
      <4>2. Carries(<<req>>, {"GET_VOTES", "SET_VOTES"})
        BY <3>2, <4>1 DEF Carries
      <4>. QED
        BY <1>2, <3>1, <4>1, <4>2, SentCarries
    <3>. QED
      BY <3>1, <3>2
  <2>. QED
    BY <1>1, <1>4, <2>2, <2>3
<1>. QED
  BY <1>5, <1>6 DEF Clicked, dashboardVars
----------------------------------------------------------------------------
(* The tickets and the requests on file are what is shown, or will be.     *)
TicketsList(uid) == [type |-> "TICKETS", tickets |-> RowsOf(uid, tickets)]

TicketsShown(c) == view[c].tickets = RowsOf(sessionUserId[c], tickets)

TicketsUpToDate(c) ==
  UpToDate(toServer[c], toClient[c], {"GET_TICKETS"}, {"OK"}, "TICKETS",
           {TicketsList(sessionUserId[c])}, TicketsShown(c))

VotesList(uid) == [type |-> "VOTES_LIST", votes |-> votes[uid]]

VotesShown(c) ==
  view[c].myVotes = votes[sessionUserId[c]] /\ view[c].requests = view[c].myVotes

VotesUpToDate(c) ==
  UpToDate(toServer[c], toClient[c], {"GET_VOTES", "SET_VOTES"}, {"OK"}, "VOTES_LIST",
           {VotesList(sessionUserId[c])}, VotesShown(c))

ListsInv == \A c \in Clients : Current(c, "user") => TicketsUpToDate(c) /\ VotesUpToDate(c)

LEMMA ShownBoolean ==
  ASSUME NEW c
  PROVE  /\ TicketsShown(c) \in BOOLEAN /\ TicketsShown(c)' \in BOOLEAN
         /\ VotesShown(c) \in BOOLEAN /\ VotesShown(c)' \in BOOLEAN
BY DEF TicketsShown, VotesShown

LEMMA ListsServed ==
  ASSUME BusInv, NEW c \in Clients, Served(c), Current(c, "user")'
  PROVE  /\ (Current(c, "user") => TicketsUpToDate(c)) => TicketsUpToDate(c)'
         /\ (Current(c, "user") => VotesUpToDate(c)) => VotesUpToDate(c)'
<1>. DEFINE uid == sessionUserId[c]
<1>1. Current(c, "user") /\ uid # 0 /\ UNCHANGED uid
  BY RiderServed DEF Current
<1>3. ASSUME Current(c, "user") => TicketsUpToDate(c)
      PROVE  TicketsUpToDate(c)'
  <2>1. ASSUME NEW msg \in Reply, Listed(c, msg), Heard(c, Head(toServer[c]), msg),
               UNCHANGED <<store, sessionUserId, view>>, msg.type # "OK"
        PROVE  /\ Head(toServer[c]).type \in {"GET_TICKETS"} => msg.type = "TICKETS"
               /\ msg.type = "TICKETS" => msg \in {TicketsList(uid)'}
               /\ {TicketsList(uid)} \subseteq {TicketsList(uid)'}
               /\ TicketsShown(c) => TicketsShown(c)'
    <3>1. TicketsList(uid)' = TicketsList(uid) /\ TicketsShown(c)' = TicketsShown(c)
      BY <2>1 DEF TicketsList, TicketsShown, store
    <3>2. msg.type = "TICKETS" => msg = TicketsList(uid)
      BY <2>1 DEF Listed, TicketsList
    <3>3. Head(toServer[c]).type = "GET_TICKETS" => msg.type = "TICKETS"
      BY <1>1, <2>1 DEF Heard
    <3>. QED
      BY <3>1, <3>2, <3>3
  <2>2. UpToDate(toServer[c], toClient[c], {"GET_TICKETS"}, {"OK"}, "TICKETS",
                 {TicketsList(uid)}, TicketsShown(c))
    BY <1>1, <1>3 DEF TicketsUpToDate
  <2>3. UpToDate(toServer'[c], toClient'[c], {"GET_TICKETS"}, {"OK"}, "TICKETS",
                 {TicketsList(uid)'}, TicketsShown(c)')
    BY <2>1, <2>2, ShownBoolean, ListServed
  <2>. QED
    BY <2>3 DEF TicketsUpToDate
<1>4. ASSUME Current(c, "user") => VotesUpToDate(c)
      PROVE  VotesUpToDate(c)'
  <2>. DEFINE asks == {"GET_VOTES", "SET_VOTES"}
  <2>1. ASSUME NEW msg \in Reply, Listed(c, msg), Heard(c, Head(toServer[c]), msg),
               UNCHANGED <<store, sessionUserId, view>>, msg.type # "OK"
        PROVE  /\ Head(toServer[c]).type \in asks => msg.type = "VOTES_LIST"
               /\ msg.type = "VOTES_LIST" => msg \in {VotesList(uid)'}
               /\ {VotesList(uid)} \subseteq {VotesList(uid)'}
               /\ VotesShown(c) => VotesShown(c)'
    <3>1. VotesList(uid)' = VotesList(uid) /\ VotesShown(c)' = VotesShown(c)
      BY <2>1 DEF VotesList, VotesShown, store
    <3>2. msg.type = "VOTES_LIST" => msg = VotesList(uid)
      BY <2>1 DEF Listed, VotesList
    <3>3. Head(toServer[c]).type \in asks => msg.type = "VOTES_LIST"
      BY <1>1, <2>1 DEF Heard
    <3>. QED
      BY <3>1, <3>2, <3>3
  <2>2. UpToDate(toServer[c], toClient[c], asks, {"OK"}, "VOTES_LIST",
                 {VotesList(uid)}, VotesShown(c))
    BY <1>1, <1>4 DEF VotesUpToDate
  <2>3. UpToDate(toServer'[c], toClient'[c], asks, {"OK"}, "VOTES_LIST",
                 {VotesList(uid)'}, VotesShown(c)')
    <3>. HIDE DEF asks
    <3>. QED
      BY <2>1, <2>2, ShownBoolean, ListServed
  <2>. QED
    BY <2>3 DEF VotesUpToDate
<1>. QED
  BY <1>3, <1>4

LEMMA ListsRead ==
  ASSUME BusInv, NEW c \in Clients, Received(c), Current(c, "user")'
  PROVE  /\ (Current(c, "user") => TicketsUpToDate(c)) => TicketsUpToDate(c)'
         /\ (Current(c, "user") => VotesUpToDate(c)) => VotesUpToDate(c)'
<1>. DEFINE uid == sessionUserId[c]
            msg == Head(toClient[c])
<1>1. UNCHANGED <<uid, tickets, votes>>
  BY CurrentRead DEF logicVars, store
<1>2. ASSUME Current(c, "user"), msg.type # "AUTH_OK"
      PROVE  /\ view'[c].tickets = IF msg.type = "TICKETS" THEN msg.tickets ELSE view[c].tickets
             /\ view'[c].requests = IF msg.type = "VOTES_LIST" THEN msg.votes ELSE view[c].requests
             /\ view'[c].myVotes = IF msg.type = "VOTES_LIST" THEN msg.votes ELSE view[c].myVotes
  <2>1. ~NoView(c)
    BY <1>2, CurrentOwner
  <2>2. PICK v \in View :
          /\ view' = [view EXCEPT ![c] = v]
          /\ v.tickets = IF msg.type = "TICKETS" THEN msg.tickets ELSE view[c].tickets
          /\ v.requests = IF msg.type = "VOTES_LIST" THEN msg.votes ELSE view[c].requests
          /\ v.myVotes = IF msg.type = "VOTES_LIST" THEN msg.votes ELSE view[c].myVotes
    BY <1>2, <2>1, Showing DEF Received, BusInv
  <2>3. view'[c] = v
    BY <2>2 DEF BusInv, VInv
  <2>. QED
    BY <2>2, <2>3
<1>3. ASSUME Current(c, "user") => TicketsUpToDate(c)
      PROVE  TicketsUpToDate(c)'
  <2>. DEFINE asks == {"GET_TICKETS"}
              good == {TicketsList(uid)}
  <2>1. TicketsList(uid)' = TicketsList(uid)
    BY <1>1 DEF TicketsList
  <2>2. /\ 3 \in DOMAIN UserRefresh /\ UserRefresh[3].type \in asks
        /\ Current(c, "user") =>
             UpToDate(toServer[c], toClient[c], asks, {"OK"}, "TICKETS", good, TicketsShown(c))
    BY <1>3 DEF UserRefresh, TicketsUpToDate
  <2>3. Current(c, "user") /\ Head(toClient[c]).type # "AUTH_OK" =>
          /\ Head(toClient[c]).type = "TICKETS" /\ Head(toClient[c]) \in good => TicketsShown(c)'
          /\ Head(toClient[c]).type # "TICKETS" /\ TicketsShown(c) => TicketsShown(c)'
    BY <1>1, <1>2 DEF TicketsList, TicketsShown
  <2>. HIDE DEF asks, good
  <2>4. UpToDate(toServer'[c], toClient'[c], asks, {"OK"}, "TICKETS", good, TicketsShown(c)')
    BY <2>2, <2>3, ShownBoolean, ListRead
  <2>. QED
    BY <2>1, <2>4 DEF TicketsUpToDate, asks, good
<1>4. ASSUME Current(c, "user") => VotesUpToDate(c)
      PROVE  VotesUpToDate(c)'
  <2>. DEFINE asks == {"GET_VOTES", "SET_VOTES"}
              good == {VotesList(uid)}
  <2>1. VotesList(uid)' = VotesList(uid)
    BY <1>1 DEF VotesList
  <2>2. /\ 4 \in DOMAIN UserRefresh /\ UserRefresh[4].type \in asks
        /\ Current(c, "user") =>
             UpToDate(toServer[c], toClient[c], asks, {"OK"}, "VOTES_LIST", good, VotesShown(c))
    BY <1>4 DEF UserRefresh, VotesUpToDate
  <2>3. Current(c, "user") /\ Head(toClient[c]).type # "AUTH_OK" =>
          /\ Head(toClient[c]).type = "VOTES_LIST" /\ Head(toClient[c]) \in good => VotesShown(c)'
          /\ Head(toClient[c]).type # "VOTES_LIST" /\ VotesShown(c) => VotesShown(c)'
    BY <1>1, <1>2 DEF VotesList, VotesShown
  <2>. HIDE DEF asks, good
  <2>4. UpToDate(toServer'[c], toClient'[c], asks, {"OK"}, "VOTES_LIST", good, VotesShown(c)')
    BY <2>2, <2>3, ShownBoolean, ListRead
  <2>. QED
    BY <2>1, <2>4 DEF VotesUpToDate, asks, good
<1>. QED
  BY <1>3, <1>4

LEMMA ListsClicked ==
  ASSUME BusInv, NEW c \in Clients, Clicked(c), Current(c, "user")'
  PROVE  /\ (Current(c, "user") => TicketsUpToDate(c)) => TicketsUpToDate(c)'
         /\ (Current(c, "user") => VotesUpToDate(c)) => VotesUpToDate(c)'
<1>. DEFINE uid == sessionUserId[c]
            asks == {"GET_VOTES", "SET_VOTES"}
<1>1. /\ Current(c, "user") /\ UNCHANGED <<logicVars, toClient[c]>>
      /\ \A types : Carries(toServer[c], types) => Carries(toServer'[c], types)
      /\ UNCHANGED view[c].tickets
      /\ UNCHANGED view[c] \/ Carries(toServer'[c], asks)
  BY RiderClicked
<1>2. UNCHANGED <<uid, tickets, votes>>
  BY <1>1 DEF logicVars, store
<1>3. ASSUME Current(c, "user") => TicketsUpToDate(c)
      PROVE  TicketsUpToDate(c)'
  <2>1. TicketsList(uid)' = TicketsList(uid) /\ TicketsShown(c)' = TicketsShown(c)
    BY <1>1, <1>2 DEF TicketsList, TicketsShown
  <2>2. UpToDate(toServer'[c], toClient[c], {"GET_TICKETS"}, {"OK"}, "TICKETS",
                 {TicketsList(uid)}, TicketsShown(c))
    BY <1>1, <1>3 DEF TicketsUpToDate, UpToDate
  <2>. QED
    BY <1>1, <2>1, <2>2 DEF TicketsUpToDate
<1>4. ASSUME Current(c, "user") => VotesUpToDate(c)
      PROVE  VotesUpToDate(c)'
  <2>1. VotesList(uid)' = VotesList(uid)
    BY <1>2 DEF VotesList
  <2>2. Carries(toServer'[c], asks) \/ (VotesShown(c) => VotesShown(c)')
    BY <1>1, <1>2 DEF VotesShown
  <2>3. /\ UpToDate(toServer[c], toClient[c], asks, {"OK"}, "VOTES_LIST", {VotesList(uid)},
                    VotesShown(c))
        /\ Carries(toServer[c], asks) => Carries(toServer'[c], asks)
    BY <1>1, <1>4 DEF VotesUpToDate
  <2>. HIDE DEF asks
  <2>4. UpToDate(toServer'[c], toClient[c], asks, {"OK"}, "VOTES_LIST", {VotesList(uid)},
                 VotesShown(c)')
    BY <2>2, <2>3, ShownBoolean, AskedStill
  <2>. QED
    BY <1>1, <2>1, <2>4 DEF VotesUpToDate, asks
<1>. QED
  BY <1>3, <1>4

LEMMA BusNextLists ==
  ASSUME \A c, d \in Clients : c = d, \A req \in Requests : req.type \notin Acts,
         BusInv, ListsInv, [BusNext]_busVars
  PROVE  ListsInv'
<1>. SUFFICES ASSUME NEW c \in Clients, Current(c, "user")'
              PROVE  TicketsUpToDate(c)' /\ VotesUpToDate(c)'
  BY DEF ListsInv
<1>. DEFINE uid == sessionUserId[c]
<1>1. \/ Served(c) \/ Received(c) \/ Clicked(c)
      \/ /\ Current(c, "user") /\ Same(c) /\ UNCHANGED dashboardVars
         /\ UNCHANGED logicVars
            \/ \E s \in Sessions \ Clients, req \in Requests : HandleMessage(s, req)
  BY CurrentSteps
<1>2. ASSUME Current(c, "user"), Same(c), UNCHANGED view,
             RowsOf(uid, tickets') = RowsOf(uid, tickets), votes'[uid] = votes[uid]
      PROVE  TicketsUpToDate(c)' /\ VotesUpToDate(c)'
  <2>1. UNCHANGED <<toServer[c], toClient[c], uid>>
    BY <1>2 DEF Same
  <2>2. /\ TicketsList(uid)' = TicketsList(uid) /\ TicketsShown(c)' = TicketsShown(c)
        /\ VotesList(uid)' = VotesList(uid) /\ VotesShown(c)' = VotesShown(c)
    BY <1>2, <2>1 DEF TicketsList, TicketsShown, VotesList, VotesShown
  <2>. QED
    BY <1>2, <2>1, <2>2 DEF ListsInv, TicketsUpToDate, VotesUpToDate
<1>3. ASSUME NEW s \in Sessions \ Clients, NEW req \in Requests, HandleMessage(s, req),
             Current(c, "user")
      PROVE  RowsOf(uid, tickets') = RowsOf(uid, tickets) /\ votes'[uid] = votes[uid]
  <2>1. uid \in UserIds
    BY <1>3, CurrentOwner
  <2>. QED
    BY <1>3, <2>1, RequestAssumption, ActedFor DEF BusInv, CInv
<1>4. CASE /\ Current(c, "user") /\ Same(c) /\ UNCHANGED dashboardVars
           /\ UNCHANGED logicVars
              \/ \E s \in Sessions \ Clients, req \in Requests : HandleMessage(s, req)
  <2>1. RowsOf(uid, tickets') = RowsOf(uid, tickets) /\ votes'[uid] = votes[uid]
    BY <1>3, <1>4 DEF logicVars, store
  <2>. QED
    BY <1>2, <1>4, <2>1 DEF dashboardVars, viewVars
<1>. QED
  BY <1>1, <1>4, ListsServed, ListsRead, ListsClicked DEF ListsInv
----------------------------------------------------------------------------
(* The subscriptions shown depend on two lists, since only those to routes *)
(* in the list of routes are shown.  Every dashboard asks for the routes   *)
(* right before it asks for the subscriptions, and is answered in order.   *)
Paired(reqs) ==
  \A i \in DOMAIN reqs : reqs[i].type = "GET_SUBS" /\ i # 1 => reqs[i - 1].type = "GET_ROUTES"

(* When the i-th message is read, the list of routes has all of subs.      *)
Covered(msgs, shown, i, subs) ==
  IF i = 1 THEN subs \subseteq shown
           ELSE msgs[i - 1].type = "ROUTES_LIST" /\ subs \subseteq IdsOf(msgs[i - 1].routes)

(* An answer to the first request, if it asks for the subscriptions, will  *)
(* be read with the right list of routes.                                  *)
FirstCovered(reqs, msgs, shown, subs) ==
  reqs # <<>> /\ Head(reqs).type = "GET_SUBS" => Covered(msgs, shown, Len(msgs) + 1, subs)

(* The ids are the subscriptions, and perhaps routes closed since.         *)
Matches(ids, subs, live, opened) == ids \subseteq opened /\ ids \cap live = subs

(* The list that is read last is right, and is read with the right routes. *)
Promised(msgs, shown, subs, live, opened) ==
  \E i \in DOMAIN msgs :
    /\ msgs[i].type = "SUBS_LIST" /\ Matches(msgs[i].subs, subs, live, opened)
    /\ Covered(msgs, shown, i, subs)
    /\ \A j \in DOMAIN msgs : j > i => msgs[j].type # "SUBS_LIST"

SubsShownOrAsked(reqs, msgs, shown, ids, subs, live, opened) ==
  \/ Carries(reqs, {"GET_SUBS"}) \/ Carries(msgs, {"OK"})
  \/ Promised(msgs, shown, subs, live, opened)
  \/ ~Carries(msgs, {"SUBS_LIST"}) /\ Matches(ids, subs, live, opened)

LEMMA CoveredRead ==
  ASSUME NEW T, NEW msgs \in Seq(T), msgs # <<>>, NEW shown, NEW after, NEW subs,
         NEW i \in 2..(Len(msgs) + 1), Covered(msgs, shown, i, subs),
         Head(msgs).type = "ROUTES_LIST" /\ i = 2 => after = IdsOf(Head(msgs).routes)
  PROVE  Covered(Tail(msgs), after, i - 1, subs)
<1>1. Len(msgs) \in Nat /\ DOMAIN msgs = 1..Len(msgs) /\ i \in Nat /\ i # 1
  OBVIOUS
<1>2. msgs[i - 1].type = "ROUTES_LIST" /\ subs \subseteq IdsOf(msgs[i - 1].routes)
  BY <1>1 DEF Covered
<1>3. CASE i = 2
  BY <1>2, <1>3 DEF Covered
<1>4. CASE i # 2
  <2>1. i - 1 \in DOMAIN msgs /\ i - 1 # 1 /\ (i - 1) - 1 = i - 2
    BY <1>1, <1>4
  <2>2. Tail(msgs)[(i - 1) - 1] = msgs[i - 1]
    BY <2>1, TailAt
  <2>. QED
    BY <1>2, <2>1, <2>2 DEF Covered
<1>. QED
  BY <1>3, <1>4

(* What others do leaves fewer subscriptions.                              *)
LEMMA SubsStill ==
  ASSUME NEW reqs, NEW msgs, NEW shown, NEW ids,
         NEW subs, NEW live, NEW opened, NEW fewer, NEW alive, NEW known,
         fewer \subseteq subs,
         \A some : Matches(some, subs, live, opened) => Matches(some, fewer, alive, known)
  PROVE  /\ FirstCovered(reqs, msgs, shown, subs) => FirstCovered(reqs, msgs, shown, fewer)
         /\ SubsShownOrAsked(reqs, msgs, shown, ids, subs, live, opened) =>
              SubsShownOrAsked(reqs, msgs, shown, ids, fewer, alive, known)
<1>1. \A i : Covered(msgs, shown, i, subs) => Covered(msgs, shown, i, fewer)
  BY DEF Covered
<1>2. Promised(msgs, shown, subs, live, opened) => Promised(msgs, shown, fewer, alive, known)
  BY <1>1 DEF Promised
<1>. QED
  BY <1>1, <1>2 DEF FirstCovered, SubsShownOrAsked

(* A request is answered.                                                  *)
LEMMA SubsAnswered ==
  ASSUME NEW S, NEW reqs \in Seq(S), reqs # <<>>, NEW T, NEW msgs \in Seq(T), NEW msg \in T,
         NEW shown, NEW ids, NEW subs, NEW live, NEW opened,
         SubsShownOrAsked(reqs, msgs, shown, ids, subs, live, opened),
         msg.type = "SUBS_LIST" <=> Head(reqs).type = "GET_SUBS",
         msg.type = "SUBS_LIST" =>
           Matches(msg.subs, subs, live, opened) /\ Covered(msgs, shown, Len(msgs) + 1, subs)
  PROVE  SubsShownOrAsked(Tail(reqs), Append(msgs, msg), shown, ids, subs, live, opened)
<1>. DEFINE n == Len(msgs)
            longer == Append(msgs, msg)
<1>1. /\ n \in Nat /\ DOMAIN msgs = 1..n /\ DOMAIN longer = 1..(n + 1) /\ longer[n + 1] = msg
      /\ \A i \in 1..n : longer[i] = msgs[i]
  OBVIOUS
<1>2. \A types : /\ Carries(msgs, types) => Carries(longer, types)
                 /\ Carries(longer, types) => Carries(msgs, types) \/ msg.type \in types
  BY AppendCarries
<1>. HIDE DEF longer, n
<1>3. n + 1 \in 1..(n + 1) /\ 1..n \subseteq 1..(n + 1)
      /\ \A i \in 1..(n + 1) : i = n + 1 \/ i \in 1..n
  BY <1>1
<1>4. ASSUME NEW i \in 1..(n + 1), Covered(msgs, shown, i, subs)
      PROVE  Covered(longer, shown, i, subs)
  <2>1. i = 1 \/ i - 1 \in 1..n
    BY <1>1
  <2>. QED
    BY <1>1, <1>4, <2>1 DEF Covered
<1>5. CASE msg.type = "SUBS_LIST"
  <2>1. \A j \in DOMAIN longer : ~(j > n + 1)
    BY <1>1
  <2>2. Covered(longer, shown, n + 1, subs)
    BY <1>3, <1>4, <1>5 DEF n
  <2>3. Promised(longer, shown, subs, live, opened)
    BY <1>1, <1>3, <1>5, <2>1, <2>2 DEF Promised
  <2>. QED
    BY <2>3 DEF SubsShownOrAsked, longer
<1>6. CASE msg.type # "SUBS_LIST"
  <2>1. CASE Carries(reqs, {"GET_SUBS"})
    <3>1. Carries(Tail(reqs), {"GET_SUBS"})
      BY <1>6, <2>1, TailCarries
    <3>. QED
      BY <3>1 DEF SubsShownOrAsked
  <2>2. CASE Carries(msgs, {"OK"})
    BY <1>2, <2>2 DEF SubsShownOrAsked, longer
  <2>3. CASE Promised(msgs, shown, subs, live, opened)
    <3>1. PICK i \in 1..n :
            /\ msgs[i].type = "SUBS_LIST" /\ Matches(msgs[i].subs, subs, live, opened)
            /\ Covered(msgs, shown, i, subs)
            /\ \A j \in 1..n : j > i => msgs[j].type # "SUBS_LIST"
      BY <1>1, <2>3 DEF Promised
    <3>2. /\ longer[i] = msgs[i] /\ i \in DOMAIN longer /\ Covered(longer, shown, i, subs)
      BY <1>1, <1>3, <1>4, <3>1
    <3>3. \A j \in DOMAIN longer : j > i => longer[j].type # "SUBS_LIST"
      BY <1>1, <1>3, <1>6, <3>1
    <3>4. Promised(longer, shown, subs, live, opened)
      BY <3>1, <3>2, <3>3 DEF Promised
    <3>. QED
      BY <3>4 DEF SubsShownOrAsked, longer
  <2>4. CASE ~Carries(msgs, {"SUBS_LIST"}) /\ Matches(ids, subs, live, opened)
    <3>1. ~Carries(longer, {"SUBS_LIST"})
      BY <1>2, <1>6, <2>4
    <3>. QED
      BY <2>4, <3>1 DEF SubsShownOrAsked, longer
  <2>. QED
    BY <2>1, <2>2, <2>3, <2>4 DEF SubsShownOrAsked
<1>. QED
  BY <1>5, <1>6

(* A message is read, on which the lists become after and seen.            *)
LEMMA SubsRead ==
  ASSUME NEW T, NEW msgs \in Seq(T), msgs # <<>>, NEW reqs, NEW later,
         NEW shown, NEW after, NEW ids, NEW seen, NEW subs, NEW live, NEW opened,
         SubsShownOrAsked(reqs, msgs, shown, ids, subs, live, opened),
         Carries(reqs, {"GET_SUBS"}) => Carries(later, {"GET_SUBS"}),
         Head(msgs).type = "OK" => Carries(later, {"GET_SUBS"}),
         after = IF Head(msgs).type = "ROUTES_LIST" THEN IdsOf(Head(msgs).routes) ELSE shown,
         seen = IF Head(msgs).type = "SUBS_LIST" THEN shown \cap Head(msgs).subs ELSE ids
  PROVE  SubsShownOrAsked(later, Tail(msgs), after, seen, subs, live, opened)
<1>0. 1 \in DOMAIN msgs /\ Head(msgs) = msgs[1]
  OBVIOUS
<1>1. \A i \in DOMAIN msgs : i # 1 => i - 1 \in DOMAIN Tail(msgs) /\ Tail(msgs)[i - 1] = msgs[i]
  BY TailAt
<1>2. \A i \in DOMAIN Tail(msgs) : i + 1 \in DOMAIN msgs /\ Tail(msgs)[i] = msgs[i + 1]
  BY TailAt
<1>3. CASE Carries(reqs, {"GET_SUBS"}) \/ Carries(msgs, {"OK"})
  <2>1. Carries(msgs, {"OK"}) => Head(msgs).type \in {"OK"} \/ Carries(Tail(msgs), {"OK"})
    BY TailCarries
  <2>. QED
    BY <1>3, <2>1 DEF SubsShownOrAsked
<1>4. CASE Promised(msgs, shown, subs, live, opened)
  <2>1. PICK i \in DOMAIN msgs :
          /\ msgs[i].type = "SUBS_LIST" /\ Matches(msgs[i].subs, subs, live, opened)
          /\ Covered(msgs, shown, i, subs)
          /\ \A j \in DOMAIN msgs : j > i => msgs[j].type # "SUBS_LIST"
    BY <1>4 DEF Promised
  <2>2. i \in 1..Len(msgs) /\ Len(msgs) \in Nat /\ DOMAIN Tail(msgs) \subseteq Nat
    BY <2>1
  <2>3. CASE i = 1
    <3>1. Matches(seen, subs, live, opened)
      BY <1>0, <2>1, <2>3 DEF Matches, Covered
    <3>2. ASSUME NEW j \in DOMAIN Tail(msgs) PROVE Tail(msgs)[j].type # "SUBS_LIST"
      <4>1. j + 1 \in DOMAIN msgs /\ j + 1 > i /\ Tail(msgs)[j] = msgs[j + 1]
        BY <1>2, <2>2, <2>3, <3>2
      <4>. QED
        BY <2>1, <4>1
    <3>. QED
      BY <3>1, <3>2 DEF SubsShownOrAsked, Carries
  <2>4. CASE i # 1
    <3>1. i - 1 \in DOMAIN Tail(msgs) /\ Tail(msgs)[i - 1] = msgs[i]
      BY <1>1, <2>4
    <3>2. ASSUME NEW j \in DOMAIN Tail(msgs), j > i - 1 PROVE Tail(msgs)[j].type # "SUBS_LIST"
      <4>1. j + 1 \in DOMAIN msgs /\ j + 1 > i /\ Tail(msgs)[j] = msgs[j + 1]
        BY <1>2, <2>2, <3>2
      <4>. QED
        BY <2>1, <4>1
    <3>3. i \in 2..(Len(msgs) + 1)
      BY <2>2, <2>4
    <3>4. Covered(Tail(msgs), after, i - 1, subs)
      BY <2>1, <3>3, CoveredRead
    <3>5. Promised(Tail(msgs), after, subs, live, opened)
      BY <2>1, <3>1, <3>2, <3>4 DEF Promised
    <3>. QED
      BY <3>5 DEF SubsShownOrAsked
  <2>. QED
    BY <2>3, <2>4
<1>5. CASE ~Carries(msgs, {"SUBS_LIST"}) /\ Matches(ids, subs, live, opened)
  <2>1. ~Carries(Tail(msgs), {"SUBS_LIST"}) /\ Head(msgs).type # "SUBS_LIST"
    BY <1>0, <1>2, <1>5 DEF Carries
  <2>. QED
    BY <1>5, <2>1 DEF SubsShownOrAsked
<1>. QED
  BY <1>3, <1>4, <1>5 DEF SubsShownOrAsked
----------------------------------------------------------------------------
(* The requests under way stay paired, whatever is sent.                   *)
LEMMA PairedTail ==
  ASSUME NEW S, NEW reqs \in Seq(S), reqs # <<>>, Paired(reqs)
  PROVE  /\ Paired(Tail(reqs))
         /\ Tail(reqs) # <<>> /\ Head(Tail(reqs)).type = "GET_SUBS" =>
              Head(reqs).type = "GET_ROUTES"
<1>1. \A i \in DOMAIN Tail(reqs) : i + 1 \in DOMAIN reqs /\ Tail(reqs)[i] = reqs[i + 1]
  BY TailAt
<1>2. DOMAIN Tail(reqs) \subseteq Nat \ {0} /\ Tail(reqs) \in Seq(S)
  BY TailAt
<1>3. ASSUME NEW i \in DOMAIN Tail(reqs), Tail(reqs)[i].type = "GET_SUBS"
      PROVE  reqs[i].type = "GET_ROUTES" /\ (i # 1 => Tail(reqs)[i - 1] = reqs[i])
  <2>1. i + 1 \in DOMAIN reqs /\ i + 1 # 1 /\ (i + 1) - 1 = i /\ Tail(reqs)[i] = reqs[i + 1]
    BY <1>1, <1>2, <1>3
  <2>2. reqs[i].type = "GET_ROUTES"
    BY <1>3, <2>1 DEF Paired
  <2>3. i \in 1..Len(reqs) /\ Len(reqs) \in Nat
    BY <2>1, <1>2
  <2>. QED
    BY <2>2, <2>3, TailAt
<1>4. ASSUME Tail(reqs) # <<>>
      PROVE  1 \in DOMAIN Tail(reqs) /\ Head(Tail(reqs)) = Tail(reqs)[1] /\ Head(reqs) = reqs[1]
  BY <1>2, <1>4
<1>. QED
  BY <1>3, <1>4 DEF Paired

LEMMA PairedJoin ==
  ASSUME NEW S, NEW reqs \in Seq(S), NEW more \in Seq(S), Paired(reqs), Behind(more)
  PROVE  /\ Paired(reqs \o more)
         /\ reqs \o more # <<>> /\ Head(reqs \o more).type = "GET_SUBS" =>
              reqs # <<>> /\ Head(reqs).type = "GET_SUBS"
<1>. DEFINE n == Len(reqs)
            k == Len(more)
            all == reqs \o more
<1>1. /\ n \in Nat /\ k \in Nat /\ DOMAIN reqs = 1..n /\ DOMAIN more = 1..k
      /\ DOMAIN all = 1..(n + k) /\ all \in Seq(S)
      /\ \A i \in 1..n : all[i] = reqs[i]
  OBVIOUS
<1>2. \A i \in 1..k : all[n + i] = more[i]
  OBVIOUS
<1>3. all # <<>> => Head(all) = all[1] /\ 1 \in DOMAIN all
  BY <1>1
<1>4. n # 0 => reqs # <<>> /\ Head(reqs) = reqs[1]
  OBVIOUS
<1>. HIDE DEF all, n, k
<1>5. ASSUME NEW i \in DOMAIN all, all[i].type = "GET_SUBS", i > n
      PROVE  i # 1 /\ all[i - 1].type = "GET_ROUTES"
  <2>1. i - n \in 1..k /\ n + (i - n) = i
    BY <1>1, <1>5
  <2>2. more[i - n].type = "GET_SUBS"
    BY <1>2, <1>5, <2>1
  <2>3. i - n # 1 /\ more[(i - n) - 1].type = "GET_ROUTES"
    BY <1>1, <2>1, <2>2 DEF Behind
  <2>4. (i - n) - 1 \in 1..k /\ n + ((i - n) - 1) = i - 1 /\ i # 1
    BY <1>1, <2>1, <2>3
  <2>. QED
    BY <1>2, <2>3, <2>4
<1>6. ASSUME NEW i \in DOMAIN all, all[i].type = "GET_SUBS", i # 1, ~(i > n)
      PROVE  all[i - 1].type = "GET_ROUTES"
  <2>1. i \in 1..n /\ i - 1 \in 1..n
    BY <1>1, <1>6
  <2>. QED
    BY <1>1, <1>6, <2>1 DEF Paired
<1>7. Paired(all)
  BY <1>5, <1>6 DEF Paired
<1>8. ASSUME all # <<>>, Head(all).type = "GET_SUBS"
      PROVE  reqs # <<>> /\ Head(reqs).type = "GET_SUBS"
  <2>1. ~(1 > n)
    BY <1>3, <1>5, <1>8
  <2>2. n # 0 /\ 1 \in 1..n
    BY <1>1, <2>1
  <2>. QED
    BY <1>1, <1>3, <1>4, <1>8, <2>2
<1>. QED
  BY <1>7, <1>8 DEF all

(* What a dashboard sends, when it reads a message or is clicked at.       *)
LEMMA SentBehind ==
  ASSUME CInv, VInv, PInv, NEW c \in Clients, Received(c) \/ Clicked(c)
  PROVE  UNCHANGED toServer \/ \E reqs \in Seq(ClientRequest) : SendRequests(c, reqs) /\ Behind(reqs)
<1>1. \A reqs \in Seq(Question) : reqs \in Seq(ClientRequest)
  BY RefreshType
<1>2. ASSUME NEW req \in ClientRequest, req.type # "GET_SUBS"
      PROVE  <<req>> \in Seq(ClientRequest) /\ Behind(<<req>>)
  BY <1>2 DEF Behind
<1>3. CASE Received(c)
  BY <1>1, <1>3, Reading DEF Received
<1>4. CASE WindowClicks(c)
  <2>1. ASSUME NEW req \in Logins[c] PROVE req.type # "GET_SUBS"
    <3>1. req \in [type : {"LOGIN", "REGISTER"}, username : UserNames, password : Passwords]
      BY ClientAssumption
    <3>. QED
      BY <3>1
  <2>. QED
    BY <1>1, <1>2, <1>4, <2>1, WindowClicking
<1>5. CASE RiderClicks(c)
  <2>1. PICK req \in ClientRequest : req.type \in Acts /\ SendRequests(c, <<req>>)
    BY <1>5, RiderClicking
  <2>2. req.type # "GET_SUBS"
    BY <2>1 DEF Acts
  <2>. QED
    BY <1>2, <2>1, <2>2
<1>6. CASE OfficeClicks(c)
  <2>1. \/ UNCHANGED toServer
        \/ \E req \in ClientRequest :
             /\ SendRequests(c, <<req>>)
             /\ req.type \in {"ADD_ROUTE", "DEL_ROUTE", "get_user_detail", "UPDATE_SCHEDULE"}
    BY <1>6, OfficeClicking DEF clientVars
  <2>. QED
    BY <1>2, <2>1
<1>. QED
  BY <1>3, <1>4, <1>5, <1>6 DEF Clicked

LEMMA PairedSent ==
  ASSUME CInv, VInv, PInv, NEW c \in Clients, Received(c) \/ Clicked(c), Paired(toServer[c])
  PROVE  /\ Paired(toServer'[c])
         /\ toServer'[c] # <<>> /\ Head(toServer'[c]).type = "GET_SUBS" =>
              toServer[c] # <<>> /\ Head(toServer[c]).type = "GET_SUBS"
<1>1. CASE UNCHANGED toServer
  BY <1>1
<1>2. ASSUME NEW reqs \in Seq(ClientRequest), SendRequests(c, reqs), Behind(reqs)
      PROVE  /\ Paired(toServer'[c])
             /\ toServer'[c] # <<>> /\ Head(toServer'[c]).type = "GET_SUBS" =>
                  toServer[c] # <<>> /\ Head(toServer[c]).type = "GET_SUBS"
  <2>1. toServer[c] \in Seq(ClientRequest)
    BY DEF CInv, ClientTypes
  <2>2. toServer'[c] = IF session[c] THEN toServer[c] \o reqs ELSE toServer[c]
    BY <1>2, Sending
  <2>. QED
    BY <1>2, <2>1, <2>2, PairedJoin
<1>. QED
  BY <1>1, <1>2, SentBehind
----------------------------------------------------------------------------
(* The subscriptions when others act *)

LEMMA RouteCounterGrows ==
  ASSUME IInv, NEW s \in Sessions, NEW req, WellFormed(req), HandleMessage(s, req)
  PROVE  RoutesOpened \subseteq RoutesOpened'
<1>1. nextRouteId \in Nat
  BY DEF IInv, TypeOK, StoreTypeOK
<1>2. UNCHANGED nextRouteId \/ nextRouteId' = nextRouteId + 1
  BY StepKinds DEF QuietStep, JoinStep, AddUser, FleetStep, AddRoute, DeleteRoute,
    UpdateRouteSchedule, RiderStep, Subscribe, Unsubscribe, IssueTicket, SetVotes, store
<1>. QED
  BY <1>1, <1>2 DEF RoutesOpened

LEMMA SubsStay ==
  ASSUME IInv, NEW s \in Sessions, NEW req \in Requests, HandleMessage(s, req),
         req.type \notin Acts, NEW uid \in UserIds
  PROVE  /\ SubscribedRouteIds(uid)' \subseteq SubscribedRouteIds(uid)
         /\ \A some : Matches(some, SubscribedRouteIds(uid), IdsOf(routes), RoutesOpened) =>
              Matches(some, SubscribedRouteIds(uid)', IdsOf(routes)', RoutesOpened')
<1>. DEFINE subs == SubscribedRouteIds(uid)
<1>0. WellFormed(req)
  BY RequestAssumption
<1>1. subs' \subseteq subs
  BY <1>0, ActedFor
<1>2. \A rid \in subs \ subs' : rid \notin IdsOf(routes)'
  <2>1. CASE QuietStep(s) \/ JoinStep(s)
    BY <2>1 DEF QuietStep, JoinStep, AddUser, store, SubscribedRouteIds, IsSubscribed
  <2>2. CASE FleetStep(s)
    BY <2>2, FleetIsOwnDoing
  <2>3. ~RiderStep(s, req)
    BY DEF RiderStep, Acts
  <2>. QED
    BY <1>0, <2>1, <2>2, <2>3, StepKinds
<1>3. subs' \subseteq IdsOf(routes)'
  <2>1. SubscriptionsLive'
    BY <1>0, HandledKeeps DEF IInv
  <2>. QED
    BY <2>1 DEF SubscriptionsLive, SubscribedRouteIds
<1>4. \A rid \in RoutesOpened : rid \in IdsOf(routes)' => rid \in IdsOf(routes)
  <2>1. [Next]_logicVars
    BY DEF Next
  <2>. QED
    BY <2>1, StepKeepsRouteIds DEF KeepsRouteIds, RoutesOpened
<1>5. RoutesOpened \subseteq RoutesOpened'
  BY <1>0, RouteCounterGrows
<1>. QED
  BY <1>1, <1>2, <1>3, <1>4, <1>5 DEF Matches
----------------------------------------------------------------------------
(* The subscriptions of a client *)

Subs(c) == SubscribedRouteIds(sessionUserId[c])

SubsAskedInOrder(c) ==
  /\ Paired(toServer[c])
  /\ Somebodys(c) /\ (toClient[c] = <<>> => dashboards[c] # <<>> /\ Last(dashboards[c]) = "user") =>
       FirstCovered(toServer[c], toClient[c], view[c].routes, Subs(c))

SubsUpToDate(c) ==
  SubsShownOrAsked(toServer[c], toClient[c], view[c].routes, view[c].subs,
                   Subs(c), IdsOf(routes), RoutesOpened)

SubsInv ==
  \A c \in Clients : SubsAskedInOrder(c) /\ (Current(c, "user") => SubsUpToDate(c))

LEMMA SubsType ==
  ASSUME IInv, NEW s \in Sessions, sessionUserId[s] # 0
  PROVE  /\ sessionUserId[s] \in UserIds /\ Subs(s) \subseteq IdsOf(routes)
         /\ Matches(Subs(s), Subs(s), IdsOf(routes), RoutesOpened)
<1>1. sessionUserId[s] \in UserIds
  BY DEF IInv, TypeOK, UserIds
<1>2. Subs(s) \subseteq IdsOf(routes)
  BY <1>1 DEF IInv, SubscriptionsLive, Subs, SubscribedRouteIds
<1>3. IdsOf(routes) \subseteq RoutesOpened
  BY DEF IInv, IdsFresh, TypeOK, StoreTypeOK, Route, RouteIds, IdsOf, RoutesOpened
<1>. QED
  BY <1>1, <1>2, <1>3 DEF Matches

LEMMA OrderServed ==
  ASSUME BusInv, NEW c \in Clients, SubsAskedInOrder(c), Served(c)
  PROVE  SubsAskedInOrder(c)'
<1>. USE DEF BusInv
<1>1. PICK msg : /\ Answered(c, Head(toServer[c]), msg)
                 /\ toClient' = [toClient EXCEPT ![c] = Append(@, msg)]
  BY Serving DEF Served
<1>2. /\ toServer[c] # <<>> /\ toServer' = [toServer EXCEPT ![c] = Tail(@)]
      /\ UNCHANGED <<network, dashboards, view>> /\ c \in Sessions
  BY Serving DEF Served, dashboardVars, viewVars
<1>3. /\ toClient[c] \in Seq(Reply) /\ toClient'[c] = Append(toClient[c], msg) /\ msg \in Reply
      /\ toServer[c] \in Seq(ClientRequest) /\ toServer'[c] = Tail(toServer[c])
  BY <1>1, <1>2 DEF CInv, ClientTypes, Answered
<1>4. /\ Paired(toServer'[c])
      /\ toServer'[c] # <<>> /\ Head(toServer'[c]).type = "GET_SUBS" =>
           Head(toServer[c]).type = "GET_ROUTES"
  BY <1>2, <1>3, PairedTail DEF SubsAskedInOrder
<1>5. ASSUME Somebodys(c)', Head(toServer[c]).type = "GET_ROUTES"
      PROVE  Covered(toClient'[c], view'[c].routes, Len(toClient'[c]) + 1, Subs(c)')
  <2>1. msg = [type |-> "ROUTES_LIST", routes |-> routes] /\ UNCHANGED <<store, sessionUserId>>
    BY <1>1, <1>5 DEF Answered, Heard, Listed
  <2>2. Subs(c)' = Subs(c) /\ sessionUserId[c] # 0
    BY <1>5, <2>1 DEF Subs, SubscribedRouteIds, IsSubscribed, Somebodys, store
  <2>3. Subs(c) \subseteq IdsOf(msg.routes) /\ msg.type = "ROUTES_LIST"
    BY <1>2, <2>1, <2>2, SubsType DEF CInv
  <2>4. /\ Len(toClient'[c]) + 1 # 1 /\ toClient'[c][(Len(toClient'[c]) + 1) - 1] = msg
    BY <1>3
  <2>. QED
    BY <2>2, <2>3, <2>4 DEF Covered
<1>. QED
  BY <1>4, <1>5 DEF SubsAskedInOrder, FirstCovered

LEMMA RoutesRead ==
  ASSUME BusInv, NEW c \in Clients, Received(c), ~NoView(c), Head(toClient[c]).type # "AUTH_OK"
  PROVE  LET msg == Head(toClient[c]) IN
         /\ view'[c].routes = IF msg.type = "ROUTES_LIST" THEN IdsOf(msg.routes)
                                                          ELSE view[c].routes
         /\ view'[c].subs = IF msg.type = "SUBS_LIST" THEN view[c].routes \cap msg.subs
                                                      ELSE view[c].subs
<1>. DEFINE msg == Head(toClient[c])
<1>1. PICK v \in View :
        /\ view' = [view EXCEPT ![c] = v]
        /\ v.routes = IF msg.type = "ROUTES_LIST" THEN IdsOf(msg.routes) ELSE view[c].routes
        /\ v.subs = IF msg.type = "SUBS_LIST" THEN view[c].routes \cap msg.subs
                                              ELSE view[c].subs
  BY Showing DEF Received, BusInv
<1>2. view'[c] = v
  BY <1>1 DEF BusInv, VInv
<1>. QED
  BY <1>1, <1>2

LEMMA OrderRead ==
  ASSUME BusInv, NEW c \in Clients, SubsAskedInOrder(c), Received(c)
  PROVE  SubsAskedInOrder(c)'
<1>. USE DEF BusInv
<1>. DEFINE msg == Head(toClient[c])
            n == Len(toClient[c])
<1>1. /\ toClient' = [toClient EXCEPT ![c] = Tail(@)] /\ UNCHANGED <<logicVars, network>>
      /\ toClient[c] # <<>> /\ msg \in Reply
      /\ msg.type # "AUTH_OK" => UNCHANGED dashboards
  BY Reading DEF Received, OnMessageReceived
<1>2. /\ toClient[c] \in Seq(Reply) /\ toClient'[c] = Tail(toClient[c]) /\ n \in Nat \ {0}
      /\ Len(Tail(toClient[c])) = n - 1 /\ msg = toClient[c][1]
  BY <1>1 DEF CInv, ClientTypes
<1>3. /\ Paired(toServer'[c])
      /\ toServer'[c] # <<>> /\ Head(toServer'[c]).type = "GET_SUBS" =>
           toServer[c] # <<>> /\ Head(toServer[c]).type = "GET_SUBS"
  BY PairedSent DEF SubsAskedInOrder
<1>4. ASSUME Somebodys(c)', toServer'[c] # <<>>, Head(toServer'[c]).type = "GET_SUBS",
             toClient'[c] = <<>> => dashboards'[c] # <<>> /\ Last(dashboards'[c]) = "user"
      PROVE  Covered(toClient'[c], view'[c].routes, Len(toClient'[c]) + 1, Subs(c)')
  <2>1. Subs(c)' = Subs(c) /\ Somebodys(c)
    BY <1>1, <1>4 DEF logicVars, store, network, Subs, SubscribedRouteIds, IsSubscribed, Somebodys
  <2>2. Covered(toClient[c], view[c].routes, n + 1, Subs(c))
    BY <1>1, <1>3, <1>4, <2>1 DEF SubsAskedInOrder, FirstCovered
  <2>3. n + 1 \in 2..(n + 1) /\ (n + 1) - 1 = n /\ Len(toClient'[c]) + 1 = n
    BY <1>2
  <2>4. msg.type = "ROUTES_LIST" /\ n + 1 = 2 => view'[c].routes = IdsOf(msg.routes)
    <3>0. n + 1 = 2 => n = 1
      <4>1. n \in Nat
        BY <1>2
      <4>. HIDE DEF n
      <4>. QED
        BY <4>1
    <3>. SUFFICES ASSUME msg.type = "ROUTES_LIST", n = 1
                  PROVE  view'[c].routes = IdsOf(msg.routes)
      BY <3>0
    <3>. HIDE DEF n
    <3>1. toClient'[c] = <<>> /\ UNCHANGED dashboards
      <4>. DEFINE rest == Tail(toClient[c])
      <4>1. rest \in Seq(Reply) /\ Len(rest) = 0
        BY <1>1, <1>2, TailAt
      <4>. HIDE DEF rest
      <4>2. rest = <<>>
        BY <4>1
      <4>. QED
        BY <1>1, <1>2, <4>2 DEF rest
    <3>2. dashboards[c] # <<>> /\ Last(dashboards[c]) = "user"
      BY <1>4, <3>1
    <3>3. Len(dashboards[c]) \in DOMAIN dashboards[c]
      BY <3>2 DEF CInv, ClientTypes
    <3>4. ~NoView(c)
      BY <3>2, <3>3 DEF NoView, Last
    <3>. QED
      BY <3>4, RoutesRead
  <2>5. Covered(Tail(toClient[c]), view'[c].routes, (n + 1) - 1, Subs(c))
    BY <1>1, <1>2, <2>2, <2>3, <2>4, CoveredRead
  <2>. QED
    BY <1>2, <2>1, <2>3, <2>5
<1>. QED
  BY <1>3, <1>4 DEF SubsAskedInOrder, FirstCovered

LEMMA OrderClicked ==
  ASSUME BusInv, NEW c \in Clients, SubsAskedInOrder(c), Clicked(c)
  PROVE  SubsAskedInOrder(c)'
<1>. USE DEF BusInv
<1>1. UNCHANGED <<logicVars, network, toClient, dashboards>>
  BY WindowClicking, RiderClicking, OfficeClicking DEF Clicked, Click, clientVars
<1>2. UNCHANGED view[c].routes
  <2>1. CASE UNCHANGED viewVars
    BY <2>1 DEF viewVars
  <2>2. CASE RiderClicks(c)
    <3>1. PICK vs \in Seq(RouteVote) : view' = [view EXCEPT ![c] = [view[c] EXCEPT !.myVotes = vs]]
      BY <2>2, RiderClicking
    <3>. QED
      BY <3>1 DEF VInv, View
  <2>. QED
    BY <2>1, <2>2 DEF Clicked, dashboardVars
<1>3. Subs(c)' = Subs(c) /\ Somebodys(c)' = Somebodys(c)
  BY <1>1 DEF logicVars, store, network, Subs, SubscribedRouteIds, IsSubscribed, Somebodys
<1>4. /\ Paired(toServer'[c])
      /\ toServer'[c] # <<>> /\ Head(toServer'[c]).type = "GET_SUBS" =>
           toServer[c] # <<>> /\ Head(toServer[c]).type = "GET_SUBS"
  BY PairedSent DEF SubsAskedInOrder
<1>. QED
  BY <1>1, <1>2, <1>3, <1>4 DEF SubsAskedInOrder, FirstCovered
----------------------------------------------------------------------------
(* They stay up to date. *)

LEMMA SubsServed ==
  ASSUME BusInv, SubsInv, NEW c \in Clients, Served(c), Current(c, "user")'
  PROVE  SubsUpToDate(c)'
<1>1. /\ Current(c, "user") /\ UNCHANGED <<sessionUserId, view>>
      /\ toServer[c] \in Seq(ClientRequest) /\ toServer[c] # <<>>
      /\ toServer'[c] = Tail(toServer[c]) /\ toClient[c] \in Seq(Reply)
  BY RiderServed
<1>2. PICK msg \in Reply :
        /\ toClient'[c] = Append(toClient[c], msg)
        /\ Listed(c, msg) /\ Heard(c, Head(toServer[c]), msg)
        /\ msg.type = "OK" \/ UNCHANGED store
  BY RiderServed
<1>3. CASE msg.type = "OK"
  <2>1. Carries(toClient'[c], {"OK"})
    <3>1. msg.type \in {"OK"}
      BY <1>3
    <3>. QED
      BY <1>1, <1>2, <3>1, AppendCarries
  <2>. QED
    BY <2>1 DEF SubsUpToDate, SubsShownOrAsked
<1>4. CASE msg.type # "OK"
  <2>1. UNCHANGED <<store, sessionUserId, view>>
    BY <1>1, <1>2, <1>4
  <2>2. /\ Subs(c)' = Subs(c) /\ IdsOf(routes)' = IdsOf(routes) /\ RoutesOpened' = RoutesOpened
        /\ view'[c] = view[c]
    BY <2>1 DEF store, Subs, SubscribedRouteIds, IsSubscribed, RoutesOpened
  <2>3. SubsUpToDate(c) /\ SubsAskedInOrder(c) /\ Somebodys(c) /\ sessionUserId[c] # 0
    BY <1>1 DEF SubsInv, Current, Somebodys
  <2>4. msg.type = "SUBS_LIST" <=> Head(toServer[c]).type = "GET_SUBS"
    BY <1>2, <2>3 DEF Heard
  <2>5. ASSUME msg.type = "SUBS_LIST"
        PROVE  /\ Matches(msg.subs, Subs(c), IdsOf(routes), RoutesOpened)
               /\ Covered(toClient[c], view[c].routes, Len(toClient[c]) + 1, Subs(c))
    <3>1. msg.subs = Subs(c)
      BY <1>2, <2>5 DEF Listed, Subs
    <3>2. Matches(Subs(c), Subs(c), IdsOf(routes), RoutesOpened)
      BY <2>3, SubsType, ClientAssumption DEF BusInv, CInv
    <3>3. FirstCovered(toServer[c], toClient[c], view[c].routes, Subs(c))
      BY <1>1, <2>3 DEF SubsAskedInOrder, Current
    <3>. QED
      BY <1>1, <2>4, <2>5, <3>1, <3>2, <3>3 DEF FirstCovered
  <2>6. SubsShownOrAsked(Tail(toServer[c]), Append(toClient[c], msg), view[c].routes,
                         view[c].subs, Subs(c), IdsOf(routes), RoutesOpened)
    BY <1>1, <1>2, <1>4, <2>3, <2>4, <2>5, SubsAnswered DEF SubsUpToDate
  <2>. QED
    BY <1>1, <1>2, <2>2, <2>6 DEF SubsUpToDate
<1>. QED
  BY <1>3, <1>4

LEMMA SubsReceived ==
  ASSUME BusInv, SubsInv, NEW c \in Clients, Received(c), Current(c, "user")'
  PROVE  SubsUpToDate(c)'
<1>. DEFINE msg == Head(toClient[c])
<1>1. /\ toClient[c] \in Seq(Reply) /\ toClient[c] # <<>>
      /\ toClient'[c] = Tail(toClient[c]) /\ session[c] /\ UNCHANGED logicVars
      /\ \A types : Carries(toServer[c], types) => Carries(toServer'[c], types)
      /\ \/ msg.type = "AUTH_OK" /\ Asks(c, "user")
         \/ /\ msg.type # "AUTH_OK" /\ Current(c, "user")
            /\ msg.type = "OK" => Asks(c, "user")
  BY CurrentRead
<1>2. Asks(c, "user") => Carries(toServer'[c], {"GET_SUBS"})
  <2>1. /\ CInv /\ session[c] /\ "user" \in {"user", "admin"} /\ 2 \in DOMAIN RefreshOf("user")
        /\ RefreshOf("user")[2].type \in {"GET_SUBS"}
    BY <1>1 DEF BusInv, RefreshOf, UserRefresh
  <2>. QED
    BY <2>1, Asked
<1>3. CASE msg.type = "AUTH_OK"
  BY <1>1, <1>2, <1>3 DEF SubsUpToDate, SubsShownOrAsked
<1>4. CASE msg.type # "AUTH_OK"
  <2>1. /\ view'[c].routes = IF msg.type = "ROUTES_LIST" THEN IdsOf(msg.routes)
                                                         ELSE view[c].routes
        /\ view'[c].subs = IF msg.type = "SUBS_LIST" THEN view[c].routes \cap msg.subs
                                                     ELSE view[c].subs
    BY <1>1, <1>4, CurrentOwner, RoutesRead
  <2>2. SubsUpToDate(c)
    BY <1>1, <1>4 DEF SubsInv
  <2>3. /\ Carries(toServer[c], {"GET_SUBS"}) => Carries(toServer'[c], {"GET_SUBS"})
        /\ msg.type = "OK" => Carries(toServer'[c], {"GET_SUBS"})
    BY <1>1, <1>2, <1>4
  <2>4. SubsShownOrAsked(toServer'[c], Tail(toClient[c]), view'[c].routes, view'[c].subs,
                         Subs(c), IdsOf(routes), RoutesOpened)
    BY <1>1, <2>1, <2>2, <2>3, SubsRead DEF SubsUpToDate
  <2>5. /\ Subs(c)' = Subs(c) /\ IdsOf(routes)' = IdsOf(routes) /\ RoutesOpened' = RoutesOpened
    BY <1>1 DEF logicVars, store, Subs, SubscribedRouteIds, IsSubscribed, RoutesOpened
  <2>. QED
    BY <1>1, <2>4, <2>5 DEF SubsUpToDate
<1>. QED
  BY <1>3, <1>4

LEMMA SubsClicked ==
  ASSUME BusInv, SubsInv, NEW c \in Clients, Clicked(c), Current(c, "user")'
  PROVE  SubsUpToDate(c)'
<1>1. /\ Current(c, "user") /\ UNCHANGED <<logicVars, toClient[c]>>
      /\ Carries(toServer[c], {"GET_SUBS"}) => Carries(toServer'[c], {"GET_SUBS"})
      /\ UNCHANGED <<view[c].routes, view[c].subs>>
  BY RiderClicked
<1>2. Subs(c)' = Subs(c) /\ IdsOf(routes)' = IdsOf(routes) /\ RoutesOpened' = RoutesOpened
  BY <1>1 DEF logicVars, store, Subs, SubscribedRouteIds, IsSubscribed, RoutesOpened
<1>3. SubsUpToDate(c)
  BY <1>1 DEF SubsInv
<1>. QED
  BY <1>1, <1>2, <1>3 DEF SubsUpToDate, SubsShownOrAsked

LEMMA OrderElsewhere ==
  ASSUME BusInv, NEW c \in Clients, SubsAskedInOrder(c), ~Somebodys(c)', [BusNext]_busVars,
         \A d \in Clients : d = c
  PROVE  SubsAskedInOrder(c)'
<1>. USE DEF BusInv
<1>1. CASE Served(c) \/ Received(c) \/ Clicked(c)
  BY <1>1, OrderServed, OrderRead, OrderClicked
<1>2. CASE UNCHANGED toServer[c] \/ toServer'[c] = <<>>
  BY <1>2 DEF SubsAskedInOrder, Paired
<1>3. CASE Connection(c)
  BY <1>2, <1>3 DEF Connection, OnConnected, OnConnectionRefused, OnDisconnected
<1>4. CASE ConnectionLost(c) \/ ServerStops
  <2>1. toServer'[c] = <<>>
    BY <1>4 DEF ConnectionLost, ServerStops, CInv, ClientTypes
  <2>. QED
    BY <1>2, <2>1
<1>5. CASE \/ OthersAct /\ UNCHANGED <<dashboardVars, faults>>
           \/ ServerStarts
           \/ UNCHANGED busVars
  BY <1>2, <1>5, Nowhere DEF Same
<1>. QED
  BY <1>1, <1>3, <1>4, <1>5 DEF BusNext

LEMMA BusNextSubs ==
  ASSUME \A c, d \in Clients : c = d, \A req \in Requests : req.type \notin Acts,
         BusInv, SubsInv, [BusNext]_busVars
  PROVE  SubsInv'
<1>. SUFFICES ASSUME NEW c \in Clients
              PROVE  SubsAskedInOrder(c)' /\ (Current(c, "user")' => SubsUpToDate(c)')
  BY DEF SubsInv
<1>0. SubsAskedInOrder(c) /\ (Current(c, "user") => SubsUpToDate(c))
  BY DEF SubsInv
<1>1. CASE ~Somebodys(c)'
  <2>1. ~Current(c, "user")'
    BY <1>1 DEF Current, Somebodys
  <2>. QED
    BY <1>0, <1>1, <2>1, OrderElsewhere
<1>2. CASE Served(c) \/ Received(c) \/ Clicked(c)
  BY <1>0, <1>2, OrderServed, OrderRead, OrderClicked, SubsServed, SubsReceived, SubsClicked
<1>3. ASSUME Same(c), UNCHANGED view,
             Somebodys(c) => Subs(c)' \subseteq Subs(c),
             Somebodys(c) => \A some : Matches(some, Subs(c), IdsOf(routes), RoutesOpened) =>
                               Matches(some, Subs(c)', IdsOf(routes)', RoutesOpened')
      PROVE  SubsAskedInOrder(c)' /\ (Current(c, "user")' => SubsUpToDate(c)')
  <2>1. /\ UNCHANGED <<toServer[c], toClient[c], view[c], dashboards[c]>>
        /\ Somebodys(c)' = Somebodys(c) /\ Current(c, "user")' = Current(c, "user")
    BY <1>3 DEF Same, Somebodys, Current
  <2>2. ASSUME Somebodys(c)
        PROVE  /\ FirstCovered(toServer[c], toClient[c], view[c].routes, Subs(c)) =>
                    FirstCovered(toServer[c], toClient[c], view[c].routes, Subs(c)')
               /\ SubsShownOrAsked(toServer[c], toClient[c], view[c].routes, view[c].subs,
                                   Subs(c), IdsOf(routes), RoutesOpened) =>
                    SubsShownOrAsked(toServer[c], toClient[c], view[c].routes, view[c].subs,
                                     Subs(c)', IdsOf(routes)', RoutesOpened')
    BY <1>3, <2>2, SubsStill
  <2>3. Current(c, "user") => Somebodys(c)
    BY DEF Current, Somebodys
  <2>. QED
    BY <1>0, <2>1, <2>2, <2>3 DEF SubsAskedInOrder, SubsUpToDate
<1>4. ASSUME NEW s \in Sessions \ Clients, NEW req \in Requests, HandleMessage(s, req),
             Same(c), UNCHANGED view
      PROVE  SubsAskedInOrder(c)' /\ (Current(c, "user")' => SubsUpToDate(c)')
  <2>1. ASSUME Somebodys(c)
        PROVE  /\ Subs(c)' \subseteq Subs(c)
               /\ \A some : Matches(some, Subs(c), IdsOf(routes), RoutesOpened) =>
                    Matches(some, Subs(c)', IdsOf(routes)', RoutesOpened')
    <3>1. sessionUserId[c] \in UserIds /\ UNCHANGED sessionUserId[c]
      BY <1>4, <2>1, SubsType, ClientAssumption DEF Somebodys, Same, BusInv, CInv
    <3>2. PICK uid \in UserIds : uid = sessionUserId[c] /\ uid = sessionUserId'[c]
      BY <3>1
    <3>3. Subs(c) = SubscribedRouteIds(uid) /\ Subs(c)' = SubscribedRouteIds(uid)'
      BY <3>2 DEF Subs, SubscribedRouteIds, IsSubscribed
    <3>. QED
      BY <1>4, <3>3, SubsStay DEF BusInv, CInv
  <2>. QED
    BY <1>3, <1>4, <2>1
<1>5. CASE Same(c) /\ UNCHANGED dashboardVars /\ UNCHANGED logicVars
  <2>1. Subs(c)' = Subs(c) /\ IdsOf(routes)' = IdsOf(routes) /\ RoutesOpened' = RoutesOpened
    BY <1>5 DEF logicVars, store, Subs, SubscribedRouteIds, IsSubscribed, RoutesOpened
  <2>. QED
    BY <1>3, <1>5, <2>1 DEF dashboardVars, viewVars
<1>6. Somebodys(c)' =>
        \/ Served(c) \/ Received(c) \/ Clicked(c)
        \/ /\ Same(c) /\ UNCHANGED dashboardVars
           /\ UNCHANGED logicVars
              \/ \E s \in Sessions \ Clients, req \in Requests : HandleMessage(s, req)
  BY SomebodysSteps
<1>. QED
  BY <1>1, <1>2, <1>4, <1>5, <1>6 DEF dashboardVars, viewVars

LEMMA BusInitLists == BusInit => ListsInv /\ SubsInv
BY DEF BusInit, ClientInit, ListsInv, SubsInv, Current, SubsAskedInOrder, Somebodys, Paired

LEMMA SettledViews == BusInv /\ ListsInv /\ SubsInv => SettledViewsCurrent
<1>. SUFFICES ASSUME BusInv, ListsInv, SubsInv, NEW c \in Clients, Settled(c, "user"),
                     sessionUserId[c] # 0
              PROVE  LET v == view[c] IN
                     /\ v.userId = sessionUserId[c]
                     /\ v.tickets = RowsOf(v.userId, tickets)
                     /\ v.myVotes = votes[v.userId] /\ v.requests = v.myVotes
                     /\ v.subs \cap IdsOf(routes) = SubscribedRouteIds(v.userId)
  BY DEF SettledViewsCurrent
<1>1. toServer[c] = <<>> /\ toClient[c] = <<>> /\ Current(c, "user")
  BY DEF Settled, Shows, Idle, Current, Carries
<1>2. view[c].userId = sessionUserId[c]
  BY <1>1, CurrentOwner
<1>3. TicketsShown(c)
  <2>1. UpToDate(<<>>, <<>>, {"GET_TICKETS"}, {"OK"}, "TICKETS",
                 {TicketsList(sessionUserId[c])}, TicketsShown(c))
    BY <1>1 DEF ListsInv, TicketsUpToDate
  <2>. QED
    BY <2>1, ShownBoolean, ShownInTheEnd
<1>4. VotesShown(c)
  <2>1. UpToDate(<<>>, <<>>, {"GET_VOTES", "SET_VOTES"}, {"OK"}, "VOTES_LIST",
                 {VotesList(sessionUserId[c])}, VotesShown(c))
    BY <1>1 DEF ListsInv, VotesUpToDate
  <2>. QED
    BY <2>1, ShownBoolean, ShownInTheEnd
<1>5. Matches(view[c].subs, Subs(c), IdsOf(routes), RoutesOpened)
  <2>1. SubsUpToDate(c)
    BY <1>1 DEF SubsInv
  <2>. QED
    BY <1>1, <2>1 DEF SubsUpToDate, SubsShownOrAsked, Carries, Promised
<1>. QED
  BY <1>2, <1>3, <1>4, <1>5 DEF TicketsShown, VotesShown, Matches, Subs

(* Whatever a rider does, and however fast, over logouts to other accounts *)
(* at the same client, broken connections and restarts of the server: once *)
(* all is answered, the dashboard shows that user's tickets, requests and  *)
(* subscriptions as they are on file.  No other session may act for a      *)
(* rider, since nothing tells a dashboard that the same account has acted  *)
(* on another device; others may do all the rest, delete routes included.  *)
THEOREM SettledListsCurrent ==
  ASSUME \A c, d \in Clients : c = d, \A req \in Requests : req.type \notin Acts
  PROVE  BusSpec => []SettledViewsCurrent
<1>1. BusInit => BusInv /\ ListsInv /\ SubsInv
  BY BusInitInv, BusInitLists
<1>2. BusInv /\ ListsInv /\ SubsInv /\ [BusNext]_busVars => (BusInv /\ ListsInv /\ SubsInv)'
  BY BusNextInv, BusNextLists, BusNextSubs
<1>3. BusInv /\ ListsInv /\ SubsInv => SettledViewsCurrent
  BY SettledViews
<1>. QED
  BY <1>1, <1>2, <1>3, PTL DEF BusSpec
----------------------------------------------------------------------------
(* The requests on file are the ones wanted *)

LEMMA LossIsBus == [LossNext]_lossVars => [BusNext]_busVars
BY DEF LossNext, lossVars

(* Only a submission changes requests, and it replaces them.               *)
LEMMA VotesStay ==
  ASSUME IInv, NEW s \in Sessions, NEW req, WellFormed(req), HandleMessage(s, req),
         req.type # "SET_VOTES"
  PROVE  UNCHANGED votes
<1>1. CASE HandlePublic(s, req)
  BY <1>1, PublicKinds DEF QuietStep, JoinStep, AddUser, store
<1>2. CASE \E text : Refuse(s, text)
  BY <1>2 DEF Refuse, Answer, store
<1>3. CASE \/ HandleAddRoute(s, req) \/ HandleDelRoute(s, req)
           \/ HandleUpdateSchedule(s, req) \/ HandleGetUsers(s, req)
           \/ HandleGetUserDetail(s, req) \/ HandleGetDemand(s, req)
  <2>1. CASE QuietStep(s)
    BY <2>1 DEF QuietStep, store
  <2>2. CASE FleetStep(s)
    BY <2>2 DEF FleetStep, AddRoute, DeleteRoute, UpdateRouteSchedule
  <2>. QED
    BY <1>3, <2>1, <2>2, AdminKinds
<1>4. CASE \/ HandleSubscribe(s, req) \/ HandleUnsubscribe(s, req)
           \/ HandleGetSubs(s, req) \/ HandleRide(s, req) \/ HandleGetTickets(s, req)
           \/ HandleGetVotes(s, req)
  BY <1>4 DEF HandleSubscribe, HandleUnsubscribe, HandleGetSubs, HandleRide, HandleGetTickets,
    HandleGetVotes, RideRecorded, RideCharged, Subscribe, Unsubscribe, IssueTicket, Refuse, Answer,
    store
<1>. QED
  BY <1>1, <1>2, <1>3, <1>4 DEF HandleMessage, HandleAuthenticated, HandleSetVotes

LEMMA VotesSet ==
  ASSUME IInv, NEW s \in Sessions, NEW req, HandleMessage(s, req), req.type = "SET_VOTES",
         sessionUserId[s] # 0
  PROVE  votes' = [votes EXCEPT ![sessionUserId[s]] = req.votes] /\ UNCHANGED sessionUserId
<1>1. HandleSetVotes(s, req)
  BY DEF HandleMessage, HandlePublic, HandleRegister, HandleLogin, HandleGetRoutes,
    HandleAuthenticated, HandleAddRoute, HandleDelRoute, HandleUpdateSchedule, HandleGetUsers,
    HandleGetUserDetail, HandleGetDemand, HandleSubscribe, HandleUnsubscribe, HandleGetSubs,
    HandleRide, HandleGetTickets, HandleGetVotes, Known, Public
<1>. QED
  BY <1>1 DEF HandleSetVotes, SetVotes

Submissions(c) == UnderWay(c, "SET_VOTES")

(* A list that was not sent too early is under way.                        *)
Submitting(c) == c \notin hasty /\ Submissions(c) # {}

AsWanted(vs, name) == Alike(vs, wanted[name].votes, RouteVote)

FiledAsWanted ==
  \A u \in users :
    u.username \notin unsure /\ (\A c \in Clients : sessionUserId[c] = u.id => ~Submitting(c))
    => AsWanted(votes[u.id], u.username)

(* It is sent when all is answered, so that it is the next request handled *)
(* and counts for the account whose name the dashboard bears.              *)
SentAsWanted(c) ==
  \A i \in Submissions(c) : c \notin hasty =>
    /\ i = 1
    /\ \E u \in users : /\ u.id = sessionUserId[c]
                        /\ u.username \notin unsure => AsWanted(toServer[c][i].votes, u.username)

(* Of accounts to come nothing is wanted or on file.                       *)
NewAsWanted ==
  /\ \A name \in UserNames \ unsure :
       (\A u \in users : u.username # name) => wanted[name].votes = <<>>
  /\ \A uid \in UserIds : (\A u \in users : u.id # uid) => votes[uid] = <<>>

ListSure(c) == Current(c, "user") => VotesUpToDate(c) \/ Owners(c) \subseteq unsure

HastySent(c) == c \in hasty => Submissions(c) # {}

QInv ==
  /\ FiledAsWanted /\ NewAsWanted
  /\ \A c \in Clients : SentAsWanted(c) /\ ListSure(c) /\ HastySent(c)

(* What the record says.                                                   *)
LEMMA RequestsRecorded ==
  ASSUME RecordRequests, ~Restarts
  PROVE  /\ unsure \subseteq unsure'
         /\ \A c \in Clients : Blind(c) => view[c].username \in unsure'
         /\ \A c \in Clients : Blind(c) \/ SubmissionLost(c) \/ (Submission(c) /\ Shared(c)) =>
              Owners(c) \subseteq unsure'
         /\ \A s \in Sessions :
              RequestsReplaced(s) /\ (s \notin Clients \/ s \in hasty \/ Shared(s)) =>
                Owners(s) \subseteq unsure'
<1>1. unsure' = unsure \cup NamesSubmitted \cup NamesLost \cup NamesReplaced
  BY DEF RecordRequests
<1>2. ASSUME NEW c \in Clients, Blind(c)
      PROVE  view[c].username \in NamesSubmitted
  BY <1>2 DEF NamesSubmitted
<1>3. ASSUME NEW c \in Clients, Blind(c) \/ (Submission(c) /\ Shared(c))
      PROVE  Owners(c) \subseteq NamesSubmitted
  BY <1>3 DEF NamesSubmitted
<1>4. ASSUME NEW c \in Clients, SubmissionLost(c)
      PROVE  Owners(c) \subseteq NamesLost
  BY <1>4 DEF NamesLost
<1>5. ASSUME NEW s \in Sessions, RequestsReplaced(s), s \notin Clients \/ s \in hasty \/ Shared(s)
      PROVE  Owners(s) \subseteq NamesReplaced
  BY <1>5 DEF NamesReplaced
<1>. QED
  BY <1>1, <1>2, <1>3, <1>4, <1>5

LEMMA HastyRecorded ==
  ASSUME RecordRequests, NEW c \in Clients
  PROVE  /\ (c \in hasty') <=> (Submissions(c)' # {} /\ (c \in hasty \/ Blind(c)))
         /\ HastySent(c)'
<1>1. (c \in hasty') <=> (Submissions(c)' # {} /\ (c \in hasty \/ Blind(c)))
  BY DEF RecordRequests, Submissions
<1>. QED
  BY <1>1 DEF HastySent

(* Nothing is clicked at a client where nothing happens.                   *)
LEMMA SubmittingStill ==
  ASSUME RecordRequests, NEW d \in Clients, Same(d)
  PROVE  /\ Submissions(d)' = Submissions(d) /\ ~Blind(d)
         /\ Submissions(d) # {} => ((d \in hasty') <=> (d \in hasty))
         /\ Submitting(d)' <=> Submitting(d)
<1>1. Submissions(d)' = Submissions(d) /\ ~Blind(d)
  BY DEF Same, Submissions, UnderWay, Blind, Submission, Clicks
<1>. QED
  BY <1>1, HastyRecorded DEF Submitting

LEMMA SentStill ==
  ASSUME QInv, RecordRequests, ~Restarts, NEW d \in Clients, users \subseteq users',
         UNCHANGED sessionUserId[d], ~Blind(d),
         \A i \in Submissions(d)' : i \in Submissions(d) /\ toServer'[d][i] = toServer[d][i],
         \A u \in users : u.id = sessionUserId[d] /\ u.username \notin unsure' =>
                            wanted'[u.username].votes = wanted[u.username].votes
  PROVE  SentAsWanted(d)'
<1>. SUFFICES ASSUME NEW i \in Submissions(d)', d \notin hasty'
              PROVE  /\ i = 1
                     /\ \E u \in users' :
                          /\ u.id = sessionUserId'[d]
                          /\ u.username \notin unsure' =>
                               Alike(toServer'[d][i].votes, wanted'[u.username].votes, RouteVote)
  BY DEF SentAsWanted, AsWanted
<1>1. d \notin hasty /\ i \in Submissions(d) /\ toServer'[d][i] = toServer[d][i]
  BY HastyRecorded
<1>2. PICK u \in users : /\ i = 1 /\ u.id = sessionUserId[d]
                         /\ u.username \notin unsure =>
                              Alike(toServer[d][i].votes, wanted[u.username].votes, RouteVote)
  BY <1>1 DEF QInv, SentAsWanted, AsWanted
<1>3. unsure \subseteq unsure'
  BY RequestsRecorded
<1>. QED
  BY <1>1, <1>2, <1>3

LEMMA FiledStill ==
  ASSUME QInv, RecordRequests, ~Restarts, NEW u \in users, u.username \notin unsure',
         votes'[u.id] = votes[u.id], wanted'[u.username].votes = wanted[u.username].votes,
         \A d \in Clients : sessionUserId[d] = u.id => ~Submitting(d)
  PROVE  AsWanted(votes[u.id], u.username)'
<1>1. u.username \notin unsure
  BY RequestsRecorded
<1>2. Alike(votes[u.id], wanted[u.username].votes, RouteVote)
  BY <1>1 DEF QInv, FiledAsWanted, AsWanted
<1>. QED
  BY <1>2 DEF AsWanted

(* No list is submitted or handled.                                        *)
LEMMA RequestsUntouched ==
  ASSUME QInv, RecordRequests, ~Restarts, UNCHANGED <<users, votes>>, NEW c \in Clients,
         \A u \in users : u.username \in UserNames,
         \A name \in UserNames : wanted'[name].votes = wanted[name].votes,
         \A d \in Clients : d # c => Same(d),
         ~Blind(c),
         \/ /\ UNCHANGED sessionUserId[c] /\ Submissions(c)' = Submissions(c)
            /\ \A i \in Submissions(c) : toServer'[c][i] = toServer[c][i]
         \/ Submissions(c)' = {} /\ (Submissions(c) # {} => Owners(c) \subseteq unsure')
  PROVE  FiledAsWanted' /\ NewAsWanted' /\ \A d \in Clients : SentAsWanted(d)'
<1>1. \A u \in users : wanted'[u.username].votes = wanted[u.username].votes
  OBVIOUS
<1>2. ASSUME NEW d \in Clients
      PROVE  SentAsWanted(d)'
  <2>1. CASE Submissions(d)' = {}
    BY <2>1 DEF SentAsWanted
  <2>2. CASE Submissions(d)' # {}
    <3>1. /\ UNCHANGED sessionUserId[d] /\ ~Blind(d)
          /\ \A i \in Submissions(d)' : i \in Submissions(d) /\ toServer'[d][i] = toServer[d][i]
      <4>1. CASE d = c
        BY <2>2, <4>1
      <4>2. CASE d # c
        BY <4>2, SubmittingStill DEF Same
      <4>. QED
        BY <4>1, <4>2
    <3>. QED
      BY <1>1, <3>1, SentStill
  <2>. QED
    BY <2>1, <2>2
<1>3. FiledAsWanted'
  <2>. SUFFICES ASSUME NEW u \in users, u.username \notin unsure',
                       \A d \in Clients : sessionUserId'[d] = u.id => ~Submitting(d)'
                PROVE  AsWanted(votes[u.id], u.username)'
    BY DEF FiledAsWanted, AsWanted
  <2>1. ASSUME NEW d \in Clients, sessionUserId[d] = u.id, Submitting(d)
        PROVE  FALSE
    <3>1. CASE d # c
      <4>1. Same(d)
        BY <3>1
      <4>. QED
        BY <2>1, <4>1, SubmittingStill DEF Same
    <3>2. CASE d = c
      <4>1. Submissions(c) # {} /\ c \notin hasty
        BY <2>1, <3>2 DEF Submitting
      <4>2. CASE Owners(c) \subseteq unsure'
        BY <2>1, <3>2, <4>2 DEF Owners, FindUserById
      <4>3. CASE UNCHANGED sessionUserId[c] /\ Submissions(c)' = Submissions(c)
        <5>1. c \notin hasty'
          BY <4>1, HastyRecorded
        <5>2. Submitting(c)'
          BY <4>1, <4>3, <5>1 DEF Submitting
        <5>. QED
          BY <2>1, <3>2, <4>3, <5>2
      <4>. QED
        BY <4>1, <4>2, <4>3
    <3>. QED
      BY <3>1, <3>2
  <2>. QED
    BY <1>1, <2>1, FiledStill
<1>4. NewAsWanted'
  BY RequestsRecorded DEF QInv, NewAsWanted
<1>. QED
  BY <1>2, <1>3, <1>4

(* A request is handled, for a client or for somebody else.                *)
LEMMA HandledRequests ==
  ASSUME BusInv, QInv, RecordRequests, ~Restarts, UNCHANGED <<wanted, clicks>>,
         NEW s \in Sessions, NEW req, WellFormed(req), HandleMessage(s, req),
         \A d \in Clients : d # s => Same(d),
         s \in Clients => /\ toServer[s] # <<>> /\ req = Head(toServer[s])
                          /\ toServer'[s] = Tail(toServer[s])
  PROVE  FiledAsWanted' /\ NewAsWanted' /\ \A d \in Clients : SentAsWanted(d)'
<1>. DEFINE uid == sessionUserId[s]
<1>1. IInv /\ IInv' /\ users \subseteq users' /\ unsure \subseteq unsure'
  BY HandledKeeps, UsersStay, RequestsRecorded DEF BusInv, CInv
<1>2. \A d \in Clients : ~Blind(d)
  BY DEF Blind, Submission, Clicks
<1>3. ASSUME NEW id \in UserIds, votes'[id] # votes[id]
      PROVE  id = uid /\ id # 0 /\ req.type = "SET_VOTES" /\ RequestsReplaced(s)
  <2>1. id = uid /\ id # 0
    BY <1>1, <1>3, ActedFor
  <2>2. votes' # votes /\ req.type = "SET_VOTES"
    BY <1>1, <1>3, VotesStay
  <2>3. PICK msg : SaysTo(s, msg)
    BY <1>1, Answers DEF Answered
  <2>. QED
    BY <2>1, <2>2, <2>3 DEF RequestsReplaced, SaysTo
<1>4. uid # 0 => \E w \in users : w.id = uid
  BY <1>1 DEF IInv, AccountsUnambiguous, IdsOf
<1>5. \A u, v \in users' : u.id = v.id \/ u.username = v.username => u = v
  BY <1>1 DEF IInv, AccountsUnambiguous
<1>6. \A u \in users' : u.id \in UserIds /\ u.username \in UserNames
  BY <1>1 DEF IInv, TypeOK, StoreTypeOK, User
<1>7. s \in Clients => toServer[s] \in Seq(ClientRequest)
  BY DEF BusInv, CInv, ClientTypes
<1>8. ASSUME NEW d \in Clients
      PROVE  SentAsWanted(d)'
  <2>1. CASE d = s
    <3>. SUFFICES ASSUME NEW i \in Submissions(d)', d \notin hasty'
                  PROVE  FALSE
      BY DEF SentAsWanted
    <3>1. i \in DOMAIN Tail(toServer[d]) /\ Tail(toServer[d])[i].type = "SET_VOTES"
      BY <2>1 DEF Submissions, UnderWay
    <3>2. i + 1 \in DOMAIN toServer[d] /\ Tail(toServer[d])[i] = toServer[d][i + 1]
      BY <1>7, <2>1, <3>1, TailAt
    <3>3. i + 1 \in Submissions(d) /\ d \notin hasty
      BY <3>1, <3>2, HastyRecorded DEF Submissions, UnderWay
    <3>4. i + 1 = 1
      BY <3>3 DEF QInv, SentAsWanted
    <3>5. i \in Nat /\ i # 0
      BY <1>7, <2>1, <3>1
    <3>. QED
      BY <3>4, <3>5
  <2>2. CASE d # s
    <3>1. Same(d)
      BY <2>2
    <3>. QED
      BY <1>1, <1>2, <3>1, SubmittingStill, SentStill DEF Same
  <2>. QED
    BY <2>1, <2>2
<1>9. FiledAsWanted'
  <2>. SUFFICES ASSUME NEW u \in users', u.username \notin unsure',
                       \A d \in Clients : sessionUserId'[d] = u.id => ~Submitting(d)'
                PROVE  AsWanted(votes[u.id], u.username)'
    BY DEF FiledAsWanted, AsWanted
  <2>1. CASE u \notin users
    <3>1. \A v \in users : v.id # u.id /\ v.username # u.username
      BY <1>1, <1>5, <2>1
    <3>2. wanted[u.username].votes = <<>> /\ votes[u.id] = <<>>
      BY <1>1, <1>6, <3>1 DEF QInv, NewAsWanted
    <3>3. votes'[u.id] = votes[u.id]
      BY <1>3, <1>4, <1>6, <3>1
    <3>. QED
      BY <3>2, <3>3 DEF AsWanted, Alike
  <2>2. ASSUME u \in users, NEW d \in Clients, sessionUserId[d] = u.id, Submitting(d)
        PROVE  AsWanted(votes[u.id], u.username)'
    <3>1. d = s
      <4>1. ASSUME d # s
            PROVE  FALSE
        <5>1. Same(d)
          BY <4>1
        <5>2. Submitting(d)'
          BY <2>2, <5>1, SubmittingStill
        <5>3. sessionUserId'[d] = u.id
          BY <2>2, <5>1 DEF Same
        <5>. QED
          BY <5>2, <5>3
      <4>. QED
        BY <4>1
    <3>2. PICK i \in Submissions(s) : i = 1 /\ s \notin hasty
      BY <2>2, <3>1 DEF Submitting, QInv, SentAsWanted
    <3>3. req = toServer[s][1] /\ req.type = "SET_VOTES"
      BY <1>7, <2>2, <3>1, <3>2 DEF Submissions, UnderWay
    <3>4. PICK w \in users : /\ w.id = uid
                             /\ w.username \notin unsure =>
                                  Alike(req.votes, wanted[w.username].votes, RouteVote)
      BY <2>2, <3>1, <3>2, <3>3 DEF QInv, SentAsWanted, AsWanted
    <3>5. w = u
      BY <1>1, <1>5, <2>2, <3>1, <3>4
    <3>6. votes'[u.id] = req.votes
      <4>1. uid = u.id /\ uid # 0 /\ uid \in UserIds
        BY <1>6, <2>2, <3>1 DEF UserIds
      <4>2. votes' = [votes EXCEPT ![uid] = req.votes]
        BY <1>1, <3>3, <4>1, VotesSet
      <4>. QED
        BY <1>1, <4>1, <4>2 DEF IInv, TypeOK, StoreTypeOK
    <3>. QED
      BY <1>1, <3>4, <3>5, <3>6 DEF AsWanted
  <2>3. CASE u \in users /\ \A d \in Clients : sessionUserId[d] = u.id => ~Submitting(d)
    <3>1. ASSUME votes'[u.id] # votes[u.id]
          PROVE  FALSE
      <4>1. u.id = uid /\ req.type = "SET_VOTES" /\ RequestsReplaced(s)
        BY <1>3, <1>6, <3>1
      <4>2. s \notin Clients \/ s \in hasty
        <5>1. ASSUME s \in Clients
              PROVE  1 \in Submissions(s) /\ ~Submitting(s)
          <6>1. 1 \in DOMAIN toServer[s] /\ toServer[s][1] = req
            BY <1>7, <5>1
          <6>. QED
            BY <2>3, <4>1, <5>1, <6>1 DEF Submissions, UnderWay
        <5>. QED
          BY <5>1 DEF Submitting
      <4>3. Owners(s) \subseteq unsure'
        BY <4>1, <4>2, RequestsRecorded
      <4>. QED
        BY <2>3, <4>1, <4>3 DEF Owners, FindUserById
    <3>. QED
      BY <2>3, <3>1, FiledStill
  <2>. QED
    BY <2>1, <2>2, <2>3
<1>10. NewAsWanted'
  <2>1. ASSUME NEW id \in UserIds, \A u \in users' : u.id # id
        PROVE  votes'[id] = <<>>
    <3>1. \A u \in users : u.id # id
      BY <1>1, <2>1
    <3>2. votes[id] = <<>>
      BY <3>1 DEF QInv, NewAsWanted
    <3>. QED
      BY <1>3, <1>4, <3>1, <3>2
  <2>2. ASSUME NEW name \in UserNames \ unsure', \A u \in users' : u.username # name
        PROVE  wanted'[name].votes = <<>>
    BY <1>1, <2>2 DEF QInv, NewAsWanted
  <2>. QED
    BY <2>1, <2>2 DEF NewAsWanted
<1>. QED
  BY <1>8, <1>9, <1>10

(* To a user who knows everything, the dashboard shown is the one of the   *)
(* account the session is for, and the list shown is the one on file.      *)
LEMMA KnowsList ==
  ASSUME BusInv, QInv, NEW c \in Clients, Informed(c, "user")
  PROVE  /\ toServer[c] = <<>> /\ session[c]
         /\ \E u \in users : u.id = sessionUserId[c] /\ u.username = view[c].username
         /\ VotesShown(c) \/ Owners(c) \subseteq unsure
<1>. USE DEF BusInv
<1>1. /\ toServer[c] = <<>> /\ toClient[c] = <<>> /\ session[c] /\ sessionUserId[c] # 0
      /\ dashboards[c] # <<>> /\ Last(dashboards[c]) = "user"
  BY DEF Informed, Settled, Idle, Shows
<1>2. Current(c, "user")
  BY <1>1 DEF Current, Carries
<1>3. PICK u \in users : u.id = sessionUserId[c] /\ IsOwner(c, 0, ToPublicJson(u))
  <2>1. Len(toClient[c]) = 0
    BY <1>1
  <2>. QED
    BY <1>1, <2>1 DEF OInv, Owned, SessionOwned
<1>4. u.username = view[c].username
  <2>1. ToPublicJson(u).role = "user" => ToPublicJson(u).username = view[c].username
    BY <1>3 DEF IsOwner
  <2>2. ToPublicJson(u).role = "user"
    BY <1>1, <1>3 DEF IsOwner
  <2>. QED
    BY <2>1, <2>2 DEF ToPublicJson
<1>5. VotesUpToDate(c) => VotesShown(c)
  <2>1. VotesShown(c) \in BOOLEAN
    BY ShownBoolean
  <2>2. VotesUpToDate(c) =>
          UpToDate(<<>>, <<>>, {"GET_VOTES", "SET_VOTES"}, {"OK"}, "VOTES_LIST",
                   {VotesList(sessionUserId[c])}, VotesShown(c))
    BY <1>1 DEF VotesUpToDate
  <2>. QED
    BY <2>1, <2>2, ShownInTheEnd
<1>. QED
  BY <1>1, <1>2, <1>3, <1>4, <1>5 DEF QInv, ListSure

(* A list is submitted.                                                    *)
LEMMA ListSubmitted ==
  ASSUME BusInv, QInv, RecordRequests, ~Restarts, NEW c \in Clients,
         UNCHANGED <<users, votes, sessionUserId>>, \A d \in Clients : d # c => Same(d),
         NEW req \in ClientRequest, req.type = "SET_VOTES", SendRequests(c, <<req>>),
         Submission(c), view[c].username \in UserNames,
         NEW w \in Wanted, wanted' = [wanted EXCEPT ![view[c].username] = w],
         view[c].requests = view[c].myVotes
         /\ Alike(view[c].myVotes, wanted[view[c].username].votes, RouteVote)
           => Alike(req.votes, w.votes, RouteVote)
  PROVE  FiledAsWanted' /\ NewAsWanted' /\ \A d \in Clients : SentAsWanted(d)'
<1>. DEFINE name == view[c].username
<1>1. /\ unsure \subseteq unsure' /\ (Blind(c) => name \in unsure' /\ Owners(c) \subseteq unsure')
      /\ Shared(c) => Owners(c) \subseteq unsure'
  BY RequestsRecorded
<1>2. /\ \A n \in UserNames \ {name} : wanted'[n] = wanted[n]
      /\ wanted'[name] = w
  BY DEF BusInv, VInv
<1>3. ASSUME ~Blind(c)
      PROVE  /\ toServer[c] = <<>> /\ c \notin hasty /\ toServer'[c] = <<req>>
             /\ \E u \in users : u.id = sessionUserId[c] /\ u.username = name
             /\ VotesShown(c) \/ Owners(c) \subseteq unsure
  <2>1. Informed(c, "user")
    BY <1>3 DEF Blind
  <2>2. toServer[c] = <<>> /\ session[c]
    BY <2>1, KnowsList
  <2>3. Submissions(c) = {}
    BY <2>2 DEF Submissions, UnderWay
  <2>4. toServer'[c] = <<req>>
    <3>1. <<req>> \in Seq(ClientRequest)
      OBVIOUS
    <3>2. toServer'[c] = <<>> \o <<req>>
      BY <2>2, <3>1, Sending DEF BusInv
    <3>. QED
      BY <3>1, <3>2
  <2>. QED
    BY <2>1, <2>2, <2>3, <2>4, KnowsList DEF QInv, HastySent
<1>4. \A u, v \in users : u.id = v.id \/ u.username = v.username => u = v
  BY DEF BusInv, CInv, IInv, AccountsUnambiguous
<1>5. \A u \in users : u.username \in UserNames
  BY DEF BusInv, CInv, IInv, TypeOK, StoreTypeOK, User
<1>6. \A u \in users : u.id = sessionUserId[c] => u.username \in Owners(c)
  BY DEF Owners, FindUserById
<1>7. ASSUME NEW u \in users, u.username = name, u.username \notin unsure'
      PROVE  /\ ~Blind(c) /\ u.id = sessionUserId[c] /\ VotesShown(c)
             /\ \A d \in Clients : d # c => sessionUserId[d] # u.id
  <2>1. ~Blind(c) /\ u.id = sessionUserId[c]
    BY <1>1, <1>3, <1>4, <1>7
  <2>2. u.username \in Owners(c)
    BY <1>6, <2>1
  <2>3. ~Shared(c) /\ VotesShown(c)
    BY <1>1, <1>3, <1>7, <2>1, <2>2
  <2>. QED
    BY <2>1, <2>3, ClientAssumption DEF Shared
<1>8. ASSUME NEW d \in Clients
      PROVE  SentAsWanted(d)'
  <2>1. CASE d # c
    <3>1. Same(d)
      BY <2>1
    <3>2. \A u \in users : u.id = sessionUserId[d] /\ u.username \notin unsure' =>
            wanted'[u.username].votes = wanted[u.username].votes
      BY <1>2, <1>5, <1>7, <2>1
    <3>. QED
      BY <3>1, <3>2, SubmittingStill, SentStill DEF Same
  <2>2. CASE d = c /\ Blind(c)
    BY <2>2, HastyRecorded DEF SentAsWanted
  <2>3. CASE d = c /\ ~Blind(c)
    <3>. SUFFICES ASSUME NEW i \in Submissions(c)'
                  PROVE  /\ i = 1
                         /\ \E u \in users' :
                              /\ u.id = sessionUserId'[c]
                              /\ u.username \notin unsure' =>
                                   Alike(toServer'[c][i].votes, wanted'[u.username].votes, RouteVote)
      BY <2>3 DEF SentAsWanted, AsWanted
    <3>1. i \in DOMAIN <<req>>
      BY <1>3, <2>3 DEF Submissions, UnderWay
    <3>2. i = 1 /\ toServer'[c][i] = req
      BY <1>3, <2>3, <3>1
    <3>3. PICK u \in users : u.id = sessionUserId[c] /\ u.username = name
      BY <1>3, <2>3
    <3>4. ASSUME u.username \notin unsure'
          PROVE  Alike(req.votes, w.votes, RouteVote)
      <4>1. VotesShown(c) /\ \A d2 \in Clients : d2 # c => sessionUserId[d2] # u.id
        BY <1>7, <3>3, <3>4
      <4>2. ~Submitting(c)
        BY <1>3, <2>3 DEF Submitting, Submissions, UnderWay
      <4>3. Alike(votes[u.id], wanted[name].votes, RouteVote)
        BY <1>1, <3>3, <3>4, <4>1, <4>2 DEF QInv, FiledAsWanted, AsWanted
      <4>. QED
        BY <3>3, <4>1, <4>3 DEF VotesShown
    <3>. QED
      BY <1>2, <3>2, <3>3, <3>4
  <2>. QED
    BY <2>1, <2>2, <2>3
<1>9. FiledAsWanted'
  <2>. SUFFICES ASSUME NEW u \in users, u.username \notin unsure',
                       \A d \in Clients : sessionUserId'[d] = u.id => ~Submitting(d)'
                PROVE  AsWanted(votes[u.id], u.username)'
    BY DEF FiledAsWanted, AsWanted
  <2>1. u.username # name
    <3>. SUFFICES ASSUME u.username = name
                  PROVE  FALSE
      OBVIOUS
    <3>1. ~Blind(c) /\ u.id = sessionUserId[c]
      BY <1>7
    <3>2. 1 \in Submissions(c)'
      <4>1. toServer'[c] = <<req>>
        BY <1>3, <3>1
      <4>. QED
        BY <4>1 DEF Submissions, UnderWay
    <3>3. Submitting(c)'
      BY <1>3, <3>1, <3>2, HastyRecorded DEF Submitting
    <3>. QED
      BY <3>1, <3>3
  <2>2. ASSUME NEW d \in Clients, sessionUserId[d] = u.id, Submitting(d)
        PROVE  FALSE
    <3>1. CASE d # c
      <4>1. Same(d)
        BY <3>1
      <4>. QED
        BY <2>2, <4>1, SubmittingStill
    <3>2. CASE d = c /\ Blind(c)
      BY <1>1, <1>6, <2>2, <3>2
    <3>3. CASE d = c /\ ~Blind(c)
      BY <1>3, <2>2, <3>3 DEF Submitting, Submissions, UnderWay
    <3>. QED
      BY <3>1, <3>2, <3>3
  <2>. QED
    BY <1>2, <1>5, <2>1, <2>2, FiledStill
<1>10. NewAsWanted'
  <2>1. ASSUME NEW n \in UserNames \ unsure', \A u \in users : u.username # n
        PROVE  wanted'[n].votes = <<>>
    <3>1. n # name
      BY <1>1, <1>3, <2>1
    <3>. QED
      BY <1>1, <1>2, <2>1, <3>1 DEF QInv, NewAsWanted
  <2>. QED
    BY <2>1 DEF QInv, NewAsWanted
<1>. QED
  BY <1>8, <1>9, <1>10

(* What else is sent leaves the lists under way as they are.               *)
LEMMA OtherwiseSent ==
  ASSUME CInv, NEW c \in Clients,
         \/ UNCHANGED toServer[c]
         \/ \E reqs \in Seq(ClientRequest) :
              SendRequests(c, reqs) /\ \A i \in DOMAIN reqs : reqs[i].type # "SET_VOTES"
  PROVE  /\ Submissions(c)' = Submissions(c)
         /\ \A i \in Submissions(c) : toServer'[c][i] = toServer[c][i]
<1>1. CASE UNCHANGED toServer[c]
  BY <1>1 DEF Submissions, UnderWay
<1>2. ASSUME NEW reqs \in Seq(ClientRequest), SendRequests(c, reqs),
             \A i \in DOMAIN reqs : reqs[i].type # "SET_VOTES", toServer'[c] # toServer[c]
      PROVE  /\ Submissions(c)' = Submissions(c)
             /\ \A i \in Submissions(c) : toServer'[c][i] = toServer[c][i]
  <2>. DEFINE old == toServer[c]
  <2>1. old \in Seq(ClientRequest) /\ toServer'[c] = old \o reqs
    BY <1>2, Sending DEF CInv, ClientTypes
  <2>2. \A i \in DOMAIN old : i \in DOMAIN (old \o reqs) /\ (old \o reqs)[i] = old[i]
    BY <2>1
  <2>3. \A i \in DOMAIN (old \o reqs) : i \notin DOMAIN old => (old \o reqs)[i].type # "SET_VOTES"
    <3>1. ASSUME NEW i \in DOMAIN (old \o reqs), i \notin DOMAIN old
          PROVE  i - Len(old) \in DOMAIN reqs /\ (old \o reqs)[i] = reqs[i - Len(old)]
      BY <2>1, <3>1
    <3>. QED
      BY <1>2, <3>1
  <2>. QED
    BY <2>1, <2>2, <2>3 DEF Submissions, UnderWay
<1>. QED
  BY <1>1, <1>2

LEMMA ClickedRequests ==
  ASSUME BusInv, QInv, RecordRequests, ~Restarts, NEW c \in Clients, Clicked(c)
  PROVE  /\ FiledAsWanted' /\ NewAsWanted' /\ \A d \in Clients : SentAsWanted(d)'
         /\ UNCHANGED <<users, votes, sessionUserId>>
<1>. USE DEF BusInv
<1>1. \A d \in Clients : d # c => Same(d)
  BY Elsewhere
<1>2. UNCHANGED <<users, votes, sessionUserId>>
  BY WindowClicking, RiderClicking, OfficeClicking DEF Clicked, Click, clientVars, logicVars, store
<1>3. \A u \in users : u.username \in UserNames
  BY DEF CInv, IInv, TypeOK, StoreTypeOK, User
<1>4. ASSUME \A name \in UserNames : wanted'[name].votes = wanted[name].votes, UNCHANGED view,
             \/ UNCHANGED toServer
             \/ \E reqs \in Seq(ClientRequest) :
                  SendRequests(c, reqs) /\ \A i \in DOMAIN reqs : reqs[i].type # "SET_VOTES"
      PROVE  FiledAsWanted' /\ NewAsWanted' /\ \A d \in Clients : SentAsWanted(d)'
  <2>1. ~Blind(c)
    BY <1>4 DEF Blind, Submission
  <2>2. Submissions(c)' = Submissions(c) /\ \A i \in Submissions(c) : toServer'[c][i] = toServer[c][i]
    BY <1>4, OtherwiseSent
  <2>. QED
    BY <1>1, <1>2, <1>3, <1>4, <2>1, <2>2, RequestsUntouched
<1>5. ASSUME NEW req \in ClientRequest, req.type # "SET_VOTES"
      PROVE  <<req>> \in Seq(ClientRequest) /\ \A i \in DOMAIN <<req>> : <<req>>[i].type # "SET_VOTES"
  BY <1>5
<1>6. \A reqs \in Seq(Question) : /\ reqs \in Seq(ClientRequest)
                                  /\ \A i \in DOMAIN reqs : reqs[i].type # "SET_VOTES"
  <2>1. \A q \in Question : q.type # "SET_VOTES"
    BY DEF Question
  <2>. QED
    BY <2>1, RefreshType
<1>. DEFINE Quiet(reqs) == SendRequests(c, reqs) /\ \A i \in DOMAIN reqs : reqs[i].type # "SET_VOTES"
<1>7. CASE WindowClicks(c) /\ UNCHANGED dashboardVars
  <2>1. \A req \in Logins[c] : req.type # "SET_VOTES"
    BY ClientAssumption
  <2>2. UNCHANGED toServer \/ \E reqs \in Seq(ClientRequest) : Quiet(reqs)
    <3>1. ASSUME NEW req \in ClientRequest, req \in Logins[c], SendRequests(c, <<req>>)
          PROVE  \E reqs \in Seq(ClientRequest) : Quiet(reqs)
      BY <1>5, <2>1, <3>1
    <3>2. ASSUME NEW reqs \in Seq(Question), SendRequests(c, reqs)
          PROVE  Quiet(reqs) /\ reqs \in Seq(ClientRequest)
      BY <1>6, <3>2
    <3>. HIDE DEF Quiet
    <3>. QED
      BY <1>7, <3>1, <3>2, WindowClicking
  <2>3. UNCHANGED <<view, wanted>>
    BY <1>7 DEF dashboardVars, viewVars
  <2>. QED
    BY <1>2, <1>4, <2>2, <2>3
<1>8. CASE OfficeClicks(c) /\ UNCHANGED viewVars
  <2>1. UNCHANGED toServer \/ \E req \in ClientRequest : SendRequests(c, <<req>>) /\ req.type # "SET_VOTES"
    BY <1>8, OfficeClicking DEF clientVars
  <2>2. UNCHANGED toServer \/ \E reqs \in Seq(ClientRequest) : Quiet(reqs)
    BY <1>5, <2>1
  <2>3. UNCHANGED <<view, wanted>>
    BY <1>8 DEF viewVars
  <2>. QED
    BY <1>2, <1>4, <2>2, <2>3
<1>9. CASE RiderClicks(c) /\ UNCHANGED panelVars
  <2>. DEFINE v == view[c]
  <2>1. Click(c) /\ v.username \in UserNames /\ v \in View
    BY <1>9, RiderWishing DEF RiderClick, VInv
  <2>2. PICK req \in ClientRequest, w \in Wanted :
          /\ SendRequests(c, <<req>>)
          /\ wanted' = [wanted EXCEPT ![v.username] = w]
          /\ \/ req.type # "SET_VOTES" /\ UNCHANGED view /\ w.votes = wanted[v.username].votes
             \/ /\ req.type = "SET_VOTES"
                /\ view' = [view EXCEPT ![c] = [v EXCEPT !.myVotes = req.votes]]
                /\ req.votes # v.myVotes
                /\ v.requests = v.myVotes /\ Alike(v.myVotes, wanted[v.username].votes, RouteVote)
                   => Alike(req.votes, w.votes, RouteVote)
    BY <1>9, RiderWishing, ZenonT(60)
  <2>3. CASE req.type # "SET_VOTES" /\ UNCHANGED view /\ w.votes = wanted[v.username].votes
    <3>1. \A name \in UserNames : wanted'[name].votes = wanted[name].votes
      BY <2>1, <2>2, <2>3 DEF VInv
    <3>2. \E reqs \in Seq(ClientRequest) : Quiet(reqs)
      BY <1>5, <2>2, <2>3
    <3>. QED
      BY <1>2, <1>4, <2>3, <3>1, <3>2
  <2>4. CASE /\ req.type = "SET_VOTES"
             /\ view' = [view EXCEPT ![c] = [v EXCEPT !.myVotes = req.votes]]
             /\ req.votes # v.myVotes
             /\ v.requests = v.myVotes /\ Alike(v.myVotes, wanted[v.username].votes, RouteVote)
                => Alike(req.votes, w.votes, RouteVote)
    <3>1. view'[c].myVotes = req.votes
      BY <2>1, <2>4 DEF VInv, View
    <3>2. Clicks(c)
      <4>1. clicks[c] \in Nat /\ c \in DOMAIN clicks
        BY ClientAssumption DEF CInv, ClientTypes
      <4>2. clicks'[c] = clicks[c] + 1
        BY <2>1, <4>1 DEF Click
      <4>. QED
        BY <4>1, <4>2 DEF Clicks
    <3>3. Submission(c)
      BY <2>4, <3>1, <3>2 DEF Submission
    <3>. QED
      BY <1>1, <1>2, <2>1, <2>2, <2>4, <3>3, ListSubmitted
  <2>. QED
    BY <2>2, <2>3, <2>4
<1>. QED
  BY <1>2, <1>7, <1>8, <1>9 DEF Clicked

(* What the client reads, how it connects and how it loses the connection. *)
LEMMA LinkRequests ==
  ASSUME BusInv, QInv, RecordRequests, ~Restarts, NEW c \in Clients,
         Connection(c) \/ Received(c) \/ ConnectionLost(c)
  PROVE  /\ FiledAsWanted' /\ NewAsWanted' /\ \A d \in Clients : SentAsWanted(d)'
         /\ UNCHANGED <<users, votes>>
<1>. USE DEF BusInv
<1>1. UNCHANGED <<users, votes, wanted, clicks>>
  BY DEF Connection, OnConnected, Accept, OnConnectionRefused, OnDisconnected, Received,
    OnMessageReceived, ViewReacts, ConnectionLost, logicVars, store, dashboardVars, viewVars
<1>2. /\ \A d \in Clients : d # c => Same(d)
      /\ \A u \in users : u.username \in UserNames
      /\ ~Blind(c)
  BY <1>1, Elsewhere DEF Blind, Submission, Clicks, CInv, IInv, TypeOK, StoreTypeOK, User
<1>3. CASE Connection(c)
  <2>1. toServer[c] = <<>> /\ UNCHANGED toServer
    BY <1>3 DEF Connection, OnConnected, OnConnectionRefused, OnDisconnected, CInv, Linked
  <2>2. Submissions(c) = {} /\ Submissions(c)' = {}
    BY <2>1 DEF Submissions, UnderWay
  <2>. QED
    BY <1>1, <1>2, <2>2, RequestsUntouched
<1>4. CASE ConnectionLost(c)
  <2>1. toServer'[c] = <<>> /\ Loses(c)
    BY <1>4 DEF ConnectionLost, Loses, CInv, ClientTypes
  <2>2. Submissions(c)' = {}
    BY <2>1 DEF Submissions, UnderWay
  <2>3. Submissions(c) # {} => Owners(c) \subseteq unsure'
    BY <2>1, RequestsRecorded DEF SubmissionLost, Submissions
  <2>. QED
    BY <1>1, <1>2, <2>2, <2>3, RequestsUntouched
<1>5. CASE Received(c)
  <2>1. UNCHANGED sessionUserId[c]
    BY <1>5 DEF Received, OnMessageReceived, logicVars
  <2>2. \A q \in Question : q.type # "SET_VOTES"
    BY DEF Question
  <2>3. \/ UNCHANGED toServer
        \/ \E reqs \in Seq(Question) : SendRequests(c, reqs)
    BY <1>5, Reading DEF Received
  <2>4. \A reqs \in Seq(Question) : /\ reqs \in Seq(ClientRequest)
                                    /\ \A i \in DOMAIN reqs : reqs[i].type # "SET_VOTES"
    BY <2>2, RefreshType
  <2>5. \/ UNCHANGED toServer[c]
        \/ \E reqs \in Seq(ClientRequest) :
             SendRequests(c, reqs) /\ \A i \in DOMAIN reqs : reqs[i].type # "SET_VOTES"
    BY <2>3, <2>4
  <2>6. Submissions(c)' = Submissions(c) /\ \A i \in Submissions(c) : toServer'[c][i] = toServer[c][i]
    BY <2>5, OtherwiseSent
  <2>. QED
    BY <1>1, <1>2, <2>1, <2>6, RequestsUntouched
<1>. QED
  BY <1>1, <1>3, <1>4, <1>5

(* Who a session is for stays who it is.                                   *)
LEMMA OwnersStay ==
  ASSUME IInv, IInv', NEW s \in Sessions, users \subseteq users',
         UNCHANGED sessionUserId[s], sessionUserId[s] # 0
  PROVE  Owners(s)' = Owners(s)
<1>1. PICK w \in users : w.id = sessionUserId[s]
  BY DEF IInv, AccountsUnambiguous, IdsOf
<1>2. \A u \in users' : u.id = sessionUserId[s] => u = w
  BY <1>1 DEF IInv, AccountsUnambiguous
<1>3. FindUserById(sessionUserId[s]) = {w} /\ FindUserById(sessionUserId[s])' = {w}
  BY <1>1, <1>2 DEF FindUserById
<1>. QED
  BY <1>3 DEF Owners

LEMMA ListElsewhere ==
  ASSUME BusInv, BusInv', QInv, RecordRequests, ~Restarts, NEW c \in Clients, Same(c),
         users \subseteq users',
         \/ UNCHANGED votes
         \/ \E s \in Sessions, req \in ClientRequest \cup Requests :
              s # c /\ WellFormed(req) /\ HandleMessage(s, req)
  PROVE  ListSure(c)'
<1>. DEFINE uid == sessionUserId[c]
<1>. SUFFICES ASSUME Current(c, "user")', ~(Owners(c)' \subseteq unsure')
              PROVE  VotesUpToDate(c)'
  BY DEF ListSure
<1>1. Current(c, "user") /\ unsure \subseteq unsure' /\ UNCHANGED uid
  BY RequestsRecorded DEF Same, Current
<1>2. IInv /\ IInv' /\ c \in Sessions /\ uid # 0
  BY <1>1, ClientAssumption DEF Current, BusInv, CInv
<1>3. Owners(c)' = Owners(c)
  BY <1>1, <1>2, OwnersStay
<1>4. VotesUpToDate(c)
  BY <1>1, <1>3 DEF QInv, ListSure
<1>5. ASSUME NEW s \in Sessions, NEW req, s # c, WellFormed(req), HandleMessage(s, req),
             votes'[uid] # votes[uid]
      PROVE  FALSE
  <2>1. uid \in UserIds
    BY <1>1, CurrentOwner
  <2>2. uid = sessionUserId[s] /\ votes' # votes
    BY <1>2, <1>5, <2>1, ActedFor
  <2>3. PICK msg : SaysTo(s, msg)
    BY <1>2, <1>5, Answers DEF Answered
  <2>4. RequestsReplaced(s) /\ Shared(s)
    BY <1>2, <1>5, <2>2, <2>3 DEF RequestsReplaced, SaysTo, Shared
  <2>5. Owners(s) \subseteq unsure'
    BY <2>4, RequestsRecorded
  <2>6. Owners(c) = Owners(s)
    BY <2>2 DEF Owners
  <2>. QED
    BY <1>3, <2>5, <2>6
<1>6. votes'[uid] = votes[uid]
  BY <1>5
<1>7. UNCHANGED <<toServer[c], toClient[c], view[c]>>
  BY DEF Same
<1>8. VotesList(uid)' = VotesList(uid) /\ VotesShown(c)' = VotesShown(c)
  BY <1>1, <1>6, <1>7 DEF VotesList, VotesShown
<1>. QED
  BY <1>4, <1>7, <1>8 DEF VotesUpToDate

LEMMA ListAtClient ==
  ASSUME BusInv, BusInv', QInv, RecordRequests, ~Restarts, NEW c \in Clients, users \subseteq users',
         Connection(c) \/ Served(c) \/ Received(c) \/ Clicked(c) \/ ConnectionLost(c)
  PROVE  ListSure(c)'
<1>. SUFFICES ASSUME Current(c, "user")', ~(Owners(c)' \subseteq unsure')
              PROVE  VotesUpToDate(c)'
  BY DEF ListSure
<1>1. ~Connection(c)
  <2>1. OnConnected(c) => sessionUserId'[c] = 0
    BY ClientAssumption DEF OnConnected, Accept, BusInv, CInv, IInv, TypeOK
  <2>2. OnConnectionRefused(c) \/ OnDisconnected(c) => ~session'[c]
    BY DEF OnConnectionRefused, OnDisconnected, BusInv, CInv, Linked
  <2>. QED
    BY <2>1, <2>2 DEF Connection, Current
<1>2. ~ConnectionLost(c)
  BY DEF ConnectionLost, Current, BusInv, CInv, ClientTypes
<1>3. UNCHANGED sessionUserId[c]
  <2>1. CASE Served(c)
    BY <2>1, RiderServed
  <2>2. CASE Received(c)
    BY <2>2 DEF Received, OnMessageReceived, logicVars
  <2>3. CASE Clicked(c)
    BY <2>3, RiderClicked DEF logicVars
  <2>. QED
    BY <1>1, <1>2, <2>1, <2>2, <2>3
<1>4. Owners(c)' = Owners(c) /\ unsure \subseteq unsure'
  <2>1. IInv /\ IInv' /\ c \in Sessions /\ sessionUserId[c] # 0
    BY <1>3, ClientAssumption DEF Current, BusInv, CInv
  <2>. QED
    BY <1>3, <2>1, OwnersStay, RequestsRecorded
<1>5. Current(c, "user") => VotesUpToDate(c)
  BY <1>4 DEF QInv, ListSure
<1>. QED
  BY <1>1, <1>2, <1>5, ListsServed, ListsRead, ListsClicked

(* When a server has been started.                                         *)
NothingRequested ==
  /\ wanted = NothingWanted /\ votes = [uid \in UserIds |-> <<>>]
  /\ \A c \in Clients : toServer[c] = <<>> /\ ~session[c]

LEMMA StartRequests ==
  BusInv /\ NothingRequested =>
    FiledAsWanted /\ NewAsWanted /\ \A c \in Clients : SentAsWanted(c) /\ ListSure(c)
<1>. SUFFICES ASSUME BusInv, NothingRequested
              PROVE  FiledAsWanted /\ NewAsWanted /\ \A c \in Clients : SentAsWanted(c) /\ ListSure(c)
  OBVIOUS
<1>1. \A u \in users : u.id \in UserIds /\ u.username \in UserNames
  BY DEF BusInv, CInv, IInv, TypeOK, StoreTypeOK, User
<1>2. /\ \A name \in UserNames : wanted[name].votes = <<>>
      /\ \A uid \in UserIds : votes[uid] = <<>>
  BY DEF NothingRequested, NothingWanted
<1>3. FiledAsWanted /\ NewAsWanted
  BY <1>1, <1>2 DEF FiledAsWanted, NewAsWanted, AsWanted, Alike
<1>4. ASSUME NEW c \in Clients
      PROVE  SentAsWanted(c) /\ ListSure(c)
  BY DEF NothingRequested, SentAsWanted, Submissions, UnderWay, ListSure, Current
<1>. QED
  BY <1>3, <1>4

LEMMA InitRequests == LossInit => QInv
<1>1. LossInit => BusInv
  BY BusInitInv DEF LossInit
<1>2. LossInit => NothingRequested /\ hasty = {}
  BY DEF LossInit, BusInit, ClientInit, Init, StoreInit, ViewInit, NothingRequested
<1>. QED
  BY <1>1, <1>2, StartRequests DEF QInv, HastySent

LEMMA LossNextRequests ==
  ASSUME BusInv, BusInv', QInv, [LossNext]_lossVars
  PROVE  QInv'
<1>. DEFINE Rest == FiledAsWanted' /\ NewAsWanted' /\ \A d \in Clients : SentAsWanted(d)' /\ ListSure(d)'
<1>0. IInv /\ \A d \in Clients : d \in Sessions
  BY ClientAssumption DEF BusInv, CInv
<1>1. CASE UNCHANGED lossVars
  <2>1. UNCHANGED <<wanted, unsure, hasty, users, votes, sessionUserId, toServer, toClient, session,
                    dashboards, view>>
    BY <1>1 DEF lossVars, recordVars, busVars, logicVars, store, clientVars, network, viewVars
  <2>2. ASSUME NEW d \in Clients
        PROVE  /\ Submissions(d)' = Submissions(d) /\ (Submitting(d)' <=> Submitting(d))
               /\ HastySent(d)' /\ ListSure(d)'
    <3>1. Submissions(d)' = Submissions(d)
      BY <2>1 DEF Submissions, UnderWay
    <3>2. Submitting(d)' <=> Submitting(d)
      BY <2>1, <3>1 DEF Submitting
    <3>3. HastySent(d)'
      BY <2>1, <3>1 DEF QInv, HastySent
    <3>4. Owners(d)' = Owners(d)
      BY <2>1 DEF Owners, FindUserById
    <3>5. (Current(d, "user")' <=> Current(d, "user")) /\ (VotesUpToDate(d)' <=> VotesUpToDate(d))
      BY <2>1 DEF Current, VotesUpToDate, VotesList, VotesShown
    <3>6. ListSure(d)'
      BY <2>1, <3>4, <3>5 DEF QInv, ListSure
    <3>. QED
      BY <3>1, <3>2, <3>3, <3>6
  <2>3. ASSUME NEW d \in Clients
        PROVE  SentAsWanted(d)'
    BY <2>1, <2>2 DEF QInv, SentAsWanted, AsWanted
  <2>4. FiledAsWanted' /\ NewAsWanted'
    BY <2>1, <2>2 DEF QInv, FiledAsWanted, NewAsWanted, AsWanted
  <2>. QED
    BY <2>2, <2>3, <2>4 DEF QInv
<1>2. ASSUME ServerStops
      PROVE  Rest
  <2>1. NothingRequested'
    BY <1>2 DEF ServerStops, Reconstructed, NothingRequested
  <2>2. (BusInv /\ NothingRequested =>
           FiledAsWanted /\ NewAsWanted /\ \A c \in Clients : SentAsWanted(c) /\ ListSure(c))'
    BY StartRequests, PTL
  <2>. QED
    BY <2>1, <2>2
<1>3. ASSUME RecordRequests, ~Restarts, NEW c \in Clients,
             Connection(c) \/ Served(c) \/ Received(c) \/ Clicked(c) \/ ConnectionLost(c)
      PROVE  Rest
  <2>1. \A d \in Clients : d # c => Same(d)
    BY <1>3, Elsewhere
  <2>2. /\ FiledAsWanted' /\ NewAsWanted' /\ (\A d \in Clients : SentAsWanted(d)')
        /\ users \subseteq users'
        /\ UNCHANGED votes \/ \E s \in Sessions, req \in ClientRequest \cup Requests :
                                s = c /\ WellFormed(req) /\ HandleMessage(s, req)
    <3>1. CASE Connection(c) \/ Received(c) \/ ConnectionLost(c)
      BY <1>3, <3>1, LinkRequests
    <3>2. CASE Served(c)
      <4>. DEFINE req == Head(toServer[c])
      <4>1. /\ c \in Sessions /\ toServer[c] # <<>> /\ req \in ClientRequest /\ WellFormed(req)
            /\ HandleMessage(c, req) /\ toServer'[c] = Tail(toServer[c]) /\ UNCHANGED <<wanted, clicks>>
        <5>1. Serve(c) /\ CInv /\ UNCHANGED wanted
          BY <3>2 DEF Served, BusInv, dashboardVars, viewVars
        <5>2. toServer'[c] = Tail(toServer[c])
          BY <5>1, Serving DEF CInv, ClientTypes
        <5>. QED
          BY <5>1, <5>2, Serving
      <4>2. FiledAsWanted' /\ NewAsWanted' /\ \A d \in Clients : SentAsWanted(d)'
        <5>. HIDE DEF req
        <5>1. c \in Clients => /\ toServer[c] # <<>> /\ req = Head(toServer[c])
                               /\ toServer'[c] = Tail(toServer[c])
          BY <4>1 DEF req
        <5>. QED
          BY <1>3, <2>1, <4>1, <5>1, HandledRequests
      <4>3. users \subseteq users'
        BY <1>0, <4>1, UsersStay
      <4>. QED
        BY <4>1, <4>2, <4>3
    <3>3. CASE Clicked(c)
      BY <1>3, <3>3, ClickedRequests
    <3>. QED
      BY <1>3, <3>1, <3>2, <3>3
  <2>3. ASSUME NEW d \in Clients
        PROVE  ListSure(d)'
    <3>1. CASE d = c
      BY <1>3, <2>2, <3>1, ListAtClient
    <3>2. CASE d # c
      <4>1. UNCHANGED votes \/ \E s \in Sessions, req \in ClientRequest \cup Requests :
                                 s # d /\ WellFormed(req) /\ HandleMessage(s, req)
        BY <2>2, <3>2
      <4>. QED
        BY <1>3, <2>1, <2>2, <3>2, <4>1, ListElsewhere
    <3>. QED
      BY <3>1, <3>2
  <2>. QED
    BY <2>2, <2>3
<1>4. ASSUME RecordRequests, ~Restarts, ServerStarts
      PROVE  Rest
  <2>1. \A d \in Clients : Same(d)
    BY <1>4, Nowhere
  <2>2. UNCHANGED <<wanted, users, votes>> /\ unsure \subseteq unsure'
    BY <1>4, RequestsRecorded DEF ServerStarts, logicVars, store, dashboardVars, viewVars
  <2>3. \A d \in Clients : SentAsWanted(d)'
    BY <1>4, <2>1, <2>2, SubmittingStill, SentStill DEF Same
  <2>4. FiledAsWanted'
    <3>. SUFFICES ASSUME NEW u \in users, u.username \notin unsure',
                         \A d \in Clients : sessionUserId'[d] = u.id => ~Submitting(d)'
                  PROVE  AsWanted(votes[u.id], u.username)'
      BY <2>2 DEF FiledAsWanted, AsWanted
    <3>1. \A d \in Clients : sessionUserId[d] = u.id => ~Submitting(d)
      BY <1>4, <2>1, SubmittingStill DEF Same
    <3>. QED
      BY <1>4, <2>2, <3>1, FiledStill
  <2>5. NewAsWanted'
    BY <2>2 DEF QInv, NewAsWanted
  <2>6. \A d \in Clients : ListSure(d)'
    BY <1>4, <2>1, <2>2, ListElsewhere
  <2>. QED
    BY <2>3, <2>4, <2>5, <2>6
<1>5. ASSUME RecordRequests, ~Restarts, OthersAct /\ UNCHANGED <<dashboardVars, faults>>
      PROVE  Rest
  <2>1. \A d \in Clients : Same(d)
    BY <1>5, Nowhere
  <2>2. PICK s \in Sessions \ Clients, req \in Requests : HandleMessage(s, req)
    BY <1>5 DEF OthersAct
  <2>3. WellFormed(req) /\ UNCHANGED <<wanted, clicks>>
    BY <1>5, RequestAssumption DEF OthersAct, clientVars, dashboardVars, viewVars
  <2>4. users \subseteq users'
    BY <1>0, <2>2, <2>3, UsersStay
  <2>5. FiledAsWanted' /\ NewAsWanted' /\ \A d \in Clients : SentAsWanted(d)'
    BY <1>5, <2>1, <2>2, <2>3, HandledRequests
  <2>6. ASSUME NEW d \in Clients
        PROVE  ListSure(d)'
    <3>1. \E r \in Sessions, q \in ClientRequest \cup Requests :
            r # d /\ WellFormed(q) /\ HandleMessage(r, q)
      BY <2>2, <2>3
    <3>. QED
      BY <1>5, <2>1, <2>4, <3>1, ListElsewhere
  <2>. QED
    BY <2>5, <2>6
<1>6. ASSUME LossNext, ~ServerStops
      PROVE  Rest
  <2>1. RecordRequests /\ BusNext
    BY <1>6 DEF LossNext
  <2>2. ~Restarts
    <3>1. \A c \in Clients : Connection(c) \/ Served(c) \/ Received(c) \/ Clicked(c) \/ ConnectionLost(c)
            => UNCHANGED serverUp
      BY WindowClicking, RiderClicking, OfficeClicking, Serving, Reading
      DEF Connection, OnConnected, OnConnectionRefused, OnDisconnected, Served, Received, Clicked, Click,
        ConnectionLost, clientVars, network, BusInv
    <3>. QED
      BY <1>6, <2>1, <3>1 DEF BusNext, Restarts, ServerStarts, OthersAct, clientVars, network
  <2>. HIDE DEF Rest
  <2>. QED
    BY <1>3, <1>4, <1>5, <1>6, <2>1, <2>2 DEF BusNext
<1>. QED
  <2>1. CASE LossNext
    <3>1. RecordRequests
      BY <2>1 DEF LossNext
    <3>2. \A d \in Clients : HastySent(d)'
      BY <3>1, HastyRecorded
    <3>3. FiledAsWanted' /\ NewAsWanted' /\ \A d \in Clients : SentAsWanted(d)' /\ ListSure(d)'
      BY <1>2, <1>6, <2>1
    <3>. QED
      BY <3>2, <3>3 DEF QInv
  <2>. QED
    BY <1>1, <2>1

LEMMA RequestsFiled == BusInv /\ QInv => RequestsSure
<1>. SUFFICES ASSUME BusInv, QInv, NEW u \in users, u.username \notin unsure,
                     \A c \in Clients : sessionUserId[c] = u.id => UnderWay(c, "SET_VOTES") = {},
                     NEW rid \in RouteIds, NEW slot \in Slots
              PROVE  HowOften(votes[u.id], [routeId |-> rid, slot |-> slot])
                       = HowOften(wanted[u.username].votes, [routeId |-> rid, slot |-> slot])
  BY DEF RequestsSure, HowOften, Places
<1>1. \A c \in Clients : sessionUserId[c] = u.id => ~Submitting(c)
  BY DEF Submitting, Submissions
<1>2. Alike(votes[u.id], wanted[u.username].votes, RouteVote)
  BY <1>1 DEF QInv, FiledAsWanted, AsWanted
<1>3. [routeId |-> rid, slot |-> slot] \in RouteVote
  BY DEF RouteVote, RouteIds
<1>. QED
  BY <1>2, <1>3 DEF Alike

(* Without a list sent before all was answered, lost with the connection   *)
(* or met by another session of the account, the requests on file are the  *)
(* ones a rider clicked together, although every click replaces the whole  *)
(* list by a copy kept at the dashboard (onAddRequest and onDeleteRequest  *)
(* of UserDashboard.cpp): for any clients, over restarts of the server.    *)
THEOREM RequestsAlwaysSure == LossSpec => []RequestsSure
<1>1. LossInit => BusInv /\ QInv
  BY BusInitInv, InitRequests DEF LossInit
<1>2. BusInv /\ QInv /\ [LossNext]_lossVars => (BusInv /\ QInv)'
  BY LossIsBus, BusNextInv, LossNextRequests
<1>. QED
  BY <1>1, <1>2, RequestsFiled, PTL DEF LossSpec
----------------------------------------------------------------------------
(* The schedules on file are the ones edited *)

(* Without an update a route on file is as it was, or it is new.           *)
LEMMA SchedulesStay ==
  ASSUME IInv, NEW s \in Sessions, NEW req, WellFormed(req), HandleMessage(s, req),
         req.type # "UPDATE_SCHEDULE"
  PROVE  \A r \in routes' : r \in routes \/ r.id = nextRouteId
<1>1. CASE HandleAddRoute(s, req)
  <2>1. CASE UNCHANGED routes
    BY <2>1
  <2>2. CASE AddRoute(Value(req, "name", EmptyText), Value(req, "schedule", EmptyText))
    BY <2>2 DEF AddRoute, NewRoute
  <2>. QED
    BY <1>1, <2>1, <2>2 DEF HandleAddRoute, Refuse, Answer, store
<1>2. CASE HandleDelRoute(s, req)
  BY <1>2 DEF HandleDelRoute, DeleteRoute, Refuse, Answer, store
<1>3. CASE req.type \notin RouteEdits
  BY <1>3, RoutesStay
<1>4. CASE req.type \in {"ADD_ROUTE", "DEL_ROUTE"} /\ \E text : Refuse(s, text)
  BY <1>4 DEF Refuse, Answer, store
<1>. QED
  BY <1>1, <1>2, <1>3, <1>4
  DEF RouteEdits, HandleMessage, HandlePublic, HandleRegister, HandleLogin, HandleGetRoutes,
    HandleAuthenticated, HandleUpdateSchedule, HandleGetUsers, HandleGetUserDetail,
    HandleGetDemand, HandleSubscribe, HandleUnsubscribe, HandleGetSubs, HandleRide,
    HandleGetTickets, HandleSetVotes, HandleGetVotes, Known

LEMMA ScheduleSet ==
  ASSUME IInv, NEW s \in Sessions, NEW req, HandleMessage(s, req), IsAdmin(s),
         req.type = "UPDATE_SCHEDULE", req.routeId \in Nat, req.schedule \in Seq(Trip),
         {"routeId", "schedule"} \subseteq DOMAIN req
  PROVE  \A q \in routes' : \/ q \in routes /\ q.id # req.routeId
                            \/ q.id = req.routeId /\ q.schedule = req.schedule
<1>1. sessionUserId[s] # 0
  BY DEF IsAdmin, FindUserById, IInv, TypeOK, StoreTypeOK, User, UserIds
<1>2. HandleUpdateSchedule(s, req)
  BY <1>1 DEF HandleMessage, HandlePublic, HandleRegister, HandleLogin, HandleGetRoutes,
    HandleAuthenticated, HandleAddRoute, HandleDelRoute, HandleGetUsers,
    HandleGetUserDetail, HandleGetDemand, HandleSubscribe, HandleUnsubscribe, HandleGetSubs,
    HandleRide, HandleGetTickets, HandleSetVotes, HandleGetVotes, Known, Public
<1>3. UpdateRouteSchedule(req.routeId, req.schedule)
  BY <1>2 DEF HandleUpdateSchedule, Value
<1>4. ASSUME NEW r \in routes
      PROVE  r.id # req.routeId \/ LET q == [r EXCEPT !.schedule = req.schedule]
                                   IN  q.id = r.id /\ q.schedule = req.schedule
  BY DEF IInv, TypeOK, StoreTypeOK, Route
<1>. QED
  BY <1>3, <1>4 DEF UpdateRouteSchedule

(* An edit of the route is under way.                                      *)
Edits(c, rid) ==
  \E i \in DOMAIN toServer[c] :
    toServer[c][i].type = "UPDATE_SCHEDULE" /\ toServer[c][i].routeId = rid

Watched == DOMAIN wished \ unsureRoutes

AsWished(trips, rid) == Alike(trips, wished[rid], Trip)

FiledAsWished ==
  \A r \in routes :
    r.id \in Watched /\ (\A c \in Clients : ~Edits(c, r.id)) => AsWished(Parsed(r.schedule), r.id)

(* An edit is sent when all is answered, so that it is the next request    *)
(* handled, and handled for an administrator.                              *)
SentAsWished(c) ==
  \A i \in DOMAIN toServer[c] : LET req == toServer[c][i] IN
    req.type = "UPDATE_SCHEDULE" /\ req.routeId \in Watched =>
      i = 1 /\ IsAdmin(c) /\ AsWished(req.schedule, req.routeId)

PanelSure(c) == Current(c, "admin") => PanelUpToDate(c) \/ RouteIds \subseteq unsureRoutes

WInv ==
  /\ wished \in [DOMAIN SeedRoutes -> Seq(Trip)] /\ DOMAIN SeedRoutes \subseteq RoutesOpened
  /\ FiledAsWished
  /\ \A c \in Clients : SentAsWished(c) /\ PanelSure(c)

(* What the record says.                                                   *)
LEMMA Recorded ==
  ASSUME RecordSchedules, ~Restarts
  PROVE  /\ unsureRoutes \subseteq unsureRoutes'
         /\ \A c \in Clients :
              /\ Edit(c) /\ (~Informed(c, "admin") \/ AnotherAdministrator(c)) =>
                   panel[c].box \in unsureRoutes'
              /\ Loses(c) => \A rid : Edits(c, rid) => rid \in unsureRoutes'
         /\ \A s \in Sessions : RoutesChanged(s) /\ (s \notin Clients \/ AnotherAdministrator(s)) =>
              RouteIds \subseteq unsureRoutes'
<1>1. unsureRoutes' = unsureRoutes \cup RoutesEdited \cup RoutesLost \cup RoutesReplaced
  BY DEF RecordSchedules
<1>2. ASSUME NEW c \in Clients, Edit(c), ~Informed(c, "admin") \/ AnotherAdministrator(c)
      PROVE  panel[c].box \in RoutesEdited
  BY <1>2 DEF RoutesEdited
<1>3. ASSUME NEW c \in Clients, Loses(c), NEW rid, Edits(c, rid)
      PROVE  rid \in RoutesLost
  BY <1>3 DEF RoutesLost, Edits, UnderWay
<1>4. ASSUME NEW s \in Sessions, RoutesChanged(s), s \notin Clients \/ AnotherAdministrator(s)
      PROVE  RouteIds \subseteq RoutesReplaced
  BY <1>4 DEF RoutesReplaced
<1>. QED
  BY <1>1, <1>2, <1>3, <1>4

(* Two administrators at least: whatever is changed is unsure.             *)
LEMMA NothingWatched ==
  ASSUME BusInv, WInv, RouteIds \subseteq unsureRoutes', UNCHANGED wished
  PROVE  FiledAsWished' /\ \A c \in Clients : SentAsWished(c)'
<1>1. DOMAIN wished \subseteq RouteIds
  BY DataStoreAssumption DEF WInv, RouteIds
<1>2. Watched' = {}
  BY <1>1 DEF Watched
<1>. QED
  BY <1>2 DEF FiledAsWished, SentAsWished

(* Whoever's request is handled, the others stay administrators.           *)
LEMMA AdminsStay ==
  ASSUME IInv, NEW s \in Sessions, NEW req, WellFormed(req), HandleMessage(s, req),
         NEW d \in Sessions, d # s, IsAdmin(d)
  PROVE  IsAdmin(d)'
<1>1. users \subseteq users'
  BY UsersStay
<1>2. sessionUserId'[d] = sessionUserId[d]
  BY Answers DEF Answered, IInv, TypeOK
<1>. QED
  BY <1>1, <1>2 DEF IsAdmin, FindUserById

(* A route on file is as it was, with no edit handled, or it is as wished. *)
LEMMA WishesStay ==
  ASSUME WInv, Watched' \subseteq Watched, \A rid \in Watched' : wished'[rid] = wished[rid],
         NEW c \in Clients,
         \A r \in routes' : r.id \in Watched' =>
            \/ AsWished(Parsed(r.schedule), r.id)'
            \/ r \in routes /\ (Edits(c, r.id) => Edits(c, r.id)'),
         \A d \in Clients : d # c => Same(d) /\ (IsAdmin(d) => IsAdmin(d)'),
         SentAsWished(c)'
  PROVE  FiledAsWished' /\ \A d \in Clients : SentAsWished(d)'
<1>2. ASSUME NEW d \in Clients, d # c
      PROVE  SentAsWished(d)' /\ \A rid : Edits(d, rid)' <=> Edits(d, rid)
  <2>1. toServer'[d] = toServer[d] /\ (IsAdmin(d) => IsAdmin(d)') /\ SentAsWished(d)
    BY <1>2 DEF Same, WInv
  <2>. QED
    BY <2>1 DEF SentAsWished, AsWished, Edits
<1>3. ASSUME NEW r \in routes', r.id \in Watched', \A d \in Clients : ~Edits(d, r.id)'
      PROVE  AsWished(Parsed(r.schedule), r.id)'
  <2>1. CASE AsWished(Parsed(r.schedule), r.id)'
    BY <2>1
  <2>2. CASE r \in routes /\ (Edits(c, r.id) => Edits(c, r.id)')
    <3>1. r.id \in Watched /\ \A d \in Clients : ~Edits(d, r.id)
      BY <1>2, <1>3, <2>2
    <3>. QED
      BY <1>3, <2>2, <3>1 DEF WInv, FiledAsWished, AsWished
  <2>. QED
    BY <1>3, <2>1, <2>2
<1>. QED
  BY <1>2, <1>3 DEF FiledAsWished

(* When a server has been started: nothing is under way to it.             *)
NewlyStarted ==
  /\ wished = NothingWished
  /\ routes = {NewRoute(i, SeedRoutes[i], EmptyText) : i \in DOMAIN SeedRoutes}
  /\ nextRouteId = Len(SeedRoutes) + 1
  /\ \A c \in Clients : toServer[c] = <<>> /\ ~session[c]

LEMMA StartWishes == NewlyStarted => WInv
<1>. SUFFICES ASSUME NewlyStarted PROVE WInv
  OBVIOUS
<1>. USE DEF NewlyStarted
<1>1. ASSUME NEW i \in DOMAIN SeedRoutes
      PROVE  LET default == GenerateDefaultSchedule(SeedRoutes[i])
                 r == NewRoute(i, SeedRoutes[i], EmptyText)
             IN  default \in Seq(Trip) /\ r.id = i /\ Parsed(r.schedule) = default
  <2>1. SeedRoutes[i] \in RouteNames
    BY DataStoreAssumption
  <2>2. GenerateDefaultSchedule(SeedRoutes[i]) \in Seq(Trip)
    BY <2>1, DataStoreAssumption DEF GenerateDefaultSchedule, Trip
  <2>3. GenerateDefaultSchedule(SeedRoutes[i]) # EmptyText
    BY <2>2, OfficeAssumption
  <2>. QED
    BY <2>2, <2>3 DEF NewRoute, Parsed
<1>2. wished \in [DOMAIN SeedRoutes -> Seq(Trip)]
  BY <1>1 DEF NothingWished
<1>3. DOMAIN SeedRoutes \subseteq RoutesOpened
  BY DataStoreAssumption DEF RoutesOpened
<1>4. FiledAsWished
  <2>1. ASSUME NEW r \in routes PROVE Parsed(r.schedule) = wished[r.id]
    <3>1. PICK i \in DOMAIN SeedRoutes : r = NewRoute(i, SeedRoutes[i], EmptyText)
      OBVIOUS
    <3>. QED
      BY <1>1, <3>1 DEF NothingWished
  <2>. QED
    BY <2>1 DEF FiledAsWished, AsWished, Alike
<1>5. \A c \in Clients : SentAsWished(c) /\ PanelSure(c)
  BY DEF SentAsWished, PanelSure, Current
<1>. QED
  BY <1>2, <1>3, <1>4, <1>5 DEF WInv

LEMMA StopWishes == ServerStops => WInv'
<1>1. (NewlyStarted => WInv)'
  BY StartWishes, PTL
<1>2. ServerStops => NewlyStarted'
  BY DEF ServerStops, Reconstructed, NewlyStarted
<1>. QED
  BY <1>1, <1>2

LEMMA InitWishes == LossInit => WInv
BY StartWishes DEF NewlyStarted, LossInit, BusInit, ClientInit, Init, StoreInit, PanelInit

(* The schedule edited is the one of the route selected.                   *)
LEMMA Scheduled ==
  ASSUME PInv, NEW c \in Clients, NEW trips \in Seq(Trip), SendSchedule(c, trips),
         panel[c].box \in DOMAIN panel[c].routesData
  PROVE  /\ panel'[c].box = panel[c].box /\ panel'[c].trips = panel[c].trips
         /\ panel'[c].routesData[panel[c].box] = trips
         /\ panel[c].routesData[panel[c].box] \in Seq(Trip) /\ panel[c].box \in RouteIds
<1>1. panel[c] \in Panel /\ c \in DOMAIN panel
  BY DEF PInv
<1>2. PICK S \in SUBSET RouteIds : panel[c].routesData \in [S -> Seq(Trip)]
  BY <1>1 DEF Panel
<1>3. panel' = [panel EXCEPT ![c] = [panel[c] EXCEPT !.routesData[panel[c].box] = trips]]
  BY DEF SendSchedule, Display
<1>4. panel'[c] = [panel[c] EXCEPT !.routesData[panel[c].box] = trips]
  BY <1>1, <1>3
<1>5. panel'[c].routesData = [panel[c].routesData EXCEPT ![panel[c].box] = trips]
      /\ panel'[c].box = panel[c].box /\ panel'[c].trips = panel[c].trips
  BY <1>1, <1>4 DEF Panel
<1>. QED
  BY <1>2, <1>5

(* What a click does to the wishes: none of the routes but the one         *)
(* selected is edited, and its edit counts as one.                         *)
LEMMA OfficeEditing ==
  ASSUME BusInv, NEW c \in Clients, OfficeClicks(c),
         \A rid \in DOMAIN wished : wished[rid] \in Seq(Trip)
  PROVE  \/ /\ UNCHANGED wished
            /\ \/ UNCHANGED toServer
               \/ \E req \in ClientRequest : SendRequests(c, <<req>>) /\ req.type # "UPDATE_SCHEDULE"
         \/ /\ Edit(c) /\ panel[c].box \in RouteIds
            /\ \E all \in Seq(Trip) : Wish(panel[c].box, all)
            /\ \/ UNCHANGED toServer
               \/ \E req \in ClientRequest :
                    /\ SendRequests(c, <<req>>)
                    /\ req.type = "UPDATE_SCHEDULE" /\ req.routeId = panel[c].box
<1>. USE DEF BusInv
<1>. DEFINE box == panel[c].box
            trips == panel[c].routesData[box]
<1>1. /\ panel[c] \in Panel /\ Selected(panel[c]) /\ Wished(box) \in Seq(Trip)
      /\ box \in DOMAIN panel[c].routesData => trips \in Seq(Trip) /\ box \in RouteIds
  <2>1. panel[c] \in Panel /\ Selected(panel[c])
    BY DEF PInv
  <2>. QED
    BY <2>1 DEF Panel, Wished
<1>2. OfficeClick(c) => Clicks(c)
  <2>1. clicks[c] \in Nat /\ c \in DOMAIN clicks
    BY ClientAssumption DEF CInv, ClientTypes
  <2>2. OfficeClick(c) => clicks'[c] = clicks[c] + 1
    BY <2>1 DEF OfficeClick, Click
  <2>. QED
    BY <2>1, <2>2 DEF Clicks
<1>3. ASSUME NEW s \in Seq(Trip), SendSchedule(c, s), Clicks(c), box \in DOMAIN panel[c].routesData,
             Len(s) # Len(trips)
      PROVE  /\ Edit(c) /\ box \in RouteIds
             /\ \E req \in ClientRequest : /\ SendRequests(c, <<req>>)
                                           /\ req.type = "UPDATE_SCHEDULE" /\ req.routeId = box
  <2>1. panel'[c].routesData[box] = s /\ box \in RouteIds
    BY <1>3, Scheduled
  <2>2. Edit(c)
    BY <1>3, <2>1 DEF Edit
  <2>. DEFINE req == [type |-> "UPDATE_SCHEDULE", routeId |-> box, schedule |-> s]
  <2>3. req \in ClientRequest /\ req.type = "UPDATE_SCHEDULE" /\ req.routeId = box
    BY <2>1 DEF ClientRequest, RouteIds
  <2>4. SendRequests(c, <<req>>)
    BY <1>3 DEF SendSchedule
  <2>. HIDE DEF req
  <2>. QED
    BY <2>1, <2>2, <2>3, <2>4
<1>4. ASSUME NEW trip \in TypedTrips, OnAddTripClicked(c, trip)
      PROVE  /\ Edit(c) /\ box \in RouteIds /\ Wish(box, Append(Wished(box), trip))
             /\ Append(Wished(box), trip) \in Seq(Trip)
             /\ \E req \in ClientRequest : /\ SendRequests(c, <<req>>)
                                           /\ req.type = "UPDATE_SCHEDULE" /\ req.routeId = box
  <2>1. box \in DOMAIN panel[c].routesData /\ trip \in Trip
    BY <1>1, <1>4, OfficeAssumption DEF OnAddTripClicked, Selected
  <2>2. Append(trips, trip) \in Seq(Trip) /\ Len(Append(trips, trip)) # Len(trips)
    <3>1. trips \in Seq(Trip)
      BY <1>1, <2>1
    <3>. HIDE DEF trips
    <3>. QED
      BY <2>1, <3>1
  <2>3. SendSchedule(c, Append(trips, trip)) /\ Clicks(c)
    BY <1>2, <1>4 DEF OnAddTripClicked
  <2>4. Append(Wished(box), trip) \in Seq(Trip) /\ Wish(box, Append(Wished(box), trip))
    BY <1>1, <1>4, <2>1 DEF OnAddTripClicked
  <2>. QED
    BY <1>3, <2>1, <2>2, <2>3, <2>4
<1>5. ASSUME NEW row \in DOMAIN panel[c].trips, OnDeleteTripClicked(c, row)
      PROVE  /\ Edit(c) /\ box \in RouteIds
             /\ \E all \in Seq(Trip) : Wish(box, all)
             /\ \/ UNCHANGED toServer
                \/ \E req \in ClientRequest : /\ SendRequests(c, <<req>>)
                                              /\ req.type = "UPDATE_SCHEDULE" /\ req.routeId = box
  <2>1. box \in DOMAIN panel[c].routesData
    BY <1>1, <1>5 DEF Selected
  <2>2. \E all \in Seq(Trip) : Wish(box, all)
    BY <1>1, <1>5, RemoveFirstType DEF OnDeleteTripClicked
  <2>3. CASE row \in DOMAIN trips /\ SendSchedule(c, RemoveAt(trips, row))
    <3>1. RemoveAt(trips, row) \in Seq(Trip) /\ Len(RemoveAt(trips, row)) # Len(trips)
      <4>1. trips \in Seq(Trip)
        BY <1>1, <2>1
      <4>. HIDE DEF trips
      <4>2. RemoveAt(trips, row) \in Seq(Trip) /\ Len(RemoveAt(trips, row)) = Len(trips) - 1
        BY <2>3, <4>1, RemoveAtType
      <4>3. Len(trips) \in Nat
        BY <4>1
      <4>. QED
        BY <4>2, <4>3
    <3>2. Clicks(c)
      BY <1>2, <1>5 DEF OnDeleteTripClicked
    <3>. QED
      BY <1>3, <2>1, <2>2, <2>3, <3>1, <3>2
  <2>4. CASE screen' = [screen EXCEPT ![c] = "terminated"] /\ UNCHANGED toServer
    <3>1. ~Runs(c)'
      BY <2>4 DEF CInv, ClientTypes, Runs
    <3>2. Edit(c)
      BY <1>2, <1>5, <3>1 DEF OnDeleteTripClicked, Edit
    <3>. QED
      BY <1>1, <2>1, <2>2, <2>4, <3>2
  <2>. QED
    BY <1>5, <2>3, <2>4 DEF OnDeleteTripClicked
<1>6. CASE \/ \E name \in TypedRoutes : OnAddRouteClicked(c, name)
           \/ \E rid \in RouteIds : OnDeleteRouteClicked(c, rid) \/ OnRouteSelectionChanged(c, rid)
           \/ \E uid \in UserIds : OnUserSelected(c, uid)
  <2>1. UNCHANGED wished
    BY <1>6 DEF OnAddRouteClicked, OnDeleteRouteClicked, OnUserSelected, OnRouteSelectionChanged,
      panelVars
  <2>2. ASSUME NEW name \in TypedRoutes, OnAddRouteClicked(c, name)
        PROVE  \E req \in ClientRequest : SendRequests(c, <<req>>) /\ req.type # "UPDATE_SCHEDULE"
    <3>1. [type |-> "ADD_ROUTE", name |-> name, schedule |-> EmptyText] \in ClientRequest
      BY OfficeAssumption DEF ClientRequest, Schedule
    <3>. QED
      BY <2>2, <3>1 DEF OnAddRouteClicked
  <2>3. ASSUME NEW rid \in RouteIds, OnDeleteRouteClicked(c, rid)
        PROVE  \E req \in ClientRequest : SendRequests(c, <<req>>) /\ req.type # "UPDATE_SCHEDULE"
    <3>1. [type |-> "DEL_ROUTE", routeId |-> rid] \in ClientRequest
      BY DEF ClientRequest, RouteIds
    <3>. QED
      BY <2>3, <3>1 DEF OnDeleteRouteClicked
  <2>4. ASSUME NEW uid \in UserIds, OnUserSelected(c, uid)
        PROVE  \E req \in ClientRequest : SendRequests(c, <<req>>) /\ req.type # "UPDATE_SCHEDULE"
    <3>1. [type |-> "get_user_detail", userId |-> uid] \in ClientRequest
      BY DEF ClientRequest
    <3>. QED
      BY <2>4, <3>1 DEF OnUserSelected
  <2>5. ASSUME NEW rid \in RouteIds, OnRouteSelectionChanged(c, rid)
        PROVE  UNCHANGED toServer
    BY <2>5 DEF OnRouteSelectionChanged, clientVars
  <2>. QED
    BY <1>6, <2>1, <2>2, <2>3, <2>4, <2>5
<1>. QED
  BY <1>4, <1>5, <1>6 DEF OfficeClicks

LEMMA ServedWishes ==
  ASSUME BusInv, WInv, NEW c \in Clients, Served(c), unsureRoutes \subseteq unsureRoutes'
  PROVE  FiledAsWished' /\ (\A d \in Clients : SentAsWished(d)') /\ RoutesOpened \subseteq RoutesOpened'
<1>. DEFINE req == Head(toServer[c])
<1>1. /\ c \in Sessions /\ toServer[c] # <<>> /\ req \in ClientRequest /\ WellFormed(req)
      /\ HandleMessage(c, req) /\ IInv /\ toServer[c] \in Seq(ClientRequest)
      /\ toServer'[c] = Tail(toServer[c])
  BY Serving DEF Served, BusInv, CInv, ClientTypes
<1>2. UNCHANGED wished /\ Watched' \subseteq Watched
  BY DEF Served, dashboardVars, panelVars, Watched
<1>3. \A i \in DOMAIN toServer'[c] : i + 1 \in DOMAIN toServer[c] /\ i + 1 # 1
                                     /\ toServer'[c][i] = toServer[c][i + 1]
  <2>1. \A i \in DOMAIN Tail(toServer[c]) : i + 1 \in DOMAIN toServer[c]
                                          /\ Tail(toServer[c])[i] = toServer[c][i + 1]
    BY <1>1, TailAt
  <2>2. \A i \in DOMAIN Tail(toServer[c]) : i + 1 # 1
    BY <1>1
  <2>. QED
    BY <1>1, <2>1, <2>2
<1>4. SentAsWished(c)'
  BY <1>2, <1>3 DEF WInv, SentAsWished
<1>5. \A d \in Clients : d # c => Same(d) /\ (IsAdmin(d) => IsAdmin(d)')
  BY <1>1, Elsewhere, AdminsStay, ClientAssumption
<1>6. ASSUME NEW rid, Edits(c, rid), req.type # "UPDATE_SCHEDULE" \/ req.routeId # rid
      PROVE  Edits(c, rid)'
  <2>1. PICK i \in DOMAIN toServer[c] :
          toServer[c][i].type = "UPDATE_SCHEDULE" /\ toServer[c][i].routeId = rid
    BY <1>6 DEF Edits
  <2>2. i # 1
    BY <1>1, <1>6, <2>1
  <2>3. i - 1 \in DOMAIN Tail(toServer[c]) /\ Tail(toServer[c])[i - 1] = toServer[c][i]
    BY <1>1, <2>2, TailAt
  <2>. QED
    BY <1>1, <2>1, <2>3 DEF Edits
<1>7. \A r \in routes' : r.id \in Watched' =>
        \/ AsWished(Parsed(r.schedule), r.id)'
        \/ r \in routes /\ (Edits(c, r.id) => Edits(c, r.id)')
  <2>1. CASE req.type # "UPDATE_SCHEDULE"
    <3>1. \A r \in routes' : r \in routes \/ r.id = nextRouteId
      BY <1>1, <2>1, SchedulesStay
    <3>2. nextRouteId \notin Watched'
      <4>1. nextRouteId \in Nat
        BY <1>1 DEF IInv, TypeOK, StoreTypeOK
      <4>2. Watched' \subseteq 1 .. nextRouteId - 1
        BY <1>2 DEF Watched, WInv, RoutesOpened
      <4>. QED
        BY <4>1, <4>2
    <3>. QED
      BY <1>6, <2>1, <3>1, <3>2
  <2>2. CASE req.type = "UPDATE_SCHEDULE"
    <3>1. /\ req.routeId \in Nat /\ req.schedule \in Seq(Trip)
          /\ {"routeId", "schedule"} \subseteq DOMAIN req
      BY <1>1, <2>2 DEF ClientRequest
    <3>2. req.routeId \in Watched => IsAdmin(c) /\ AsWished(req.schedule, req.routeId)
      <4>1. 1 \in DOMAIN toServer[c] /\ toServer[c][1] = req
        BY <1>1
      <4>. QED
        BY <2>2, <4>1 DEF WInv, SentAsWished
    <3>3. CASE ~IsAdmin(c)
      <4>1. UNCHANGED routes
        BY <1>1, <2>2, <3>3, StepKinds
        DEF QuietStep, JoinStep, AddUser, FleetStep, RiderStep, store
      <4>. QED
        BY <1>2, <1>6, <3>2, <3>3, <4>1
    <3>4. CASE IsAdmin(c)
      <4>1. \A q \in routes' : \/ q \in routes /\ q.id # req.routeId
                               \/ q.id = req.routeId /\ q.schedule = req.schedule
        BY <1>1, <2>2, <3>1, <3>4, ScheduleSet
      <4>2. Parsed(req.schedule) = req.schedule
        BY <3>1, OfficeAssumption DEF Parsed
      <4>. QED
        BY <1>2, <1>6, <3>2, <4>1, <4>2 DEF AsWished
    <3>. QED
      BY <3>3, <3>4
  <2>. QED
    BY <2>1, <2>2
<1>8. FiledAsWished' /\ \A d \in Clients : SentAsWished(d)'
  BY <1>2, <1>4, <1>5, <1>7, WishesStay
<1>9. RoutesOpened \subseteq RoutesOpened'
  BY <1>1, RouteCounterGrows
<1>. QED
  BY <1>8, <1>9

(* Requests that edit nothing are sent, or nothing is, or all are lost.    *)
LEMMA NothingEdited ==
  ASSUME BusInv, WInv, NEW c \in Clients, UNCHANGED <<routes, users>>,
         Watched' \subseteq Watched, \A rid \in Watched' : wished'[rid] = wished[rid],
         \A d \in Clients : d # c => Same(d),
         \/ /\ UNCHANGED sessionUserId[c]
            /\ \/ UNCHANGED toServer[c]
               \/ \E reqs \in Seq(ClientRequest) :
                    /\ SendRequests(c, reqs)
                    /\ \A i \in DOMAIN reqs : reqs[i].type = "UPDATE_SCHEDULE" =>
                                               reqs[i].routeId \notin Watched'
         \/ toServer'[c] = <<>> /\ \A rid : Edits(c, rid) => rid \in unsureRoutes'
  PROVE  FiledAsWished' /\ \A d \in Clients : SentAsWished(d)'
<1>2. ASSUME NEW d \in Clients, UNCHANGED sessionUserId[d]
      PROVE  IsAdmin(d) => IsAdmin(d)'
  BY <1>2 DEF IsAdmin, FindUserById
<1>3. \A d \in Clients : d # c => Same(d) /\ (IsAdmin(d) => IsAdmin(d)')
  BY <1>2 DEF Same
<1>4. CASE toServer'[c] = <<>> /\ \A rid : Edits(c, rid) => rid \in unsureRoutes'
  <2>1. SentAsWished(c)'
    BY <1>4 DEF SentAsWished
  <2>2. \A r \in routes' : r.id \in Watched' => r \in routes /\ (Edits(c, r.id) => Edits(c, r.id)')
    BY <1>4 DEF Watched
  <2>. QED
    BY <1>3, <2>1, <2>2, WishesStay
<1>5. ASSUME UNCHANGED sessionUserId[c],
             NEW reqs \in Seq(ClientRequest), toServer'[c] \in {toServer[c], toServer[c] \o reqs},
             \A i \in DOMAIN reqs : reqs[i].type = "UPDATE_SCHEDULE" => reqs[i].routeId \notin Watched'
      PROVE  FiledAsWished' /\ \A d \in Clients : SentAsWished(d)'
  <2>1. toServer[c] \in Seq(ClientRequest)
    BY DEF BusInv, CInv, ClientTypes
  <2>2. \A i \in DOMAIN toServer[c] : i \in DOMAIN toServer'[c] /\ toServer'[c][i] = toServer[c][i]
    <3>1. CASE toServer'[c] = toServer[c]
      BY <3>1
    <3>2. CASE toServer'[c] = toServer[c] \o reqs
      <4>1. \A i \in DOMAIN toServer[c] : /\ i \in DOMAIN (toServer[c] \o reqs)
                                          /\ (toServer[c] \o reqs)[i] = toServer[c][i]
        BY <2>1
      <4>. QED
        BY <3>2, <4>1
    <3>. QED
      BY <1>5, <3>1, <3>2
  <2>3. ASSUME NEW i \in DOMAIN toServer'[c], toServer'[c][i].type = "UPDATE_SCHEDULE",
               toServer'[c][i].routeId \in Watched'
        PROVE  i \in DOMAIN toServer[c] /\ toServer'[c][i] = toServer[c][i]
    <3>1. CASE toServer'[c] = toServer[c]
      BY <2>3, <3>1
    <3>2. CASE toServer'[c] = toServer[c] \o reqs
      <4>1. i \in DOMAIN toServer[c] \/ (i - Len(toServer[c]) \in DOMAIN reqs
              /\ toServer'[c][i] = reqs[i - Len(toServer[c])])
        BY <2>1, <2>3, <3>2
      <4>. QED
        BY <1>5, <2>2, <2>3, <4>1
    <3>. QED
      BY <1>5, <3>1, <3>2
  <2>4. SentAsWished(c)'
    <3>. SUFFICES ASSUME NEW i \in DOMAIN toServer'[c], toServer'[c][i].type = "UPDATE_SCHEDULE",
                         toServer'[c][i].routeId \in Watched'
                  PROVE  i = 1 /\ IsAdmin(c)'
                         /\ Alike(toServer'[c][i].schedule, wished'[toServer'[c][i].routeId], Trip)
      BY DEF SentAsWished, AsWished
    <3>1. /\ i \in DOMAIN toServer[c] /\ toServer'[c][i] = toServer[c][i]
          /\ toServer[c][i].routeId \in Watched
      BY <2>3
    <3>2. i = 1 /\ IsAdmin(c) /\ Alike(toServer[c][i].schedule, wished[toServer[c][i].routeId], Trip)
      BY <3>1 DEF WInv, SentAsWished, AsWished
    <3>3. wished'[toServer'[c][i].routeId] = wished[toServer'[c][i].routeId]
      OBVIOUS
    <3>4. IsAdmin(c)'
      BY <1>2, <1>5, <3>2
    <3>. QED
      BY <3>1, <3>2, <3>3, <3>4
  <2>5. \A r \in routes' : r.id \in Watched' => r \in routes /\ (Edits(c, r.id) => Edits(c, r.id)')
    BY <2>2 DEF Edits
  <2>. QED
    BY <1>3, <2>4, <2>5, WishesStay
<1>6. <<>> \in Seq(ClientRequest) /\ DOMAIN <<>> = {}
  OBVIOUS
<1>7. ASSUME NEW reqs \in Seq(ClientRequest), SendRequests(c, reqs)
      PROVE  toServer'[c] \in {toServer[c], toServer[c] \o reqs}
  BY <1>7, Sending DEF BusInv
<1>. QED
  BY <1>4, <1>5, <1>6, <1>7

(* An edit of a route still watched starts from a panel that is up to date *)
(* and is the only one.                                                    *)
LEMMA WatchedEdit ==
  ASSUME BusInv, WInv, NEW c \in Clients, OfficeClicks(c), RecordSchedules, ~Restarts,
         Edit(c), panel[c].box \in RouteIds, panel[c].box \notin unsureRoutes'
  PROVE  /\ toServer[c] = <<>> /\ session[c] /\ IsAdmin(c) /\ ~AnotherAdministrator(c)
         /\ Filled(panel[c], routes)
<1>1. unsureRoutes \subseteq unsureRoutes' /\ Informed(c, "admin") /\ ~AnotherAdministrator(c)
  BY Recorded
<1>2. toServer[c] = <<>> /\ toClient[c] = <<>> /\ session[c] /\ Current(c, "admin")
  BY <1>1 DEF Informed, Settled, Shows, Idle, Current, Carries
<1>3. PanelUpToDate(c)
  BY <1>1, <1>2 DEF WInv, PanelSure
<1>4. Filled(panel[c], routes) \in BOOLEAN
  BY DEF Filled
<1>5. UpToDate(<<>>, <<>>, {"GET_ROUTES", "UPDATE_SCHEDULE"}, {"OK", "ROUTE_OK"},
               "ROUTES_LIST", {RoutesList}, Filled(panel[c], routes))
  BY <1>2, <1>3 DEF PanelUpToDate
<1>. QED
  BY <1>1, <1>2, <1>4, <1>5, ShownInTheEnd, CurrentOwner

LEMMA OfficeWishes ==
  ASSUME BusInv, WInv, NEW c \in Clients, OfficeClicks(c), Clicked(c), RecordSchedules, ~Restarts
  PROVE  FiledAsWished' /\ \A d \in Clients : SentAsWished(d)'
<1>. USE DEF BusInv
<1>. DEFINE p == panel[c]
            box == p.box
<1>1. /\ UNCHANGED <<logicVars, session>> /\ UNCHANGED <<routes, users, sessionUserId>>
      /\ \A d \in Clients : d # c => Same(d)
  <2>1. UNCHANGED <<logicVars, session>>
    BY OfficeClicking DEF Click, clientVars, network
  <2>2. \A d \in Clients : d # c => Same(d)
    BY Elsewhere
  <2>. QED
    BY <2>1, <2>2 DEF logicVars, store
<1>2. /\ \A rid \in DOMAIN wished : wished[rid] \in Seq(Trip)
      /\ unsureRoutes \subseteq unsureRoutes' /\ DOMAIN wished = DOMAIN SeedRoutes
  BY Recorded DEF WInv
<1>3. \A req \in ClientRequest : <<req>> \in Seq(ClientRequest) /\ DOMAIN <<req>> = {1} /\ <<req>>[1] = req
  OBVIOUS
<1>4. ASSUME \/ UNCHANGED wished
             \/ box \notin Watched' /\ \E all \in Seq(Trip) : Wish(box, all),
             \/ UNCHANGED toServer
             \/ \E req \in ClientRequest :
                  /\ SendRequests(c, <<req>>)
                  /\ req.type = "UPDATE_SCHEDULE" => req.routeId \notin Watched'
      PROVE  FiledAsWished' /\ \A d \in Clients : SentAsWished(d)'
  <2>1. DOMAIN wished' = DOMAIN wished /\ \A rid \in DOMAIN wished : rid # box => wished'[rid] = wished[rid]
    BY <1>4 DEF Wish
  <2>2. Watched' \subseteq Watched /\ \A rid \in Watched' : wished'[rid] = wished[rid]
    BY <1>2, <1>4, <2>1 DEF Watched
  <2>3. \/ UNCHANGED toServer[c]
        \/ \E reqs \in Seq(ClientRequest) :
             /\ SendRequests(c, reqs)
             /\ \A i \in DOMAIN reqs : reqs[i].type = "UPDATE_SCHEDULE" =>
                                         reqs[i].routeId \notin Watched'
    <3>1. CASE UNCHANGED toServer
      BY <3>1
    <3>2. ASSUME NEW req \in ClientRequest, SendRequests(c, <<req>>),
                 req.type = "UPDATE_SCHEDULE" => req.routeId \notin Watched'
          PROVE  \E reqs \in Seq(ClientRequest) :
                   /\ SendRequests(c, reqs)
                   /\ \A i \in DOMAIN reqs : reqs[i].type = "UPDATE_SCHEDULE" =>
                                               reqs[i].routeId \notin Watched'
      <4>. WITNESS <<req>> \in Seq(ClientRequest)
      <4>. QED
        BY <1>3, <3>2
    <3>. QED
      BY <1>4, <3>1, <3>2
  <2>. QED
    BY <1>1, <2>2, <2>3, NothingEdited
<1>5. CASE \/ ~Edit(c) \/ box \notin RouteIds \/ box \notin Watched'
  <2>. DEFINE nothing == /\ UNCHANGED wished
                         /\ \/ UNCHANGED toServer
                            \/ \E req \in ClientRequest :
                                 SendRequests(c, <<req>>) /\ req.type # "UPDATE_SCHEDULE"
  <2>1. \/ nothing
        \/ /\ box \notin Watched'
           /\ \E all \in Seq(Trip) : Wish(box, all)
           /\ \/ UNCHANGED toServer
              \/ \E req \in ClientRequest :
                   SendRequests(c, <<req>>) /\ req.type = "UPDATE_SCHEDULE" /\ req.routeId = box
    BY <1>2, <1>5, OfficeEditing
  <2>2. CASE nothing
    <3>1. UNCHANGED wished
      BY <2>2
    <3>2. \/ UNCHANGED toServer
          \/ \E req \in ClientRequest :
               SendRequests(c, <<req>>) /\ (req.type = "UPDATE_SCHEDULE" => req.routeId \notin Watched')
      BY <2>2
    <3>. QED
      BY <1>4, <3>1, <3>2
  <2>. HIDE DEF nothing
  <2>. QED
    BY <1>4, <2>1, <2>2
<1>6. CASE Edit(c) /\ box \in RouteIds /\ box \in Watched'
  <2>1. /\ toServer[c] = <<>> /\ session[c] /\ IsAdmin(c) /\ ~AnotherAdministrator(c)
        /\ Filled(p, routes)
    BY <1>6, WatchedEdit DEF Watched
  <2>2. Fits(p)
    BY <2>1 DEF Filled, Fits
  <2>3. CASE \/ UNCHANGED <<toServer, wished>>
             \/ /\ UNCHANGED wished
                /\ \E req \in ClientRequest : SendRequests(c, <<req>>) /\ req.type # "UPDATE_SCHEDULE"
    <3>1. UNCHANGED wished
      BY <2>3
    <3>2. \/ UNCHANGED toServer
          \/ \E req \in ClientRequest :
               SendRequests(c, <<req>>) /\ (req.type = "UPDATE_SCHEDULE" => req.routeId \notin Watched')
      BY <2>3
    <3>. QED
      BY <1>4, <3>1, <3>2
  <2>4. CASE /\ p.box \in DOMAIN p.routesData
             /\ \E req \in ClientRequest, all \in Seq(Trip) :
                  /\ SendRequests(c, <<req>>)
                  /\ req.type = "UPDATE_SCHEDULE" /\ req.routeId = p.box
                  /\ Wish(p.box, all)
                  /\ Alike(p.routesData[p.box], Wished(p.box), Trip) => Alike(req.schedule, all, Trip)
    <3>1. PICK req \in ClientRequest, all \in Seq(Trip) :
            /\ SendRequests(c, <<req>>)
            /\ req.type = "UPDATE_SCHEDULE" /\ req.routeId = p.box
            /\ Wish(p.box, all)
            /\ Alike(p.routesData[p.box], Wished(p.box), Trip) => Alike(req.schedule, all, Trip)
      BY <2>4
    <3>2. toServer'[c] = <<req>>
      <4>1. <<>> \o <<req>> = <<req>>
        OBVIOUS
      <4>. QED
        BY <1>3, <2>1, <3>1, <4>1, Sending
    <3>3. DOMAIN toServer'[c] = {1} /\ toServer'[c][1] = req
      BY <1>3, <3>2
    <3>4. /\ DOMAIN wished' = DOMAIN wished /\ box \in DOMAIN wished
          /\ \A rid \in DOMAIN wished : rid # box => wished'[rid] = wished[rid]
          /\ wished'[box] = all /\ Wished(box) = wished[box]
      BY <1>6, <3>1 DEF Wish, Wished, WInv, Watched
    <3>5. Watched' \subseteq Watched /\ box \in Watched
      BY <1>2, <1>6, <3>4 DEF Watched
    <3>6. ASSUME NEW d \in Clients, NEW i \in DOMAIN toServer[d],
                 toServer[d][i].type = "UPDATE_SCHEDULE", toServer[d][i].routeId \in Watched
          PROVE  FALSE
      <4>1. d # c
        BY <2>1, <3>6
      <4>2. IsAdmin(d)
        BY <3>6 DEF WInv, SentAsWished
      <4>. QED
        BY <2>1, <4>1, <4>2, ClientAssumption DEF AnotherAdministrator
    <3>7. \A r \in routes : r.id \in Watched => Alike(Parsed(r.schedule), wished[r.id], Trip)
      BY <3>6 DEF WInv, FiledAsWished, Edits, AsWished
    <3>8. Alike(req.schedule, all, Trip)
      <4>. DEFINE r == CHOOSE r \in routes : r.id = p.box
      <4>0. p.box \in DOMAIN p.routesData /\ p.routesData = DataOf(routes)
        BY <2>1, <2>4 DEF Filled
      <4>1. p.box \in IdsOf(routes) /\ p.routesData[p.box] = Parsed(r.schedule)
        BY <4>0 DEF DataOf
      <4>2. r \in routes /\ r.id = p.box
        BY <4>1 DEF IdsOf
      <4>. HIDE DEF r
      <4>3. Alike(Parsed(r.schedule), wished[p.box], Trip)
        BY <3>5, <3>7, <4>2
      <4>. QED
        BY <3>1, <3>4, <4>1, <4>3
    <3>9. \A rid : rid = box => Edits(c, rid)'
      BY <3>1, <3>3 DEF Edits
    <3>10. FiledAsWished'
      <4>. SUFFICES ASSUME NEW r \in routes', r.id \in Watched', ~Edits(c, r.id)'
                    PROVE  Alike(Parsed(r.schedule), wished'[r.id], Trip)
        BY DEF FiledAsWished, AsWished
      <4>1. r.id # box
        BY <3>9
      <4>2. wished'[r.id] = wished[r.id] /\ r.id \in Watched /\ r \in routes
        BY <1>1, <3>4, <3>5, <4>1 DEF Watched
      <4>. QED
        BY <3>7, <4>2
    <3>11. SentAsWished(c)'
      <4>1. IsAdmin(c)'
        BY <1>1, <2>1 DEF IsAdmin, FindUserById
      <4>. QED
        BY <3>1, <3>3, <3>4, <3>8, <4>1 DEF SentAsWished, AsWished
    <3>12. ASSUME NEW d \in Clients, d # c
           PROVE  SentAsWished(d)'
      <4>1. toServer'[d] = toServer[d]
        BY <1>1, <3>12 DEF Same
      <4>. QED
        BY <3>5, <3>6, <4>1 DEF SentAsWished
    <3>. QED
      BY <3>10, <3>11, <3>12
  <2>. QED
    BY <1>2, <2>2, <2>3, <2>4, OfficeWishing
<1>. QED
  BY <1>5, <1>6

(* Each click: it edits nothing, or the route selected.                    *)
LEMMA ClickedWishes ==
  ASSUME BusInv, WInv, NEW c \in Clients, Clicked(c), RecordSchedules, ~Restarts
  PROVE  FiledAsWished' /\ \A d \in Clients : SentAsWished(d)'
<1>. USE DEF BusInv
<1>1. CASE OfficeClicks(c)
  BY <1>1, OfficeWishes
<1>2. CASE (WindowClicks(c) /\ UNCHANGED dashboardVars) \/ (RiderClicks(c) /\ UNCHANGED panelVars)
  <2>1. UNCHANGED wished /\ unsureRoutes \subseteq unsureRoutes'
    BY <1>2, Recorded DEF dashboardVars, panelVars
  <2>2. Watched' \subseteq Watched /\ \A rid \in Watched' : wished'[rid] = wished[rid]
    BY <2>1 DEF Watched
  <2>3. UNCHANGED <<routes, users>> /\ UNCHANGED sessionUserId[c]
    BY <1>2, WindowClicking, RiderClicking DEF Click, logicVars, store
  <2>4. \A d \in Clients : d # c => Same(d)
    BY Elsewhere
  <2>5. ASSUME NEW req \in ClientRequest, req.type # "UPDATE_SCHEDULE"
        PROVE  <<req>> \in Seq(ClientRequest) /\ \A i \in DOMAIN <<req>> : <<req>>[i].type # "UPDATE_SCHEDULE"
    BY <2>5
  <2>6. \A req \in ClientRequest : req \in Logins[c] \/ req.type \in Acts => req.type # "UPDATE_SCHEDULE"
    BY ClientAssumption DEF Acts
  <2>7. \A reqs \in Seq(Question) : /\ reqs \in Seq(ClientRequest)
                                    /\ \A i \in DOMAIN reqs : reqs[i].type # "UPDATE_SCHEDULE"
    <3>1. \A q \in Question : q.type # "UPDATE_SCHEDULE"
      BY DEF Question
    <3>. QED
      BY <3>1, RefreshType
  <2>8. \/ UNCHANGED toServer
        \/ \E reqs \in Seq(ClientRequest) :
             SendRequests(c, reqs) /\ \A i \in DOMAIN reqs : reqs[i].type # "UPDATE_SCHEDULE"
    <3>. DEFINE Quiet(reqs) == SendRequests(c, reqs) /\ \A i \in DOMAIN reqs : reqs[i].type # "UPDATE_SCHEDULE"
    <3>1. ASSUME NEW req \in ClientRequest, req \in Logins[c] \/ req.type \in Acts,
                 SendRequests(c, <<req>>)
          PROVE  \E reqs \in Seq(ClientRequest) : Quiet(reqs)
      BY <2>5, <2>6, <3>1
    <3>2. ASSUME NEW reqs \in Seq(Question), SendRequests(c, reqs)
          PROVE  Quiet(reqs) /\ reqs \in Seq(ClientRequest)
      BY <2>7, <3>2
    <3>. HIDE DEF Quiet
    <3>3. UNCHANGED toServer \/ \E reqs \in Seq(ClientRequest) : Quiet(reqs)
      BY <1>2, <3>1, <3>2, WindowClicking, RiderClicking
    <3>. QED
      BY <3>3 DEF Quiet
  <2>9. \/ UNCHANGED toServer[c]
        \/ \E reqs \in Seq(ClientRequest) :
             /\ SendRequests(c, reqs)
             /\ \A i \in DOMAIN reqs : reqs[i].type = "UPDATE_SCHEDULE" =>
                                         reqs[i].routeId \notin Watched'
    BY <2>8
  <2>. QED
    BY <2>2, <2>3, <2>4, <2>9, NothingEdited
<1>. QED
  BY <1>1, <1>2 DEF Clicked

(* What is handled for a session is answered to it.                        *)
LEMMA ChangedBy ==
  ASSUME IInv, NEW s \in Sessions, NEW req, WellFormed(req), HandleMessage(s, req),
         routes' # routes
  PROVE  RoutesChanged(s)
<1>1. PICK msg : Answered(s, req, msg)
  BY Answers
<1>. QED
  BY <1>1 DEF RoutesChanged, Answered, SaysTo

(* Nothing happens at a client: its panel is as current, unless a route    *)
(* has been changed for another session while this one is an               *)
(* administrator's.                                                        *)
LEMMA SureElsewhere ==
  ASSUME BusInv, WInv, RecordSchedules, ~Restarts, NEW c \in Clients, Same(c),
         \/ UNCHANGED routes
         \/ \E s \in Sessions, req \in ClientRequest \cup Requests :
              s # c /\ WellFormed(req) /\ HandleMessage(s, req)
  PROVE  PanelSure(c)'
<1>. SUFFICES ASSUME Current(c, "admin")', ~(RouteIds \subseteq unsureRoutes')
              PROVE  PanelUpToDate(c)'
  BY DEF PanelSure
<1>1. Current(c, "admin") /\ unsureRoutes \subseteq unsureRoutes'
  BY Recorded DEF Same, Current
<1>2. PanelUpToDate(c)
  BY <1>1 DEF WInv, PanelSure
<1>3. CASE UNCHANGED routes
  BY <1>2, <1>3 DEF PanelUpToDate, Same, RoutesList
<1>4. ASSUME NEW s \in Sessions, NEW req, s # c, WellFormed(req), HandleMessage(s, req),
             routes' # routes
      PROVE  FALSE
  <2>1. RoutesChanged(s)
    BY <1>4, ChangedBy DEF BusInv, CInv
  <2>2. AnotherAdministrator(s)
    BY <1>1, <1>4, CurrentOwner, ClientAssumption DEF AnotherAdministrator
  <2>. QED
    BY <2>1, <2>2, Recorded
<1>. QED
  BY <1>3, <1>4

LEMMA SureAtClient ==
  ASSUME BusInv, WInv, RecordSchedules, ~Restarts, NEW c \in Clients,
         Connection(c) \/ Served(c) \/ Received(c) \/ Clicked(c) \/ ConnectionLost(c)
  PROVE  PanelSure(c)'
<1>. SUFFICES ASSUME Current(c, "admin")', ~(RouteIds \subseteq unsureRoutes')
              PROVE  PanelUpToDate(c)'
  BY DEF PanelSure
<1>1. Current(c, "admin") => PanelUpToDate(c)
  BY Recorded DEF WInv, PanelSure
<1>2. ~Connection(c)
  <2>1. OnConnected(c) => sessionUserId'[c] = 0
    BY ClientAssumption DEF OnConnected, Accept, BusInv, CInv, IInv, TypeOK
  <2>2. OnConnectionRefused(c) \/ OnDisconnected(c) => ~session'[c]
    BY DEF OnConnectionRefused, OnDisconnected, BusInv, CInv, Linked
  <2>. QED
    BY <2>1, <2>2 DEF Connection, Current
<1>3. ~ConnectionLost(c)
  BY DEF ConnectionLost, Current, BusInv, CInv, ClientTypes
<1>. QED
  BY <1>1, <1>2, <1>3, PanelServed, PanelRead, PanelClicked

(* Nothing happens at any client.                                          *)
LEMMA WishesUntouched ==
  ASSUME WInv, UNCHANGED <<wished, routes>>, unsureRoutes \subseteq unsureRoutes',
         \A d \in Clients : UNCHANGED toServer[d] /\ (IsAdmin(d) => IsAdmin(d)')
  PROVE  FiledAsWished' /\ \A d \in Clients : SentAsWished(d)'
<1>1. Watched' \subseteq Watched
  BY DEF Watched
<1>2. \A d \in Clients : \A rid : Edits(d, rid)' <=> Edits(d, rid)
  BY DEF Edits
<1>3. FiledAsWished'
  <2>. SUFFICES ASSUME NEW r \in routes, r.id \in Watched', \A d \in Clients : ~Edits(d, r.id)'
                PROVE  AsWished(Parsed(r.schedule), r.id)
    BY DEF FiledAsWished, AsWished
  <2>. QED
    BY <1>1, <1>2 DEF WInv, FiledAsWished
<1>4. ASSUME NEW d \in Clients
      PROVE  SentAsWished(d)'
  BY <1>1 DEF WInv, SentAsWished, AsWished
<1>. QED
  BY <1>3, <1>4

(* What the client reads, how it connects and how it loses the connection. *)
LEMMA LinkWishes ==
  ASSUME BusInv, WInv, NEW c \in Clients, RecordSchedules, ~Restarts,
         Connection(c) \/ Received(c) \/ ConnectionLost(c)
  PROVE  /\ FiledAsWished' /\ \A d \in Clients : SentAsWished(d)'
         /\ UNCHANGED <<wished, routes, nextRouteId>>
<1>. USE DEF BusInv
<1>1. UNCHANGED <<wished, routes, users, nextRouteId>>
  BY DEF Connection, OnConnected, Accept, OnConnectionRefused, OnDisconnected, Received,
    OnMessageReceived, PanelReacts, ConnectionLost, logicVars, store, dashboardVars, panelVars
<1>2. unsureRoutes \subseteq unsureRoutes' /\ \A d \in Clients : d # c => Same(d)
  BY Recorded, Elsewhere
<1>3. Watched' \subseteq Watched /\ \A rid \in Watched' : wished'[rid] = wished[rid]
  BY <1>1, <1>2 DEF Watched
<1>4. CASE Connection(c)
  <2>1. toServer[c] = <<>> /\ UNCHANGED toServer
    BY <1>4 DEF Connection, OnConnected, OnConnectionRefused, OnDisconnected, CInv, Linked
  <2>2. \A rid : ~Edits(c, rid)
    BY <2>1 DEF Edits
  <2>. QED
    BY <1>1, <1>2, <1>3, <2>1, <2>2, NothingEdited
<1>5. CASE ConnectionLost(c)
  <2>1. toServer'[c] = <<>> /\ Loses(c)
    BY <1>5 DEF ConnectionLost, Loses, CInv, ClientTypes
  <2>2. \A rid : Edits(c, rid) => rid \in unsureRoutes'
    BY <2>1, Recorded
  <2>. QED
    BY <1>1, <1>2, <1>3, <2>1, <2>2, NothingEdited
<1>6. CASE Received(c)
  <2>1. UNCHANGED sessionUserId[c]
    BY <1>6 DEF Received, OnMessageReceived, logicVars
  <2>2. \A q \in Question : q.type # "UPDATE_SCHEDULE"
    BY DEF Question
  <2>3. \/ UNCHANGED toServer
        \/ \E reqs \in Seq(Question) : SendRequests(c, reqs)
    BY <1>6, Reading DEF Received
  <2>4. \A reqs \in Seq(Question) : /\ reqs \in Seq(ClientRequest)
                                    /\ \A i \in DOMAIN reqs : reqs[i].type # "UPDATE_SCHEDULE"
    BY <2>2, RefreshType
  <2>5. \/ UNCHANGED toServer[c]
        \/ \E reqs \in Seq(ClientRequest) :
             /\ SendRequests(c, reqs)
             /\ \A i \in DOMAIN reqs : reqs[i].type = "UPDATE_SCHEDULE" =>
                                         reqs[i].routeId \notin Watched'
    BY <2>3, <2>4
  <2>. QED
    BY <1>1, <1>2, <1>3, <2>1, <2>5, NothingEdited
<1>. QED
  BY <1>1, <1>4, <1>5, <1>6

LEMMA LossNextWishes ==
  ASSUME BusInv, WInv, [LossNext]_lossVars
  PROVE  WInv'
<1>. USE DEF BusInv
<1>. DEFINE Rest == FiledAsWished' /\ \A d \in Clients : SentAsWished(d)' /\ PanelSure(d)'
            Seeded == RoutesOpened \subseteq RoutesOpened'
<1>0. IInv /\ \A d \in Clients : d \in Sessions
  BY ClientAssumption DEF CInv
<1>1. CASE UNCHANGED lossVars
  <2>1. UNCHANGED <<wished, unsureRoutes, routes, nextRouteId, users, sessionUserId, toServer,
                    toClient, session, dashboards, panel>>
    BY <1>1 DEF lossVars, recordVars, busVars, logicVars, store, clientVars, network, panelVars
  <2>2. Watched' = Watched /\ RoutesOpened' = RoutesOpened
    BY <2>1 DEF Watched, RoutesOpened
  <2>3. FiledAsWished'
    BY <2>1, <2>2 DEF WInv, FiledAsWished, AsWished, Edits
  <2>4. ASSUME NEW d \in Clients PROVE SentAsWished(d)' /\ PanelSure(d)'
    <3>1. SentAsWished(d)'
      BY <2>1, <2>2 DEF WInv, SentAsWished, AsWished, IsAdmin, FindUserById
    <3>2. Current(d, "admin")' = Current(d, "admin") /\ PanelUpToDate(d)' = PanelUpToDate(d)
      BY <2>1 DEF Current, PanelUpToDate, RoutesList
    <3>3. PanelSure(d)'
      BY <2>1, <3>2 DEF WInv, PanelSure
    <3>. QED
      BY <3>1, <3>3
  <2>. QED
    BY <2>1, <2>2, <2>3, <2>4 DEF WInv
<1>2. CASE ServerStops
  BY <1>2, StopWishes
<1>3. ASSUME RecordSchedules, ~Restarts, NEW c \in Clients,
             Connection(c) \/ Served(c) \/ Received(c) \/ Clicked(c) \/ ConnectionLost(c)
      PROVE  Rest /\ Seeded
  <2>1. \A d \in Clients : d # c => Same(d)
    BY <1>3, Elsewhere
  <2>2. FiledAsWished' /\ (\A d \in Clients : SentAsWished(d)') /\ Seeded
    <3>1. CASE Connection(c) \/ Received(c) \/ ConnectionLost(c)
      BY <1>3, <3>1, LinkWishes DEF RoutesOpened
    <3>2. CASE Served(c)
      BY <1>3, <3>2, ServedWishes, Recorded
    <3>3. CASE Clicked(c)
      <4>1. UNCHANGED nextRouteId
        BY <3>3, WindowClicking, RiderClicking, OfficeClicking
        DEF Clicked, Click, clientVars, logicVars, store
      <4>. QED
        BY <1>3, <3>3, <4>1, ClickedWishes DEF RoutesOpened
    <3>. QED
      BY <1>3, <3>1, <3>2, <3>3
  <2>3. UNCHANGED routes \/ \E s \in Sessions, req \in ClientRequest \cup Requests :
                              s = c /\ WellFormed(req) /\ HandleMessage(s, req)
    <3>1. CASE Served(c)
      BY <3>1, Serving DEF Served
    <3>2. CASE Clicked(c)
      BY <3>2, WindowClicking, RiderClicking, OfficeClicking
      DEF Clicked, Click, clientVars, logicVars, store
    <3>. QED
      BY <1>3, <3>1, <3>2, LinkWishes
  <2>4. \A d \in Clients : PanelSure(d)'
    <3>1. PanelSure(c)'
      BY <1>3, SureAtClient
    <3>2. ASSUME NEW d \in Clients, d # c PROVE PanelSure(d)'
      <4>1. UNCHANGED routes \/ \E s \in Sessions, req \in ClientRequest \cup Requests :
                                  s # d /\ WellFormed(req) /\ HandleMessage(s, req)
        BY <2>3, <3>2
      <4>. QED
        BY <1>3, <2>1, <3>2, <4>1, SureElsewhere
    <3>. QED
      BY <3>1, <3>2
  <2>. QED
    BY <2>2, <2>4
<1>4. ASSUME RecordSchedules, ~Restarts, ServerStarts
      PROVE  Rest /\ Seeded
  <2>1. \A d \in Clients : Same(d)
    BY <1>4, Nowhere
  <2>2. UNCHANGED <<wished, routes, nextRouteId, users>> /\ unsureRoutes \subseteq unsureRoutes'
    BY <1>4, Recorded DEF ServerStarts, logicVars, store, dashboardVars, panelVars
  <2>3. \A d \in Clients : UNCHANGED toServer[d] /\ (IsAdmin(d) => IsAdmin(d)')
    BY <2>1, <2>2 DEF Same, IsAdmin, FindUserById
  <2>. QED
    <3>1. FiledAsWished' /\ \A d \in Clients : SentAsWished(d)'
      BY <2>2, <2>3, WishesUntouched
    <3>2. \A d \in Clients : PanelSure(d)'
      BY <1>4, <2>1, <2>2, SureElsewhere
    <3>. QED
      BY <2>2, <3>1, <3>2 DEF RoutesOpened
<1>5. ASSUME RecordSchedules, ~Restarts, OthersAct /\ UNCHANGED <<dashboardVars, faults>>
      PROVE  Rest /\ Seeded
  <2>1. \A d \in Clients : Same(d)
    BY <1>5, Nowhere
  <2>2. PICK s \in Sessions \ Clients, req \in Requests : HandleMessage(s, req)
    BY <1>5 DEF OthersAct
  <2>3. WellFormed(req)
    BY RequestAssumption
  <2>4. UNCHANGED wished /\ Seeded /\ unsureRoutes \subseteq unsureRoutes'
    BY <1>0, <1>5, <2>2, <2>3, RouteCounterGrows, Recorded DEF dashboardVars, panelVars
  <2>5. \A d \in Clients : PanelSure(d)'
    BY <1>5, <2>1, <2>2, <2>3, SureElsewhere
  <2>6. CASE UNCHANGED routes
    <3>1. \A d \in Clients : UNCHANGED toServer[d] /\ (IsAdmin(d) => IsAdmin(d)')
      BY <1>0, <2>1, <2>2, <2>3, AdminsStay DEF Same
    <3>. QED
      <4>1. FiledAsWished' /\ \A d \in Clients : SentAsWished(d)'
        BY <2>4, <2>6, <3>1, WishesUntouched
      <4>. QED
        BY <2>4, <2>5, <4>1
  <2>7. CASE routes' # routes
    <3>1. RouteIds \subseteq unsureRoutes'
      BY <1>0, <1>5, <2>2, <2>3, <2>7, ChangedBy, Recorded
    <3>. QED
      <4>1. FiledAsWished' /\ \A d \in Clients : SentAsWished(d)'
        BY <2>4, <3>1, NothingWatched
      <4>. QED
        BY <2>4, <2>5, <4>1
  <2>. QED
    BY <2>6, <2>7
<1>6. CASE LossNext /\ ~ServerStops
  <2>1. RecordSchedules /\ BusNext
    BY <1>6 DEF LossNext
  <2>2. ~Restarts
    <3>1. \A c \in Clients : Connection(c) \/ Served(c) \/ Received(c) \/ Clicked(c) \/ ConnectionLost(c)
            => UNCHANGED serverUp
      BY WindowClicking, RiderClicking, OfficeClicking, Serving, Reading
      DEF Connection, OnConnected, OnConnectionRefused, OnDisconnected, Served, Received, Clicked, Click,
        ConnectionLost, clientVars, network
    <3>. QED
      BY <1>6, <2>1, <3>1 DEF BusNext, Restarts, ServerStarts, OthersAct, clientVars, network
  <2>3. Rest /\ Seeded
    <3>. HIDE DEF Rest, Seeded
    <3>. QED
      BY <1>3, <1>4, <1>5, <1>6, <2>1, <2>2 DEF BusNext
  <2>4. wished' \in [DOMAIN SeedRoutes -> Seq(Trip)]
    <3>1. wished \in [DOMAIN SeedRoutes -> Seq(Trip)]
      BY DEF WInv
    <3>2. UNCHANGED wished \/ \E rid \in RouteIds, all \in Seq(Trip) : Wish(rid, all)
      <4>1. ASSUME NEW c \in Clients, Clicked(c)
            PROVE  UNCHANGED wished \/ \E rid \in RouteIds, all \in Seq(Trip) : Wish(rid, all)
        BY <3>1, <4>1, OfficeEditing DEF Clicked, dashboardVars, panelVars
      <4>2. \A c \in Clients : Connection(c) \/ Served(c) \/ Received(c) \/ ConnectionLost(c)
              => UNCHANGED wished
        BY DEF Connection, Served, Received, PanelReacts, ConnectionLost, dashboardVars, panelVars
      <4>. QED
        BY <1>6, <2>1, <4>1, <4>2 DEF BusNext, ServerStarts, dashboardVars, panelVars
    <3>. QED
      BY <3>1, <3>2 DEF Wish
  <2>. QED
    BY <2>3, <2>4 DEF WInv
<1>. QED
  BY <1>1, <1>2, <1>6 DEF LossNext

LEMMA WishesFiled == WInv => SchedulesSure
<1>. SUFFICES ASSUME WInv, NEW r \in routes, r.id \in DOMAIN wished \ unsureRoutes,
                     \A c \in Clients : \A i \in UnderWay(c, "UPDATE_SCHEDULE") :
                       toServer[c][i].routeId # r.id,
                     NEW trip \in Trip
              PROVE  HowOften(Parsed(r.schedule), trip) = HowOften(wished[r.id], trip)
  BY DEF SchedulesSure, HowOften, Places
<1>1. \A c \in Clients : ~Edits(c, r.id)
  BY DEF Edits, UnderWay
<1>. QED
  BY <1>1 DEF WInv, FiledAsWished, Watched, AsWished, Alike

(* Without an edit made before all was answered, lost with the connection  *)
(* or made while there was another administrator, the schedules on file    *)
(* are the ones edited trip by trip, although every click sends a whole    *)
(* schedule kept at the panel and the trip deleted is found by its place   *)
(* in a list that is rebuilt later (onAddTrip and onDeleteTrip of          *)
(* AdminDashboard.cpp): for any clients, over restarts of the server too.  *)
THEOREM SchedulesAlwaysSure == LossSpec => []SchedulesSure
<1>1. LossInit => BusInv /\ WInv
  BY BusInitInv, InitWishes DEF LossInit
<1>2. BusInv /\ WInv /\ [LossNext]_lossVars => (BusInv /\ WInv)'
  BY LossIsBus, BusNextInv, LossNextWishes
<1>. QED
  BY <1>1, <1>2, WishesFiled, PTL DEF LossSpec
----------------------------------------------------------------------------
(* What it takes to end the application *)

(* The rows shown are rows of the map's schedule, unless a deletion has    *)
(* not reached them.                                                       *)
RowsExist(c) ==
  c \notin shortened /\ panel[c].box # 0 =>
    Len(panel[c].trips) <= Len(panel[c].routesData[panel[c].box])

DInv == \A c \in Clients : RowsExist(c) /\ (NoPanel(c) => panel[c].box = 0)

LEMMA FittingRows ==
  ASSUME NEW p \in Panel, Fits(p), Selected(p), p.box # 0
  PROVE  Len(p.trips) <= Len(p.routesData[p.box])
<1>1. p.trips = p.routesData[p.box] /\ p.trips \in Seq(Trip)
  BY DEF Fits, Panel
<1>2. Len(p.trips) \in Nat
  BY <1>1
<1>. QED
  BY <1>1, <1>2

(* What is sent to a client is longer by it, and a connection closed is no *)
(* message read.                                                           *)
LEMMA NotRead ==
  ASSUME BusInv, NEW c \in Clients, NEW type,
         \/ toClient'[c] = toClient[c]
         \/ \E msg : msg \in Reply /\ toClient'[c] = Append(toClient[c], msg)
         \/ socket'[c] # socket[c]
  PROVE  ~Reads(c, type)
<1>. SUFFICES ASSUME toClient[c] # <<>>, toClient'[c] = Tail(toClient[c]), UNCHANGED socket[c]
              PROVE  FALSE
  BY DEF Reads
<1>1. toClient[c] \in Seq(Reply)
  BY DEF BusInv, CInv, ClientTypes
<1>2. Len(Tail(toClient[c])) = Len(toClient[c]) - 1 /\ Len(toClient[c]) \in Nat
  BY <1>1, TailAt
<1>3. \A msg \in Reply : Len(Append(toClient[c], msg)) = Len(toClient[c]) + 1
  BY <1>1
<1>4. CASE toClient'[c] = toClient[c]
  <2>1. Len(toClient[c]) = Len(Tail(toClient[c]))
    BY <1>4
  <2>. QED
    BY ONLY <1>2, <2>1
<1>5. ASSUME NEW msg \in Reply, toClient'[c] = Append(toClient[c], msg)
      PROVE  FALSE
  BY <1>2, <1>3, <1>5
<1>. QED
  BY <1>4, <1>5

(* A step that leaves a panel, and reads no list for it.                   *)
LEMMA RowsStay ==
  ASSUME BusInv, DInv, NEW c \in Clients, RecordDeletions,
         UNCHANGED panel[c], UNCHANGED dashboards[c], ~Reads(c, "ROUTES_LIST")
  PROVE  RowsExist(c)' /\ (NoPanel(c) => panel[c].box = 0)'
<1>1. ~Refilled(c)
  BY DEF Refilled
<1>2. c \in shortened => c \in shortened'
  BY <1>1 DEF RecordDeletions
<1>. QED
  BY <1>2 DEF DInv, RowsExist, NoPanel

LEMMA BusInitRows == LossInit => DInv
BY DEF LossInit, BusInit, PanelInit, EmptyPanel, DInv, RowsExist

LEMMA RowsReceived ==
  ASSUME BusInv, DInv, NEW c \in Clients, Received(c), RecordDeletions
  PROVE  RowsExist(c)' /\ (NoPanel(c) => panel[c].box = 0)'
<1>. USE DEF BusInv
<1>. DEFINE msg == Head(toClient[c])
<1>1. PICK p \in Panel :
           /\ panel' = [panel EXCEPT ![c] = p] /\ Selected(p)
           /\ msg.type = "AUTH_OK" /\ msg.user.role = "admin" => Fits(p)
           /\ msg.type = "ROUTES_LIST" /\ ~NoPanel(c) => Fits(p)
           /\ msg.type \notin {"AUTH_OK", "ROUTES_LIST"} => SameTrips(p, panel[c])
  BY Paneling DEF Received
<1>2. panel'[c] = p
  BY <1>1 DEF PInv
<1>3. \/ /\ msg.type = "AUTH_OK" /\ msg.user.role \in {"user", "admin"}
         /\ dashboards'[c] = Append(dashboards[c], msg.user.role)
      \/ msg.type # "AUTH_OK" /\ UNCHANGED dashboards[c]
  BY Reading DEF Received, CInv, ClientTypes, PublicUser
<1>4. toClient[c] # <<>> /\ toClient'[c] = Tail(toClient[c]) /\ UNCHANGED socket[c]
  BY DEF Received, OnMessageReceived, CInv, ClientTypes, network
<1>5. msg.type # "ROUTES_LIST" => ~Reads(c, "ROUTES_LIST")
  BY DEF Reads
<1>6. CASE msg.type \notin {"AUTH_OK", "ROUTES_LIST"}
  <2>1. p.box = panel[c].box /\ p.trips = panel[c].trips /\ p.routesData = panel[c].routesData
    BY <1>1, <1>6 DEF SameTrips
  <2>2. ~Refilled(c)
    BY <1>2, <1>5, <1>6, <2>1 DEF Refilled
  <2>3. c \in shortened => c \in shortened'
    BY <2>2 DEF RecordDeletions
  <2>. QED
    BY <1>2, <1>3, <1>6, <2>1, <2>3 DEF DInv, RowsExist, NoPanel
<1>7. CASE (msg.type = "ROUTES_LIST" /\ NoPanel(c)) \/ (msg.type = "AUTH_OK" /\ msg.user.role = "user")
  <2>1. UNCHANGED panel[c]
    BY <1>7 DEF Received, PanelReacts, OpenPanel, OnPanelRoutes, OnPanelUsers, OnPanelDemand,
      OnMessageUserDetail
  <2>2. NoPanel(c)' => NoPanel(c)
    <3>1. dashboards[c] \in Seq({"user", "admin"})
      BY DEF CInv, ClientTypes
    <3>2. \A i \in DOMAIN dashboards[c] : i \in DOMAIN dashboards'[c] /\ dashboards'[c][i] = dashboards[c][i]
      BY <1>3, <3>1
    <3>. QED
      BY <3>2 DEF NoPanel
  <2>3. CASE msg.type = "ROUTES_LIST" /\ NoPanel(c)
    BY <2>1, <2>2, <2>3 DEF DInv, RowsExist
  <2>4. CASE msg.type = "AUTH_OK"
    <3>1. ~Refilled(c)
      BY <1>5, <2>1, <2>4 DEF Refilled
    <3>2. c \in shortened => c \in shortened'
      BY <3>1 DEF RecordDeletions
    <3>. QED
      BY <2>1, <2>2, <3>2 DEF DInv, RowsExist
  <2>. QED
    BY <1>7, <2>3, <2>4
<1>8. CASE Fits(p)
  <2>1. RowsExist(c)'
    BY <1>1, <1>2, <1>8, FittingRows DEF RowsExist
  <2>2. NoPanel(c)' => panel'[c].box = 0
    <3>1. CASE msg.type = "AUTH_OK" /\ msg.user.role = "admin"
      <4>1. ~NoPanel(c)'
        <5>1. dashboards'[c] = Append(dashboards[c], "admin") /\ dashboards[c] \in Seq({"user", "admin"})
          BY <1>3, <3>1 DEF CInv, ClientTypes
        <5>2. Len(dashboards[c]) + 1 \in DOMAIN dashboards'[c] /\ dashboards'[c][Len(dashboards[c]) + 1] = "admin"
          BY <5>1
        <5>. QED
          BY <5>2 DEF NoPanel
      <4>. QED
        BY <4>1
    <3>2. CASE msg.type = "ROUTES_LIST" /\ ~NoPanel(c)
      BY <1>3, <3>2 DEF NoPanel
    <3>. QED
      BY <1>3, <1>6, <1>7, <3>1, <3>2
  <2>. QED
    BY <2>1, <2>2
<1>. QED
  BY <1>1, <1>3, <1>6, <1>7, <1>8

LEMMA RowsClicked ==
  ASSUME BusInv, DInv, NEW c \in Clients, Clicked(c), RecordDeletions
  PROVE  /\ RowsExist(c)' /\ (NoPanel(c) => panel[c].box = 0)'
         /\ Runs(c) /\ ~Runs(c)' => c \in shortened
<1>. USE DEF BusInv
<1>1. UNCHANGED <<toClient, dashboards>>
  BY WindowClicking, RiderClicking, OfficeClicking DEF Clicked, Click, clientVars
<1>2. ~Reads(c, "ROUTES_LIST")
  BY <1>1, NotRead
<1>3. c \in DOMAIN screen /\ c \in DOMAIN panel /\ panel[c] \in Panel /\ Selected(panel[c])
  BY DEF CInv, ClientTypes, PInv
<1>4. CASE \/ WindowClicks(c) /\ UNCHANGED dashboardVars
           \/ RiderClicks(c) /\ UNCHANGED panelVars
  <2>1. UNCHANGED panel
    BY <1>4 DEF dashboardVars, panelVars
  <2>2. Runs(c) => Runs(c)'
    <3>1. \E v \in {"login", "dashboard"} : screen' = [screen EXCEPT ![c] = v] \/ UNCHANGED screen
      BY <1>4, WindowClicking, RiderClicking
    <3>. QED
      BY <1>3, <3>1 DEF Runs
  <2>. QED
    BY <1>1, <1>2, <2>1, <2>2, RowsStay
<1>5. CASE OfficeClicks(c) /\ UNCHANGED <<panel, screen>>
  BY <1>1, <1>2, <1>5, RowsStay DEF Runs
<1>6. ASSUME NEW rid \in RouteIds, OnRouteSelectionChanged(c, rid)
      PROVE  /\ RowsExist(c)' /\ (NoPanel(c) => panel[c].box = 0)'
             /\ UNCHANGED screen
  <2>1. PICK p \in Panel : panel' = [panel EXCEPT ![c] = p] /\ Selected(p) /\ Fits(p)
    <3>. DEFINE p == [panel[c] EXCEPT !.box = rid, !.trips = panel[c].routesData[rid]]
    <3>1. rid \in DOMAIN panel[c].routesData /\ panel' = [panel EXCEPT ![c] = p]
      BY <1>6 DEF OnRouteSelectionChanged, Display
    <3>2. panel[c].routesData[rid] \in Seq(Trip)
      BY <1>3, <3>1 DEF Panel
    <3>3. p \in Panel /\ p.routesData = panel[c].routesData /\ p.box = rid
          /\ p.trips = panel[c].routesData[rid]
      BY <1>3, <3>2 DEF Panel
    <3>. HIDE DEF p
    <3>4. Selected(p) /\ Fits(p)
      BY <3>1, <3>3 DEF Selected, Fits
    <3>. QED
      BY <3>1, <3>3, <3>4
  <2>2. panel'[c] = p /\ UNCHANGED screen
    BY <1>3, <1>6, <2>1 DEF OnRouteSelectionChanged, clientVars
  <2>3. ~NoPanel(c)
    <3>1. dashboards[c] \in Seq({"user", "admin"}) /\ dashboards[c] # <<>> /\ Last(dashboards[c]) = "admin"
      BY <1>6 DEF OnRouteSelectionChanged, Shows, CInv, ClientTypes
    <3>2. Len(dashboards[c]) \in DOMAIN dashboards[c]
      BY <3>1
    <3>. QED
      BY <3>1, <3>2 DEF NoPanel, Last
  <2>4. ~NoPanel(c)'
    BY <1>1, <2>3 DEF NoPanel
  <2>. QED
    BY <2>1, <2>2, <2>4, FittingRows DEF RowsExist
<1>7. OfficeClicks(c) => ~NoPanel(c) /\ ~NoPanel(c)'
  <2>1. CASE OfficeClicks(c)
    <3>1. dashboards[c] \in Seq({"user", "admin"}) /\ dashboards[c] # <<>> /\ Last(dashboards[c]) = "admin"
      BY <2>1, OfficeClicking DEF Shows, CInv, ClientTypes
    <3>2. Len(dashboards[c]) \in DOMAIN dashboards[c]
      BY <3>1
    <3>. QED
      BY <1>1, <3>1, <3>2 DEF NoPanel, Last
  <2>. QED
    BY <2>1
<1>8. ASSUME NEW trips \in Seq(Trip), SendSchedule(c, trips), UNCHANGED screen, OfficeClick(c),
             panel[c].box \in DOMAIN panel[c].routesData
      PROVE  RowsExist(c)'
  <2>. DEFINE box == panel[c].box
              old == panel[c].routesData[box]
  <2>1. /\ panel'[c].box = box /\ panel'[c].trips = panel[c].trips
        /\ panel'[c].routesData[box] = trips
    BY <1>8, Scheduled
  <2>2. old \in Seq(Trip) /\ panel[c].trips \in Seq(Trip)
    BY <1>3, <1>8 DEF Panel
  <2>3. Len(old) \in Nat /\ Len(trips) \in Nat /\ Len(panel[c].trips) \in Nat
    BY <1>8, <2>2
  <2>4. CASE Len(old) <= Len(trips)
    <3>1. ~Refilled(c)
      BY <1>2, <2>1 DEF Refilled
    <3>2. c \in shortened => c \in shortened'
      BY <3>1 DEF RecordDeletions
    <3>3. Len(panel[c].trips) <= Len(old) \/ c \in shortened \/ box = 0
      BY DEF DInv, RowsExist
    <3>. QED
      BY <2>1, <2>3, <2>4, <3>2, <3>3 DEF RowsExist
  <2>5. CASE Len(trips) < Len(old)
    <3>1. Clicks(c)
      <4>1. clicks'[c] = clicks[c] + 1 /\ clicks[c] \in Nat
        BY <1>8 DEF OfficeClick, Click, CInv, ClientTypes, ClientAssumption
      <4>. QED
        BY <4>1 DEF Clicks
    <3>2. Deletion(c)
      BY <2>1, <2>5, <3>1 DEF Deletion, Edit
    <3>. QED
      BY <2>1, <3>2 DEF RecordDeletions, RowsExist
  <2>. HIDE DEF old
  <2>. QED
    BY <2>3, <2>4, <2>5
<1>9. ASSUME NEW trip \in TypedTrips, OnAddTripClicked(c, trip)
      PROVE  RowsExist(c)' /\ UNCHANGED screen
  <2>1. panel[c].box \in DOMAIN panel[c].routesData /\ trip \in Trip
    BY <1>3, <1>9, OfficeAssumption DEF OnAddTripClicked, Selected
  <2>2. Append(panel[c].routesData[panel[c].box], trip) \in Seq(Trip)
    <3>1. panel[c].routesData[panel[c].box] \in Seq(Trip)
      BY <1>3, <2>1 DEF Panel
    <3>. QED
      BY <2>1, <3>1
  <2>3. UNCHANGED screen
    BY <1>9 DEF OnAddTripClicked
  <2>. QED
    BY <1>8, <1>9, <2>1, <2>2, <2>3 DEF OnAddTripClicked
<1>10. ASSUME NEW row \in DOMAIN panel[c].trips, OnDeleteTripClicked(c, row)
       PROVE  RowsExist(c)' /\ (Runs(c) /\ ~Runs(c)' => c \in shortened)
  <2>. DEFINE trips == panel[c].routesData[panel[c].box]
  <2>1. panel[c].box \in DOMAIN panel[c].routesData /\ panel[c].box # 0
    <3>1. panel[c].box \in DOMAIN panel[c].routesData
      BY <1>3, <1>10 DEF Selected
    <3>. QED
      BY <1>3, <3>1 DEF Panel, RouteIds
  <2>2. trips \in Seq(Trip) /\ panel[c].trips \in Seq(Trip)
    BY <1>3, <2>1 DEF Panel
  <2>3. CASE row \in DOMAIN trips /\ SendSchedule(c, RemoveAt(trips, row)) /\ UNCHANGED screen
    <3>1. RemoveAt(trips, row) \in Seq(Trip)
      BY <2>2, <2>3, RemoveAtType
    <3>2. OfficeClick(c)
      BY <1>10 DEF OnDeleteTripClicked
    <3>3. RowsExist(c)'
      BY <1>8, <2>1, <2>3, <3>1, <3>2
    <3>. QED
      BY <2>3, <3>3 DEF Runs
  <2>4. CASE row \notin DOMAIN trips /\ UNCHANGED panel
    <3>1. row \in 1..Len(panel[c].trips) /\ row \notin 1..Len(trips)
      BY <1>10, <2>2, <2>4
    <3>2. ~(Len(panel[c].trips) <= Len(trips))
      <4>1. Len(panel[c].trips) \in Nat /\ Len(trips) \in Nat
        BY <2>2
      <4>. HIDE DEF trips
      <4>. QED
        BY <3>1, <4>1
    <3>3. c \in shortened
      BY <2>1, <3>2 DEF DInv, RowsExist
    <3>4. RowsExist(c)'
      BY <1>1, <1>2, <2>4, RowsStay
    <3>. QED
      BY <3>3, <3>4
  <2>. QED
    BY <1>10, <2>3, <2>4 DEF OnDeleteTripClicked
<1>11. CASE OfficeClicks(c)
  <2>1. CASE \/ \E trip \in TypedTrips : OnAddTripClicked(c, trip)
             \/ \E row \in DOMAIN panel[c].trips : OnDeleteTripClicked(c, row)
    BY <1>7, <1>9, <1>10, <1>11, <2>1 DEF Runs
  <2>2. CASE \E rid \in RouteIds : OnRouteSelectionChanged(c, rid)
    BY <1>6, <2>2 DEF Runs
  <2>3. CASE UNCHANGED <<panel, screen>>
    BY <1>5, <1>11, <2>3
  <2>. QED
    BY <1>11, <2>1, <2>2, <2>3
    DEF OfficeClicks, OnAddRouteClicked, OnDeleteRouteClicked, OnUserSelected, panelVars
<1>. QED
  BY <1>4, <1>11 DEF Clicked

LEMMA LossNextRows ==
  ASSUME BusInv, DInv, [LossNext]_lossVars
  PROVE  DInv' /\ \A c \in Clients : Runs(c) /\ ~Runs(c)' => c \in shortened
<1>. DEFINE Good(c) == /\ RowsExist(c)' /\ (NoPanel(c) => panel[c].box = 0)'
                       /\ Runs(c) /\ ~Runs(c)' => c \in shortened
<1>1. ASSUME NEW c \in Clients, RecordDeletions, UNCHANGED panel[c], UNCHANGED dashboards[c],
             UNCHANGED screen[c], ~Reads(c, "ROUTES_LIST")
      PROVE  Good(c)
  BY <1>1, RowsStay DEF Runs
<1>2. ASSUME NEW c \in Clients, RecordDeletions, Same(c)
      PROVE  Good(c)
  <2>1. ~Reads(c, "ROUTES_LIST")
    BY <1>2, NotRead DEF Same
  <2>. QED
    BY <1>1, <1>2, <2>1 DEF Same
<1>3. CASE UNCHANGED lossVars
  BY <1>3 DEF lossVars, recordVars, busVars, clientVars, panelVars, DInv, RowsExist, NoPanel, Runs
<1>4. ASSUME RecordDeletions, NEW c \in Clients,
             Connection(c) \/ Served(c) \/ Received(c) \/ Clicked(c) \/ ConnectionLost(c)
      PROVE  Good(c)
  <2>1. CASE Connection(c)
    <3>1. UNCHANGED <<panel, dashboards, screen>>
      BY <2>1 DEF Connection, OnConnected, OnConnectionRefused, OnDisconnected, dashboardVars, panelVars
    <3>2. socket'[c] # socket[c]
      BY <2>1 DEF Connection, OnConnected, OnConnectionRefused, OnDisconnected, BusInv, CInv, ClientTypes
    <3>. QED
      BY <1>1, <1>4, <3>1, <3>2, NotRead
  <2>2. CASE Served(c)
    <3>1. UNCHANGED <<panel, dashboards, screen>>
      BY <2>2 DEF Served, Serve, dashboardVars, panelVars
    <3>2. \E msg : msg \in Reply /\ toClient'[c] = Append(toClient[c], msg)
      <4>1. PICK msg : /\ Answered(c, Head(toServer[c]), msg)
                       /\ toClient' = [toClient EXCEPT ![c] = Append(@, msg)]
        BY <2>2, Serving DEF Served, BusInv
      <4>. QED
        BY <4>1 DEF Answered, BusInv, CInv, ClientTypes
    <3>. QED
      BY <1>1, <1>4, <3>1, <3>2, NotRead
  <2>3. CASE Received(c)
    <3>1. Runs(c)'
      BY <2>3, Reading DEF Received, BusInv, CInv, ClientTypes, Runs, OnMessageReceived
    <3>. QED
      BY <1>4, <2>3, <3>1, RowsReceived
  <2>4. CASE Clicked(c)
    BY <1>4, <2>4, RowsClicked
  <2>5. CASE ConnectionLost(c)
    BY <1>1, <1>4, <2>5, NotRead DEF ConnectionLost, dashboardVars, panelVars
  <2>. QED
    BY <1>4, <2>1, <2>2, <2>3, <2>4, <2>5
<1>5. ASSUME RecordDeletions, ServerStops, NEW c \in Clients
      PROVE  Good(c)
  BY <1>1, <1>5, NotRead DEF ServerStops
<1>6. ASSUME LossNext, NEW c \in Clients
      PROVE  Good(c)
  <2>1. RecordDeletions /\ BusNext
    BY <1>6 DEF LossNext
  <2>2. ASSUME NEW d \in Clients,
               Connection(d) \/ Served(d) \/ Received(d) \/ Clicked(d) \/ ConnectionLost(d)
        PROVE  Good(c)
    BY <1>2, <1>4, <2>1, <2>2, Elsewhere
  <2>3. CASE ServerStarts \/ (OthersAct /\ UNCHANGED <<dashboardVars, faults>>)
    BY <1>2, <2>1, <2>3, Nowhere
  <2>. QED
    BY <1>5, <2>1, <2>2, <2>3 DEF BusNext
<1>7. CASE LossNext
  BY <1>6, <1>7 DEF DInv
<1>. QED
  BY <1>3, <1>7

LEMMA LossNextInv == BusInv /\ DInv /\ [LossNext]_lossVars => (BusInv /\ DInv)'
BY LossIsBus, BusNextInv, LossNextRows

(* No click ends the application but the second deletion of a trip from a  *)
(* list that still shows the first one deleted: whatever is sent before    *)
(* the answers are in, lost with a connection or edited elsewhere.         *)
THEOREM OnlySecondDeletionsEnd == LossSpec => EndsOnSecondDeletion
<1>1. LossInit => BusInv /\ DInv
  BY BusInitInv, BusInitRows DEF LossInit
<1>2. BusInv /\ DInv /\ [LossNext]_lossVars =>
        [\A c \in Clients : Runs(c) /\ ~Runs(c)' => c \in shortened]_lossVars
  BY LossNextRows
<1>. QED
  BY <1>1, <1>2, LossNextInv, PTL DEF LossSpec, EndsOnSecondDeletion
=============================================================================
