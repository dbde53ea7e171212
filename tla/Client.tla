------------------------------- MODULE Client -------------------------------
(***************************************************************************)
(* What every Qt client of client/src is built on: its NetworkManager with *)
(* the TCP connection to a Session of the server, the LoginView, and the   *)
(* main window that opens a dashboard at each login and never closes one.  *)
(*                                                                         *)
(* A connection delivers in order; what has been sent on it and not been   *)
(* read is two queues of whole messages (module Framing is about their     *)
(* bytes).  A click only sends a request.  Answers come later, between or  *)
(* after other clicks, and an OK makes every dashboard ask for everything  *)
(* again.                                                                  *)
(***************************************************************************)
EXTENDS BusinessLogic, SequencesExt

CONSTANTS
  Clients,     \* the sessions whose other end is a client
  Logins,      \* what may be typed into each LoginView: LOGIN, REGISTER requests
  Patient,     \* the clients used by people who wait for the answers
  MaxClicks    \* bound on the clicks at a client

ASSUME ClientAssumption ==
  /\ Clients \subseteq Sessions /\ Patient \subseteq Clients /\ MaxClicks \in Nat
  /\ \A c \in Clients : Logins[c] \subseteq
       [type : {"LOGIN", "REGISTER"}, username : UserNames, password : Passwords]

VARIABLES
  serverUp,            \* the server process runs
  session,             \* a Session of the server holds the other end
  socket,              \* state of the QTcpSocket
  toServer, toClient,  \* messages under way
  screen,              \* what the main window shows
  dashboards,          \* the dashboards created so far, oldest first
  clicks               \* clicks so far

network == <<serverUp, session, socket>>
clientVars == <<network, toServer, toClient, screen, dashboards, clicks>>

Idle(c) == toServer[c] = <<>> /\ toClient[c] = <<>>

(* The dashboard shown is always the newest one.                           *)
Shows(c, role) ==
  screen[c] = "dashboard" /\ dashboards[c] # <<>> /\ Last(dashboards[c]) = role

(* It is shown, nothing is under way and the connection is up.             *)
Settled(c, role) == Shows(c, role) /\ Idle(c) /\ session[c]

(* The client has not been ended by an exception.                          *)
Runs(c) == screen[c] # "terminated"
----------------------------------------------------------------------------
(* The connection *)

(* While the socket is connecting sendRequest waits for the outcome.  It   *)
(* only reports an error without a connection, and what is written to one  *)
(* whose other end is gone is lost.                                        *)
SendRequests(c, reqs) ==
  /\ socket[c] # "connecting"
  /\ toServer' = IF session[c] THEN [toServer EXCEPT ![c] = @ \o reqs] ELSE toServer

(* Mutant: the connection is not asked for again.                          *)
OnDisconnectedStaying(c) ==
  /\ Runs(c) /\ socket[c] = "connected" /\ ~session[c]
  /\ socket' = [socket EXCEPT ![c] = "unconnected"]
  /\ toClient' = [toClient EXCEPT ![c] = <<>>]
  /\ UNCHANGED <<logicVars, serverUp, session, toServer, screen, dashboards, clicks>>

(* The buffer is cleared and LoginView connects again, whatever is shown.  *)
OnDisconnected(c) ==
  /\ Runs(c) /\ socket[c] = "connected" /\ ~session[c]
  /\ socket' = [socket EXCEPT ![c] = "connecting"]
  /\ toClient' = [toClient EXCEPT ![c] = <<>>]
  /\ UNCHANGED <<logicVars, serverUp, session, toServer, screen, dashboards, clicks>>

OnConnected(c) ==
  /\ Runs(c) /\ socket[c] = "connecting" /\ serverUp
  /\ Accept(c)
  /\ session' = [session EXCEPT ![c] = TRUE]
  /\ socket' = [socket EXCEPT ![c] = "connected"]
  /\ UNCHANGED <<serverUp, toServer, toClient, screen, dashboards, clicks>>

(* A connection that was refused is an error and not a disconnection.      *)
OnConnectionRefused(c) ==
  /\ Runs(c) /\ socket[c] = "connecting" /\ ~serverUp
  /\ socket' = [socket EXCEPT ![c] = "unconnected"]
  /\ UNCHANGED <<logicVars, serverUp, session, toServer, toClient, screen, dashboards, clicks>>

(* Session::processMessage: one request is handled and answered before the *)
(* next one is read.                                                       *)
Serve(c) ==
  /\ session[c] /\ toServer[c] # <<>>
  /\ HandleMessage(c, Head(toServer[c]))
  /\ toServer' = [toServer EXCEPT ![c] = Tail(@)]
  /\ toClient' = [toClient EXCEPT ![c] = Append(@, sent'[1].msg)]
  /\ UNCHANGED <<network, screen, dashboards, clicks>>
----------------------------------------------------------------------------
(* Messages from the server: what the main window and all dashboards do    *)

(* Mutant: a message type the server does not know.                        *)
UserRefreshMisspelt == << [type |-> "GET_ROUTES"], [type |-> "GET_SUBS"],
                          [type |-> "GET_TICKET"], [type |-> "GET_VOTES"] >>

UserRefresh == << [type |-> "GET_ROUTES"], [type |-> "GET_SUBS"],
                  [type |-> "GET_TICKETS"], [type |-> "GET_VOTES"] >>

AdminRefresh == << [type |-> "GET_ROUTES"], [type |-> "GET_USERS"],
                   [type |-> "GET_DEMAND"] >>

RefreshOf(role) == IF role = "admin" THEN AdminRefresh ELSE UserRefresh

(* Every dashboard is connected to messageReceived, the hidden ones too.   *)
RefreshAll(c, roles) ==
  SendRequests(c, FlattenSeq([d \in DOMAIN dashboards[c] |->
                    IF dashboards[c][d] \in roles THEN RefreshOf(dashboards[c][d]) ELSE <<>>]))

(* loginSuccess: a new dashboard each time, and the old ones stay.         *)
OnAuthOk(c, msg) ==
  /\ msg.type = "AUTH_OK"
  /\ dashboards' = [dashboards EXCEPT ![c] = Append(@, msg.user.role)]
  /\ screen' = [screen EXCEPT ![c] = "dashboard"]
  /\ SendRequests(c, RefreshOf(msg.user.role))

(* Mutant: an OK is only shown.                                            *)
OnOkNoRefresh(c, msg) ==
  /\ msg.type = "OK"
  /\ UNCHANGED <<toServer, screen, dashboards>>

OnOk(c, msg) ==
  /\ msg.type = "OK"
  /\ RefreshAll(c, {"user", "admin"})
  /\ UNCHANGED <<screen, dashboards>>

OnRouteOk(c, msg) ==
  /\ msg.type = "ROUTE_OK"
  /\ RefreshAll(c, {"admin"})
  /\ UNCHANGED <<screen, dashboards>>

(* Mutant: after an error the tickets are asked for once more.             *)
OnOtherRetrying(c, msg) ==
  /\ msg.type \notin {"AUTH_OK", "OK", "ROUTE_OK"}
  /\ IF msg.type = "ERROR" THEN SendRequests(c, <<[type |-> "GET_TICKETS"]>>)
                            ELSE UNCHANGED toServer
  /\ UNCHANGED <<screen, dashboards>>

(* Lists are shown, and an error is a line of text.                        *)
OnOther(c, msg) ==
  /\ msg.type \notin {"AUTH_OK", "OK", "ROUTE_OK"}
  /\ UNCHANGED <<toServer, screen, dashboards>>

OnMessageReceived(c) ==
  /\ Runs(c) /\ socket[c] = "connected" /\ toClient[c] # <<>>
  /\ LET msg == Head(toClient[c]) IN
       OnAuthOk(c, msg) \/ OnOk(c, msg) \/ OnRouteOk(c, msg) \/ OnOther(c, msg)
  /\ toClient' = [toClient EXCEPT ![c] = Tail(@)]
  /\ UNCHANGED <<logicVars, network, clicks>>
----------------------------------------------------------------------------
(* Clicks *)

MayClick(c) == c \in Patient => Idle(c)

Click(c) ==
  /\ MayClick(c) /\ clicks[c] < MaxClicks
  /\ clicks' = [clicks EXCEPT ![c] = @ + 1]
  /\ UNCHANGED <<logicVars, network, toClient, dashboards>>

OnLoginOrRegisterClicked(c) ==
  /\ screen[c] = "login" /\ Click(c)
  /\ \E req \in Logins[c] : SendRequests(c, <<req>>)
  /\ UNCHANGED screen

(* Only the window changes: nothing is sent, nothing is deleted.           *)
OnLogoutClicked(c) ==
  /\ screen[c] = "dashboard" /\ Click(c)
  /\ screen' = [screen EXCEPT ![c] = "login"]
  /\ UNCHANGED toServer

OnRefreshClicked(c) ==
  /\ screen[c] = "dashboard" /\ Click(c)
  /\ SendRequests(c, RefreshOf(Last(dashboards[c])))
  /\ UNCHANGED screen

WindowClicks(c) ==
  OnLoginOrRegisterClicked(c) \/ OnLogoutClicked(c) \/ OnRefreshClicked(c)
----------------------------------------------------------------------------
ClientInit ==
  /\ Init
  /\ serverUp = TRUE
  /\ session = [c \in Clients |-> FALSE]
  /\ socket = [c \in Clients |-> "connecting"]
  /\ toServer = [c \in Clients |-> <<>>]
  /\ toClient = [c \in Clients |-> <<>>]
  /\ screen = [c \in Clients |-> "login"]
  /\ dashboards = [c \in Clients |-> <<>>]
  /\ clicks = [c \in Clients |-> 0]

(* The sessions that are not modelled clients send any request at any time. *)
OthersAct ==
  /\ serverUp
  /\ \E s \in Sessions \ Clients, req \in Requests : HandleMessage(s, req)
  /\ UNCHANGED clientVars

(* The types of the client's variables, and how they go together: a        *)
(* Session is at the other end of a connected socket only, requests are    *)
(* under way to a Session only, and they are requests the server knows.    *)
ClientTypeOK ==
  /\ serverUp \in BOOLEAN
  /\ screen \in [Clients -> {"login", "dashboard", "terminated"}]
  /\ clicks \in [Clients -> 0..MaxClicks]
  /\ \A c \in Clients :
       /\ session[c] => serverUp /\ socket[c] = "connected"
       /\ socket[c] \in {"connecting", "connected", "unconnected"}
       /\ \A d \in DOMAIN dashboards[c] : dashboards[c][d] \in {"user", "admin"}
       /\ toServer[c] # <<>> => session[c]
       /\ toClient[c] # <<>> => socket[c] = "connected"
       /\ \A i \in DOMAIN toServer[c] : toServer[c][i].type \in Known
=============================================================================
