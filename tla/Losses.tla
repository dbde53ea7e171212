------------------------------- MODULE Losses -------------------------------
(***************************************************************************)
(* What it takes to lose what a user has clicked.  A rider's client sends  *)
(* its list of requests as a whole, an administrator's the whole schedule  *)
(* of a route, each from a copy it keeps; nothing keeps users from         *)
(* clicking before the copy is up to date, connections from breaking, or   *)
(* two people from editing the same.  This is BusSystem with a record of   *)
(* these events, none of which is prevented, and says that they are the    *)
(* only ones after which the server has something else than was clicked.   *)
(***************************************************************************)
EXTENDS BusSystem

VARIABLES       \* history, since the server was started
  hasty,        \* clients with a list of requests under way that was sent
                \* before all was answered
  unsure,       \* names for which a list of requests may have been lost
  unsureRoutes, \* routes of which an edit may have been lost
  shortened     \* panels where a trip was deleted and is still shown

recordVars == <<hasty, unsure, unsureRoutes, shortened>>
lossVars == <<busVars, recordVars>>
----------------------------------------------------------------------------
(* Everything a client has asked on a session of somebody's is answered.   *)
Informed(c, role) == Settled(c, role) /\ sessionUserId[c] # 0

Owners(s) == {u.username : u \in FindUserById(sessionUserId[s])}

Shared(s) == \E t \in Sessions \ {s} : sessionUserId[t] = sessionUserId[s]

Clicks(c) == clicks'[c] # clicks[c]

UnderWay(c, type) == {i \in DOMAIN toServer[c] : toServer[c][i].type = type}

(* The other end goes away, and what has not been read there with it.      *)
Loses(c) == session[c] /\ ~session'[c]

Restarts == serverUp /\ ~serverUp'

(* A rider's list of requests                                              *)

Submission(c) == Clicks(c) /\ view'[c].myVotes # view[c].myVotes

SubmissionLost(c) == Loses(c) /\ UnderWay(c, "SET_VOTES") # {}

(* It takes the place of whatever is on file by then.                      *)
RequestsReplaced(s) == votes' # votes /\ sent'[1].to = s

Blind(c) == Submission(c) /\ ~Informed(c, "user")

(* The names that the lists submitted, lost and put on file concern.       *)
NamesSubmitted ==
  {view[c].username : c \in {d \in Clients : Blind(d)}}
    \cup UNION {Owners(c) : c \in {d \in Clients : Blind(d) \/ (Submission(d) /\ Shared(d))}}

NamesLost == UNION {Owners(c) : c \in {d \in Clients : SubmissionLost(d)}}

NamesReplaced ==
  UNION {Owners(s) : s \in {t \in Sessions :
           RequestsReplaced(t) /\ (t \notin Clients \/ t \in hasty \/ Shared(t))}}

RecordRequests ==
  /\ hasty' = {c \in Clients : UnderWay(c, "SET_VOTES")' # {} /\ (c \in hasty \/ Blind(c))}
  /\ unsure' = IF Restarts THEN {}
               ELSE unsure \cup NamesSubmitted \cup NamesLost \cup NamesReplaced

(* An administrator's schedules                                            *)

Edit(c) ==
  Clicks(c) /\ (panel'[c].routesData # panel[c].routesData \/ ~Runs(c)')

AnotherAdministrator(s) == \E t \in Sessions \ {s} : IsAdmin(t)

RoutesChanged(s) == routes' # routes /\ sent'[1].to = s

(* The routes that edits made, lost and put on file concern; another       *)
(* administrator's panel is told of none of them.                          *)
RoutesEdited ==
  {panel[c].box : c \in {d \in Clients :
     Edit(d) /\ (~Informed(d, "admin") \/ AnotherAdministrator(d))}}

RoutesLost ==
  UNION {{toServer[c][i].routeId : i \in UnderWay(c, "UPDATE_SCHEDULE")} :
           c \in {d \in Clients : Loses(d)}}

RoutesReplaced ==
  {rid \in RouteIds : \E s \in Sessions :
     RoutesChanged(s) /\ (s \notin Clients \/ AnotherAdministrator(s))}

RecordSchedules ==
  unsureRoutes' = IF Restarts THEN {}
                  ELSE unsureRoutes \cup RoutesEdited \cup RoutesLost \cup RoutesReplaced

(* A deletion takes a trip out of the map at once, and out of the list     *)
(* shown only when that is filled anew.                                    *)
Deletion(c) ==
  LET rid == panel[c].box IN
  Edit(c) /\ Len(panel'[c].routesData[rid]) < Len(panel[c].routesData[rid])

Reads(c, type) ==
  /\ toClient[c] # <<>> /\ Head(toClient[c]).type = type
  /\ UNCHANGED socket[c] /\ toClient'[c] = Tail(toClient[c])

Refilled(c) == Reads(c, "ROUTES_LIST") \/ panel'[c].box # panel[c].box

RecordDeletions ==
  shortened' = {c \in Clients : Deletion(c) \/ (c \in shortened /\ ~Refilled(c))}
----------------------------------------------------------------------------
LossInit ==
  /\ BusInit
  /\ hasty = {} /\ unsure = {} /\ unsureRoutes = {} /\ shortened = {}

LossNext == BusNext /\ RecordRequests /\ RecordSchedules /\ RecordDeletions

LossSpec == LossInit /\ [][LossNext]_lossVars
----------------------------------------------------------------------------
(* Properties *)

(* Unless a list was sent before all was answered, got lost with the       *)
(* connection or met another session of the account, the slots a rider     *)
(* asked for and has not deleted are the ones on file, each as often, when *)
(* no list is under way: whoever logs in and out at the client, whatever   *)
(* else is clicked too early, and however often connections break and the  *)
(* server restarts.                                                        *)
RequestsSure ==
  \A u \in users :
    /\ u.username \notin unsure
    /\ \A c \in Clients : sessionUserId[c] = u.id => UnderWay(c, "SET_VOTES") = {}
    => \A rid \in RouteIds, slot \in Slots :
         LET Count(vs) == Cardinality({i \in DOMAIN vs : vs[i] = [routeId |-> rid, slot |-> slot]})
         IN  Count(votes[u.id]) = Count(wanted[u.username].votes)

(* The same of the schedules of the first routes, which administrators     *)
(* edit trip by trip and clients send as a whole.                          *)
SchedulesSure ==
  \A r \in routes :
    /\ r.id \in DOMAIN wished \ unsureRoutes
    /\ \A c \in Clients : \A i \in UnderWay(c, "UPDATE_SCHEDULE") : toServer[c][i].routeId # r.id
    => \A trip \in Trip :
         LET Count(trips) == Cardinality({i \in DOMAIN trips : trips[i] = trip})
         IN  Count(Parsed(r.schedule)) = Count(wished[r.id])

(* It takes a second deletion, from a list that still shows the first      *)
(* trip deleted, to end the application.                                   *)
EndsOnSecondDeletion ==
  [][\A c \in Clients : Runs(c) /\ ~Runs(c)' => c \in shortened]_lossVars
=============================================================================
