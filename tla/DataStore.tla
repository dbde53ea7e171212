----------------------------- MODULE DataStore -----------------------------
(***************************************************************************)
(* The server's in-memory database: server/src/logic/DataStore.cpp with    *)
(* the rows of server/src/models/Models.h.  Every method of the class      *)
(* holds m_mutex from its first line to its last, so each is one           *)
(* indivisible operator here.  Nothing is persisted.                       *)
(*                                                                         *)
(* m_users, m_routes and m_tickets only ever grow at the back with a fresh *)
(* larger id and lose elements without being reordered, so the set of      *)
(* their rows determines the vector.  m_subscriptions is kept as the       *)
(* number of times each pair occurs: its order is observed by nobody.      *)
(***************************************************************************)
EXTENDS Naturals, Sequences, FiniteSets

CONSTANTS
  UserNames,       \* strings used as user names
  Passwords,       \* strings used as passwords
  ShortPasswords,  \* the passwords of fewer than six characters
  RouteNames,      \* strings used as route names
  RouteEnd,        \* route name -> destination read from it
  Times,           \* departure times of a trip
  Destinations,    \* destinations of a trip or of a requested slot
  Morning, Afternoon, University,  \* "07:00 AM", "04:00 PM", "University"
  EmptyText,       \* the empty string
  AdminName,       \* "admin"
  AdminPassword,   \* the plain text whose digest DataStore.cpp:9 stores
  SeedRoutes,      \* names of the routes the constructor adds
  Slots,           \* (day, time, destination) combinations of a vote
  MaxUsers, MaxRoutes, MaxTickets   \* bounds on the three id counters

UserIds == 1..MaxUsers
RouteIds == 1..MaxRoutes

ASSUME DataStoreAssumption ==
  /\ MaxUsers \in Nat \ {0} /\ MaxRoutes \in Nat /\ MaxTickets \in Nat
  /\ AdminName \in UserNames /\ AdminName # EmptyText
  /\ ShortPasswords \subseteq Passwords
  /\ AdminPassword \in ShortPasswords /\ EmptyText \in ShortPasswords
  /\ RouteEnd \in [RouteNames -> Destinations]
  /\ Morning \in Times /\ Afternoon \in Times /\ University \in Destinations
  /\ SeedRoutes \in Seq(RouteNames) /\ Len(SeedRoutes) <= MaxRoutes

VARIABLES users, routes, subscriptions, tickets, votes,
          nextUserId, nextRouteId, nextTicketId

store == <<users, routes, subscriptions, tickets, votes,
           nextUserId, nextRouteId, nextTicketId>>
----------------------------------------------------------------------------
(* Rows.  A password is stored as its SHA-256 digest, which distinct       *)
(* passwords are taken not to share.                                       *)

HashPassword(plain) == [sha256 |-> plain]

Trip == [time: Times, destination: Destinations]
Schedule == Seq(Trip) \cup {EmptyText}
User == [id: UserIds, username: UserNames,
         passwordHash: [sha256: Passwords], role: {"user", "admin"}]
Route == [id: RouteIds, name: RouteNames, schedule: Schedule]
Ticket == [id: 1..MaxTickets, userId: UserIds, routeId: Nat,
           charged: BOOLEAN, price: Nat]
RouteVote == [routeId: Nat, slot: Slots]

RowsOf(uid, rows) == {t \in rows : t.userId = uid}
IdsOf(rows) == {x.id : x \in rows}
----------------------------------------------------------------------------
(* Lookups *)

(* Mutant: names are not compared.                                         *)
UsernameNeverTaken(username) == FALSE

UsernameTaken(username) == \E u \in users : u.username = username
FindUserByUsername(username) == {u \in users : u.username = username}
FindUserById(id) == {u \in users : u.id = id}
FindRouteById(id) == {r \in routes : r.id = id}

IsSubscribed(uid, rid) ==
  <<uid, rid>> \in DOMAIN subscriptions /\ subscriptions[<<uid, rid>>] > 0

SubscribedRouteIds(uid) == {rid \in RouteIds : IsSubscribed(uid, rid)}

(* Every vote cast, by whom and at which position of that user's list; the *)
(* demand list counts the votes that agree in all their fields.            *)
CastVotes == UNION {{<<uid, i>> : i \in DOMAIN votes[uid]} : uid \in UserIds}

(* Mutant: every user counts once.                                         *)
VotersPerSlot ==
  {[key |-> k, count |-> Cardinality({uid \in UserIds : \E i \in DOMAIN votes[uid] :
                                        votes[uid][i] = k})] :
     k \in {votes[p[1]][p[2]] : p \in CastVotes}}

AggregatedDemand ==
  {[key |-> k, count |-> Cardinality({p \in CastVotes : votes[p[1]][p[2]] = k})] :
     k \in {votes[p[1]][p[2]] : p \in CastVotes}}
----------------------------------------------------------------------------
(* Updates.  A method that returns false when it changes nothing is        *)
(* enabled here when it returns true; its callers test the opposite.  The  *)
(* counters m_next...Id are bounded by the constants.                      *)

(* Mutant: the id is taken after the increment.                            *)
AddUserPreIncrement(username, passwordHash, role) ==
  /\ ~UsernameTaken(username) /\ nextUserId <= MaxUsers
  /\ users' = users \cup {[id |-> nextUserId + 1, username |-> username,
                           passwordHash |-> passwordHash, role |-> role]}
  /\ nextUserId' = nextUserId + 1
  /\ UNCHANGED <<routes, subscriptions, tickets, votes, nextRouteId, nextTicketId>>

AddUser(username, passwordHash, role) ==
  /\ ~UsernameTaken(username) /\ nextUserId <= MaxUsers
  /\ users' = users \cup {[id |-> nextUserId, username |-> username,
                           passwordHash |-> passwordHash, role |-> role]}
  /\ nextUserId' = nextUserId + 1
  /\ UNCHANGED <<routes, subscriptions, tickets, votes, nextRouteId, nextTicketId>>

(* Two trips: to the university in the morning, back in the afternoon.     *)
GenerateDefaultSchedule(name) ==
  << [time |-> Morning, destination |-> University],
     [time |-> Afternoon, destination |-> RouteEnd[name]] >>

NewRoute(id, name, schedule) ==
  [id |-> id, name |-> name,
   schedule |-> IF schedule = EmptyText THEN GenerateDefaultSchedule(name)
                                        ELSE schedule]

(* Mutant: the id is the number of routes plus one.                        *)
AddRouteBySize(name, schedule) ==
  /\ nextRouteId <= MaxRoutes
  /\ routes' = routes \cup {NewRoute(Cardinality(routes) + 1, name, schedule)}
  /\ nextRouteId' = nextRouteId + 1
  /\ UNCHANGED <<users, subscriptions, tickets, votes, nextUserId, nextTicketId>>

AddRoute(name, schedule) ==
  /\ nextRouteId <= MaxRoutes
  /\ routes' = routes \cup {NewRoute(nextRouteId, name, schedule)}
  /\ nextRouteId' = nextRouteId + 1
  /\ UNCHANGED <<users, subscriptions, tickets, votes, nextUserId, nextTicketId>>

(* Silent when no route has that id.                                       *)
UpdateRouteSchedule(rid, schedule) ==
  /\ routes' = {IF r.id = rid THEN [r EXCEPT !.schedule = schedule] ELSE r :
                  r \in routes}
  /\ UNCHANGED <<users, subscriptions, tickets, votes,
                 nextUserId, nextRouteId, nextTicketId>>

(* Mutant: the subscriptions of the route are left behind.                 *)
DeleteRouteOnly(rid) ==
  /\ FindRouteById(rid) # {}
  /\ routes' = routes \ FindRouteById(rid)
  /\ UNCHANGED <<users, subscriptions, tickets, votes,
                 nextUserId, nextRouteId, nextTicketId>>

(* Mutant: the tickets go with the route, too.                             *)
DeleteRouteAndTickets(rid) ==
  /\ FindRouteById(rid) # {}
  /\ routes' = routes \ FindRouteById(rid)
  /\ subscriptions' = [p \in DOMAIN subscriptions |->
                         IF p[2] = rid THEN 0 ELSE subscriptions[p]]
  /\ tickets' = {t \in tickets : t.routeId # rid}
  /\ UNCHANGED <<users, votes, nextUserId, nextRouteId, nextTicketId>>

(* Subscriptions go with their route; tickets and votes stay.              *)
DeleteRoute(rid) ==
  /\ FindRouteById(rid) # {}
  /\ routes' = routes \ FindRouteById(rid)
  /\ subscriptions' = [p \in DOMAIN subscriptions |->
                         IF p[2] = rid THEN 0 ELSE subscriptions[p]]
  /\ UNCHANGED <<users, tickets, votes, nextUserId, nextRouteId, nextTicketId>>

Subscribe(uid, rid) ==
  /\ ~IsSubscribed(uid, rid)
  /\ subscriptions' = [subscriptions EXCEPT ![<<uid, rid>>] = @ + 1]
  /\ UNCHANGED <<users, routes, tickets, votes, nextUserId, nextRouteId, nextTicketId>>

Unsubscribe(uid, rid) ==
  /\ IsSubscribed(uid, rid)
  /\ subscriptions' = [subscriptions EXCEPT ![<<uid, rid>>] = 0]
  /\ UNCHANGED <<users, routes, tickets, votes, nextUserId, nextRouteId, nextTicketId>>

IssueTicket(uid, rid, charged, price) ==
  /\ nextTicketId <= MaxTickets
  /\ tickets' = tickets \cup {[id |-> nextTicketId, userId |-> uid, routeId |-> rid,
                               charged |-> charged, price |-> price]}
  /\ nextTicketId' = nextTicketId + 1
  /\ UNCHANGED <<users, routes, subscriptions, votes, nextUserId, nextRouteId>>

SetVotes(uid, vs) ==
  /\ votes' = [votes EXCEPT ![uid] = vs]
  /\ UNCHANGED <<users, routes, subscriptions, tickets,
                 nextUserId, nextRouteId, nextTicketId>>

(* The constructor: the administrator's account and the first routes.      *)
StoreInit ==
  /\ users = {[id |-> 1, username |-> AdminName,
               passwordHash |-> HashPassword(AdminPassword), role |-> "admin"]}
  /\ routes = {NewRoute(i, SeedRoutes[i], EmptyText) : i \in DOMAIN SeedRoutes}
  /\ subscriptions = [p \in UserIds \X RouteIds |-> 0]
  /\ tickets = {}
  /\ votes = [uid \in UserIds |-> <<>>]
  /\ nextUserId = 2
  /\ nextRouteId = Len(SeedRoutes) + 1
  /\ nextTicketId = 1

StoreTypeOK ==
  /\ users \subseteq User
  /\ routes \subseteq Route
  /\ subscriptions \in [UserIds \X RouteIds -> Nat]
  /\ tickets \subseteq Ticket
  /\ votes \in [UserIds -> Seq(RouteVote)]
  /\ nextUserId \in Nat /\ nextRouteId \in Nat /\ nextTicketId \in Nat
=============================================================================
