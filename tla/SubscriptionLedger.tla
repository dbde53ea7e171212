------------------------ MODULE SubscriptionLedger ------------------------
(***************************************************************************)
(* What the bus service promises its riders, with no tables, sessions or   *)
(* counters: who is a member, which routes run, who is subscribed to what, *)
(* and the fares charged.  BusinessLogic implements it.                    *)
(***************************************************************************)
EXTENDS Naturals

CONSTANTS
  Members,       \* who may join
  RouteNumbers,  \* the numbers routes are given
  NamedRoutes,   \* the numbers riders name, of routes that exist or not
  FareNumbers    \* the numbers fares are given, from 1 on

VARIABLES
  members,  \* who has joined; nobody leaves
  opened,   \* route numbers ever given out
  running,  \* those that have not been closed
  active,   \* the subscriptions in force
  fares,    \* the fares charged, numbered
  receipt   \* the ride just acknowledged with the number of its fare, if any

ledger == <<members, opened, running, active, fares, receipt>>

Fare == 50

Init ==
  /\ \E m \in Members : members = {m}
  /\ opened \subseteq RouteNumbers /\ running = opened
  /\ active = {} /\ fares = {} /\ receipt = {}

Join(m) ==
  /\ m \in Members \ members
  /\ members' = members \cup {m} /\ receipt' = {}
  /\ UNCHANGED <<opened, running, active, fares>>

(* A number is given to one route, once.                                   *)
Open(r) ==
  /\ r \in RouteNumbers \ opened
  /\ opened' = opened \cup {r} /\ running' = running \cup {r} /\ receipt' = {}
  /\ UNCHANGED <<members, active, fares>>

(* Closing a route ends its subscriptions and refunds nothing.             *)
Close(r) ==
  /\ r \in running
  /\ running' = running \ {r}
  /\ active' = {p \in active : p[2] # r} /\ receipt' = {}
  /\ UNCHANGED <<members, opened, fares>>

Enrol(m, r) ==
  /\ m \in members /\ r \in running /\ <<m, r>> \notin active
  /\ active' = active \cup {<<m, r>>} /\ receipt' = {}
  /\ UNCHANGED <<members, opened, running, fares>>

Cancel(m, r) ==
  /\ <<m, r>> \in active
  /\ active' = active \ {<<m, r>>} /\ receipt' = {}
  /\ UNCHANGED <<members, opened, running, fares>>

(* No ride is acknowledged that is not paid for, by a subscription in      *)
(* force or by one fare, and a fare once charged is not altered.  The      *)
(* route number is the one the rider named.                                *)
Ride(m, r) ==
  /\ m \in members
  /\ \/ /\ <<m, r>> \in active
        /\ receipt' = {[member |-> m, route |-> r, fare |-> 0]}
        /\ UNCHANGED fares
     \/ /\ <<m, r>> \notin active
        /\ \E n \in FareNumbers :
             /\ \A f \in fares : f.no < n
             /\ fares' = fares \cup {[no |-> n, member |-> m, route |-> r, price |-> Fare]}
             /\ receipt' = {[member |-> m, route |-> r, fare |-> n]}
  /\ UNCHANGED <<members, opened, running, active>>

(* Whatever else is said acknowledges no ride.                             *)
Inform == receipt' = {} /\ UNCHANGED <<members, opened, running, active, fares>>

Next ==
  \/ \E m \in Members : Join(m)
  \/ \E r \in RouteNumbers : Open(r) \/ Close(r)
  \/ \E m \in Members, r \in RouteNumbers : Enrol(m, r) \/ Cancel(m, r)
  \/ \E m \in Members, r \in NamedRoutes : Ride(m, r)
  \/ Inform

Spec == Init /\ [][Next]_ledger
===========================================================================
