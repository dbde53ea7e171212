# Bus subscription system: specification

TLA+ modules, TLC configurations and TLAPS proofs for the bus subscription
service: a C++ server that keeps users, routes, subscriptions, tickets and votes
in memory, and a Qt client with a view for riders and one for the administrator.
Paths below are relative to the repository.

## 1. The system

| part | state | operations | talks to |
|---|---|---|---|
| `DataStore` (`server/src/logic/DataStore.*`, `models/Models.h`) | vectors of users, routes, subscriptions, tickets, votes; three id counters; one mutex | lookups, add/update/delete route, add user, (un)subscribe, issue ticket, set votes, demand | called by `BusinessLogic`, one lock per call |
| `BusinessLogic` (`server/src/logic/BusinessLogic.*`) | none of its own; reads and writes the session's user id | a dispatcher and sixteen handlers | `DataStore`; answers through `INetworkClient::sendMessage` |
| `Session`, `Server` (`server/src/*`) | socket, header and body buffers, `m_userId` | accept; read header, read body, handle, read again; write an answer | `BusinessLogic::handleMessage`; the socket |
| `NetworkManager` (`client/src/network`) | socket, receive buffer, length expected next | send; reassemble messages; signals `connected`, `disconnected`, `messageReceived` | every view |
| `LoginView`, main window (`client/src/views/LoginView.*`, `client/src/main.cpp`) | visible page, one retry after a lost connection | login, register, logout, open a dashboard per login | `NetworkManager` |
| `UserDashboard` (`client/src/views/UserDashboard.*`) | five lists and the cache `m_myVotes` | refresh, subscribe, unsubscribe, ride, add and delete a slot request; one reaction per message type | `NetworkManager` |
| `AdminDashboard` (`client/src/views/AdminDashboard.*`) | routes, users, demand, schedule being edited | add/delete route, add/delete trip, inspect users | `NetworkManager` |

The server runs its `io_context` on one thread (`server/src/main.cpp:12`), so a
handler is never interleaved with another session's. Between requests everything
is possible: sessions change owner by a new login, an administrator deletes a
route that a rider's list still shows, answers arrive after further clicks.

What is hard, and what makes each part correct:

* **DataStore and BusinessLogic** — long sequences of legal calls from several
  sessions. Ids must never come to denote another row; a subscription must not
  outlive its route, or rides on a dead id would be free; roles are looked up from
  an id captured earlier; rides are charged by the subscription of that moment.
* **Client views** — everything shown is a stale copy. Submissions send a *whole*
  cached list, so a late answer can undo a submission; the subscriptions list is
  filtered by another list filled earlier; dashboards survive their logout and keep
  reacting; every `OK` makes all of them ask again.
* **Connection** — messages are cut into pieces and must be put together again;
  writes of two answers can overlap; connections are lost and come back without
  the session's user; a restarted server has forgotten everything.

`PROJECT.json` lists each hazard at its line with the properties that cover it.

## 2. The modules

```
SubscriptionLedger                        MessageChannel
  what the service promises                 what a connection promises
      ^ implements                              ^ implements
DataStore <- BusinessLogic <- Client         Framing <- MCFraming
               ^   ^   ^        ^  ^
               |   |   |        |  +-- AdminDashboard <-+
               |   |   |        +----- UserDashboard  <-+- BusSystem <- MCBusSystem <- MCLosses
               |   |   |                    ^                 ^                           |
               |   |   |              MCUserDashboard         +------- Losses <-----------+
               |   |   +-- HandlerSteps <- MCHandlerSteps
               |   +-- BusinessLogic_proofs                   RouteNames
               +-- MCBusinessLogic

SequenceLemmas <- BusinessLogic_proofs <- Client_proofs <- Dashboards_proofs <- BusSystem_proofs
SequenceLemmas <- Framing_proofs
SequenceLemmas <- RouteNames_proofs
                  HandlerSteps_proofs
```
(`<-` reads "is extended by"; each proof module also extends the module it is about,
`Dashboards_proofs` is about `UserDashboard` and `AdminDashboard`, and
`BusSystem_proofs` about `Losses` too.)

**DataStore** has the store's tables as variables and one operator per method.
A vector with unique, increasing ids is the set of its rows: rows are appended and
erased and never reordered. `m_subscriptions` is a function from (user, route)
pairs to how often the pair is on file, so that a duplicate would be visible.
A method that returns false without changing anything is an operator that is not
enabled; the handler's refusal tests the opposite. `StoreInit` is the constructor
with the built-in administrator and the seeded routes.

**BusinessLogic** adds `sessionUserId` (each `Session::m_userId`) and `sent` (the
`sendMessage` calls of the last step; with the answer to a ride goes the route that
the request named), and has one action per handler with every
refusal in the order of the code. `HandlePublic`, then the test for an
authenticated session, then `HandleAuthenticated`, is the dispatcher. `Accept` is a
new connection taking a place among `Sessions`; since it may take one in use, it
also stands for the old connection's end.

**SubscriptionLedger** knows no tables, counters or sessions: members join, routes
open and close, subscriptions are made and cancelled and end with their route. A ride
is acknowledged with a `receipt`, which says that a subscription was in force or
names the one fare of 50 that was charged: no step acknowledges a ride that is not
paid for. `BusinessLogic` refines it by `members <- IdsOf(users)`, `opened <-
1 .. nextRouteId - 1`, `running <- IdsOf(routes)`, `active <-` the pairs on file,
`fares <-` the tickets, `receipt <-` what the answer in `sent` says of a ride.

**HandlerSteps** is `BusinessLogic` at the granularity of the store's mutex. Each
method of `DataStore` locks it separately, so a handler that looks something up
first (the role, the route, the subscription) is two steps here: `Start` makes the
look-up and remembers its result in `running`, `Finish` acts on the *remembered*
result. `handleGetUserDetail` goes on looking things up, so that `LookUpUser`,
`LookUpSubscriptions` and one `LookUpRoute` per subscription come in between.
`Threads` are the threads in `io_context::run`: one, as in `main`. The module
implements `BusinessLogic`; with the two threads of its mutant it does not.

**Client** is what every client is made of: the socket (`socket`) with the server's
`session` at its other end, `toServer` and `toClient` with the messages under way,
the visible page (`screen`) and `dashboards`, the kinds of all dashboards created so
far. They all stay connected to `messageReceived`, so that `RefreshAll` asks once
for each of them on an `OK`. `Serve` is `Session` reading one request, handling and
answering it. `OnDisconnected` is `LoginView`'s slot, which connects again once;
`OnConnectionRefused` is an error, on which nothing is done. `Patient` clients are
those whose users wait for the answers before they click again.

**UserDashboard** and **AdminDashboard** extend it with the members and lists of the
newest dashboard of each kind (older ones' lists can be seen by nobody), one
operator per message type and one action per button. `wanted` and `wished` are
history variables: what was asked for by clicking; no action reads them.
`AdminDashboard` keeps the map of schedules `m_routesData` apart from the list of
trips shown, since clicks change the one and only answers and selections the other;
`erase` past the end ends the application.

**BusSystem** composes both with the server and adds the faults: `ConnectionLost`
(the session is gone, what the client sent is lost, of what it was sent it may still
read some), `ServerStops` (all sessions and tables are gone; the next start
constructs them as at first, with ids from 1) and `ServerStarts`. Clients live on
with all their dashboards.

**Losses** is `BusSystem` with a record of what can go wrong between a click and the
file, and prevents none of it: users click before all is answered, connections
break while a list is under way, the server restarts, other sessions of the same
account or of another administrator act. `unsure` are the names, `unsureRoutes` the
routes, for which one of these has happened since the server was started; `hasty` are
the clients whose list under way was sent too early; `shortened` the panels that
still show a trip just deleted. The four variables only observe: each step of
`LossNext` is a step of `BusNext` with whatever the record says of it.

**Framing** is below `Client`: bytes, headers, `readHeader`/`readBody`,
`tryProcessBuffer`, writes that take several pieces, and connections that break
in the middle of anything. A write sends a piece (`WriteSome`) and queues for the socket
again with the rest when its handler runs (`Resume`), so that another answer may
start in between; `pieces` records whether that has happened. `Links` are kinds of
connection: how many bytes one write takes, how many fit between the sockets, how
many answers the client may be waiting for. **MessageChannel** is what it implements
and what `Client` takes a connection for: `toServer` and `toClient` as queues of
whole messages.

**RouteNames** has the two algorithms that read a destination out of a route's name,
over names made of the pieces they look for. White space comes in two kinds: spaces and
tabs, which the server erases in front of a destination, and all other, which only
`QString::trimmed` takes for blanks.

**MCBusinessLogic**, **MCHandlerSteps**, **MCUserDashboard**, **MCBusSystem**,
**MCLosses** and **MCFraming** give the constants values. The modules whose names end in **_proofs**
prove theorems about the module they are named after; **SequenceLemmas** has the facts
about sequences and sums they share.

Definitions whose comment starts with "Mutant" are wrong variants of the definition
that follows them. No specification uses them: they record, for each property, a
plausible bug that it detects.

### Abstractions

* Strings are model values or members of small sets. Messages for people are kept
  only where they tell answers apart.
* A password's SHA-256 is a record around it: no two passwords share a digest.
* Stops and timestamps are left out, nothing depends on them. A trip is a time and a
  destination; a vote is a route and a slot, which stands for its day, time and
  destination.
* The destination derived from a route's name is the constant function `RouteEnd`
  where schedules are concerned, and `ServerDestination` in `RouteNames`.
* A slot whose destination has a bar is a member of `BarredSlots`: `OnPanelDemand` leaves
  it out, as `AdminDashboard.cpp:271` does with a key of more than four parts.
* A dashboard's request box, its texts and status lines are left out, except for the
  selected route of the schedule editor, on which edits depend.
* `sendRequest` waits for a connection that is being made for at most 3 seconds; here
  it waits for the outcome.
* The fields of a request may be missing, which gives the defaults of the code, but
  have the JSON type the client gives them. (`votes` is read with `operator[]` on a
  constant object, with no default: requests to set votes carry it.)
* Order within lists that come from sets is not kept, except for votes, whose
  positions the client uses as indices.

## 3. The runs

Bounds: `MaxUsers`, `MaxRoutes`, `MaxTickets` cap the id counters in the guards of
`AddUser`, `AddRoute`, `IssueTicket`; `MaxClicks` caps the clicks at a client,
`MaxFaults` the broken connections and ends of the server, `MaxAsked` and
`MaxConnections` the requests and connections of `Framing`, `MaxPieces` the length
of a name.

| run | properties | instance and why it is enough |
|---|---|---|
| `Accounts` | `TypeOK`, `AccountsUnambiguous`, `DemandConserved`, `Isolation`, `OnlyAdminChangesRoutes` | two riders and the administrator, two sessions whose owner changes, refused names and passwords, lists of up to three slots with one repeated and one shared, a ride, a deleted route, an edited schedule. Ambiguity needs two accounts and two sessions; demand two voters of one slot. |
| `Routes` | `SubscriptionsLive`, `RouteIdsStable`, `ImplementsLedger`, `ImplementsHandlers` | the handlers call by call; a rider and the administrator, one route and a second one named before it exists, two tickets, and a look at the rider's detail, in as many steps as it has look-ups. Reuse of an id needs a deletion before an addition, and so does a ride on a dead route. |
| `Framing` | `AnswersIntact`, `ImplementsChannel` | bytes are bits, headers of two, bodies of up to three of which three are too many, so that lengths are accepted up to the greatest and refused, and bodies look like headers; two connections; three links, as said below. |
| `Rider` | `ClientTypeOK`, `ViewTypeOK`, `SettledViewsCurrent`, `ShowsOwnTickets` | two accounts on one impatient client with four clicks (log in, ride, log out, log in), the administrator closing the route at any moment. |
| `Desk` | `PanelTypeOK`, `SettledViewsCurrent`, `SettledPanelCurrent` | a rider and the administrator at one impatient client with five clicks, each login leaving a dashboard behind. |
| `Losses` | `RequestsSure`, `SchedulesSure`, `EndsOnSecondDeletion` | the desk, where a rider and the administrator log in and do not wait, three clicks, one fault, and a session on which both log in, empty the rider's list and the schedule. A request is lost by two submissions, an edit by two edits or one from elsewhere, the application by two deletions. |
| `Restart` | `ChargedAsBooked`, `NamedDashboardsOnly`, `ReconnectsWhileUp`, `Settles` | a phone where two riders and the administrator log in, four clicks, two faults: an id must be given to one account, forgotten and given to another while the first one's dashboard lives on. |
| `Names` | `DestinationsAgree` | all names of up to seven pieces: an arrow, `AUC`, both kinds of white space and a word, each repeated. |
| `LostRequest` | `RequestsKept`, violated | a rider who does not wait, three clicks. |
| `Unsubscribe` | `UnsubscribeObeyed`, violated | a patient rider, three clicks. |
| `LostEdit` | `ClientSurvives`, violated | a patient administrator, three clicks, one fault. |
| `Refused` | `Reconnects`, violated | one client without any click, the server stops once and is started again. |

What the less obvious properties say:

* `SettledViewsCurrent` — when nothing is under way, tickets, requests and cache are
  those on file for the dashboard's own user, and so are the subscriptions up to
  routes closed since. The client gets no notice of an administrator's change;
  that is why closed routes are excepted. After a lost connection the session is
  nobody's, and a dashboard shown cannot become current: these states are excepted
  by `sessionUserId[c] # 0`.
* `SettledPanelCurrent` — the panel edits its own map before the server has said
  anything and refills the route box at each answer; both agree again in the end.
  `Desk` has one administrator: a second one's changes are not announced.
* `ShowsOwnTickets` — holds at *every* moment, also while a new login is answered.
* `NamedDashboardsOnly` — a step that adds to an account's tickets, requests or
  subscriptions by a client's request is taken while that client's dashboard bears
  the account's name. A dashboard never sends its user's id, and the session's id
  means somebody else after a restart: this is where they could part.
* `Settles` — refreshes caused by answers come to an end. `ReconnectsWhileUp` — a
  connection that breaks is made again, if the server never ends.
* `ChargedAsBooked` — counts by the *name* on the dashboard: a ride clicked on Alice's
  old dashboard and charged to the account that has her id after a restart breaks it.
* `RequestsSure`, `SchedulesSure` — what a rider asked for, and what administrators
  edited, is on file, each entry as often, for every name not in `unsure` and
  every route not in `unsureRoutes`. They turn "patient users and no faults" into a list
  of the events that do the harm, each of which the run contains: a click is hasty
  only if something is still to be answered, a fault matters only if it meets a list
  under way, another session only while it is of the same account.
* `EndsOnSecondDeletion` — the exception of `AdminDashboard.cpp:220` needs a deletion whose
  trip is still listed, be it by haste or because its request was lost.
* `ImplementsLedger` — also says that a ride without subscription is charged: the
  handler that answers "Ride recorded" without one has no receipt to show.
* `AnswersIntact` — whatever was received is a prefix of what was answered, until two
  answers are under way of which one was sent in part.
* `ImplementsChannel` — also says that every request is handled and its answer arrives
  on links that are `Uncut`, unless the connection breaks or a length is refused
  before. A refusal may arrive or be lost with the connection: closing a socket with
  bytes unread resets it. Length 0 does not occur, no client sends an empty body.
* `DemandConserved` — the counts in the administrator's list add up to the votes cast.
* `Isolation` — compares a state with its successor and the session it came from.

**Deadlock** is checked in `Accounts` and `Routes`. Users who have used up their clicks,
and connections that may not be replaced any more, may stop, so the other runs say
`CHECK_DEADLOCK FALSE`.

**Fairness.** `BusSpec` assumes weak fairness of the steps of each connection
(`Connection`, `Served`, `Received`) and of `ServerStarts`. The server's event loop
and Qt's run as long as they have work and each of their handlers is finite; a
socket that is connecting gets an answer, one whose other end is gone is told so;
somebody starts the server again. Nobody must click, nothing must fail, and other
sessions need not act: none of these is fair. `FramingSpec` assumes the same of the
steps of both ends, and not of requests or of breaking connections. Only `Settles`,
`ReconnectsWhileUp`, `Reconnects` and `ImplementsChannel` use fairness.

**Patient users** are an assumption about people: the client does not disable its
buttons while answers are missing. `Restart` makes it, since a second login clicked
before the first is answered lets the first account's dashboard act for the second
(`NamedDashboardsOnly`); so do `Unsubscribe` and `LostEdit`, whose counterexamples do not
need haste. `Rider`, `Desk` and `Losses` have impatient users.

**Links.** `Session::sendMessage` does not wait for the write before it, so that an
answer that exceeds what the socket takes at once can have the next one written in the
middle of it, and the client asks for three or four lists at once. `MCLinks` has all
three kinds of connection: answers that take several writes, one at a time; several
answers at once, each written in one piece; and several at once that take several
writes each, whose pieces may mix. `AnswersIntact` speaks of all three, up to the
moment of mixing; `ImplementsChannel` of the first two, which `Uncut` describes. What a
client reads after answers have mixed is arbitrary, and nothing is said of it.

## 4. Findings

* **Unsubscribing does nothing** (`client/src/views/UserDashboard.cpp:143`). The
  button "Unsubscribe from Selected" reads the route id from the selected row's
  `Qt::UserRole`, but the rows of that list are made of text alone (line 214), and the
  request always names route 0. The server answers "Not subscribed". Run
  `Unsubscribe`.
* **A late list undoes a submission** (`client/src/views/UserDashboard.cpp:220`). An
  answer computed before a `SET_VOTES` and arriving after the click replaces the
  cache, and the next click overwrites the newer list on file. Run `LostRequest`.
* **Deleting a trip ends the application** (`client/src/views/AdminDashboard.cpp:220`).
  A deletion shortens `m_routesData` at once and the list shown only with the next
  answer. If the request was lost with its connection there is none, and deleting
  the last row, still listed, calls `erase` past the end of the array, whose
  exception nothing catches. Run `LostEdit`.
* **The client reconnects once** (`client/src/views/LoginView.cpp:77`). It says
  "Disconnected. Reconnecting..." and later "Please wait and try again", but a
  refused attempt is an error on which nothing is done; a client that loses its
  server stays unconnected after the server is back. Run `Refused`.

Seen while modelling and not claimed by a run: overlapping writes (above); `handleUpdateSchedule` answers "Schedule updated" for a route that another
administrator has closed (`server/src/logic/BusinessLogic.cpp:200`); a bar in a
route's name makes `AdminDashboard.cpp:271` drop the requests for its destination;
the default schedule's morning trip goes to "University" (`DataStore.cpp:31`) while
riders ask for "AUC" (`UserDashboard.cpp:117`); of the white space around a destination
the server trims spaces and tabs in front (`DataStore.cpp:22`), the client all of it.

## 5. The proofs

Eight modules hold them; all the theorems are about every value of the constants,
under the named assumptions of the modules (below) and the hypotheses given here.

| theorem | property | hypotheses |
|---|---|---|
| `TypeCorrect` | `[]TypeOK` | |
| `SubscriptionsAlwaysLive` | `[]SubscriptionsLive` | |
| `AccountsAlwaysUnambiguous` | `[]AccountsUnambiguous` | |
| `DemandAlwaysConserved` | `[]DemandConserved` | |
| `RouteIdsAlwaysStable` | `RouteIdsStable` | |
| `OnlyAdminEverChangesRoutes` | `OnlyAdminChangesRoutes` | |
| `RidersIsolated` | `Isolation` | |
| `ServerImplementsLedger` | `ImplementsLedger` | |
| `StepsImplementHandlers` | `StepsSpec => ImplementsHandlers` | |
| `StoreAlwaysConsistent` | `BusSpec => [](TypeOK /\ SubscriptionsLive /\ AccountsUnambiguous)` | |
| `ClientsTypeCorrect`, `RiderClientsTypeCorrect` | `[]ClientTypeOK` of `BusSpec`, of `RiderSpec` | |
| `ViewsTypeCorrect`, `RiderViewsTypeCorrect` | `[]ViewTypeOK`, likewise | |
| `PanelsTypeCorrect` | `[]PanelTypeOK` | |
| `OwnTicketsAlwaysShown`, `RidersShownOwnTickets` | `[]ShowsOwnTickets` of `BusSpec`, of `RiderSpec` | |
| `SettledPanelsCurrent` | `[]SettledPanelCurrent` | one client; no other session edits routes |
| `SettledListsCurrent` | `[]SettledViewsCurrent` | one client; no other session acts for a rider |
| `PatientActAsShown` | `NamedDashboardsOnly` | all clients patient |
| `PatientChargedAsBooked` | `[]ChargedAsBooked` | all clients patient; rides are booked on clients only |
| `RequestsAlwaysSure` | `LossSpec => []RequestsSure` | |
| `SchedulesAlwaysSure` | `LossSpec => []SchedulesSure` | |
| `OnlySecondDeletionsEnd` | `LossSpec => EndsOnSecondDeletion` | |
| `DestinationsAlwaysAgree` | `NamesSpec => []DestinationsAgree` | |
| `HeaderRoundTrip` | the length read is the length written | it fits in a header |
| `AnswersAlwaysIntact` | `[]AnswersIntact` | |
| `BytesImplementChannel` | the safety part of `ImplementsChannel` | |

**Assumptions.** `DataStoreAssumption`: at least one user fits, the administrator's
name and password are among the strings, the seeded routes fit. `RequestAssumption`:
requests carry fields of their types. `ClientAssumption`, `OfficeAssumption`,
`FaultsAssumption`: what may be typed is a name, a password, a route or a trip, the
bounds are numbers, and the empty text is no list of trips (the text of an empty list
has its brackets). `NamesAssumption`: words are none of the pieces looked for.
`FramingAssumption`: the bytes of a header are the digits of a number (`Place` has their
weights), every body fits in a header's length, and each write takes at least a byte.
TLC evaluates each of them in the runs of its module.

**Why the hypotheses.** Four theorems have some:

* *All clients patient*, for `PatientActAsShown` and `PatientChargedAsBooked`: the two
  login buttons stay enabled while an answer is missing. Section 3 says what goes
  wrong without. Faults, restarts and other sessions are all allowed.
* *One client* and *no other session* for the two theorems on settled views: the
  server notifies nobody of a change, so that a dashboard cannot know what another
  device of the account, or another administrator, has done. All other things the
  others may do: close routes under a rider's list, open some, register, log in.
* *Rides are booked on clients*: `wanted` counts clicks; other sessions do not click.

What is said of requests, schedules and the end of the application needs none:
`Losses` has every client, session, click and fault, and its properties name the events
after which they promise nothing.

### The server

*The inductive invariant* is
`IInv == TypeOK /\ IdsFresh /\ SubscriptionsLive /\ AccountsUnambiguous`. The last
three are not inductive without `IdsFresh`: a new account or route is distinguished
from the old ones only because every id on file is below its counter.
`AccountsUnambiguous` is needed by the others in turn: a subscription is of a
registered user because the session that makes it is somebody's.

*The argument* has two levels. `PublicKinds`, `AdminKinds`, `RiderKinds` and
`StepKinds` reduce the sixteen handlers with their refusals to four kinds of step: one
that leaves the store alone (`QuietStep`), a registration (`JoinStep`), a change of
the routes by an administrator (`FleetStep`), a change of a rider's own data
(`RiderStep`). Every theorem is then proved once per kind: `QuietKeeps`, `JoinKeeps`,
`FleetKeeps`, `RiderKeeps` for the invariant, `StepKeepsRouteIds`, `StepByAdmin`,
`StepIsOwnDoing` for the action properties, `InitLedger`, `JoinImplements`,
`FleetImplements`, `RiderImplements` for the refinement.

*The demand* needs no step: it holds of any tables of their types. `CastVotes` is finite
(`CastVotesFinite`), and `AggregatedDemand` has one entry for each value that a vote
has, with the number of votes of that value. `EntriesAddUp` says of any finite set that
such counts add up to its size: the recursive function inside `MapThenSumSet` is one
that gives, for any of the entries, the number of elements they account for
(`AdderExists`), and it can be no other (`AdderAccounts`, by the smallest set of entries
where it would be), as each entry accounts for elements of its own (`AccountedStep`).

*The handlers call by call.* The invariant is `StepsInv`: what `running` holds is a
request of `LooksUp` on a session that is somebody's, with its look-up still true, and
of `handleGetUserDetail` the user, the routes seen and those to come. With one thread
nothing else runs in between (`CanRun`). `SubscribeWhole`, `RideWhole`, `AdminWhole` and
`DetailWhole` then turn each `Finish` into the whole handler, and every step before it
is a stutter (`LookUpsFind`): the theorems about `Spec` hold of `StepsSpec`.

### The clients

`Client_proofs` states once what the clients depend on. `Answered` is the contract of
an answer: only `AUTH_OK` changes whose session it is, what changes a table is
answered by a message on which a dashboard asks again, and a list that is sent is the
one on file (`Answers` proves it of every handler). `Serving`, `Reading`,
`Refreshing`, `WindowClicking` say what one step does to the two queues;
`Dashboards_proofs` adds what it does to the lists
(`Showing`, `RiderClicking`, `Paneling`, `OfficeClicking`). `Refreshing` is about
`FlattenSeq` over all dashboards, hidden ones too; `SequenceLemmas` proves what is
needed of it, and of `RemoveAt` and `RemoveFirst`, by a least counterexample, which
takes the place of the induction that the provers do not have.

*`BusInv == CInv /\ VInv /\ OInv /\ PInv`* is inductive with every fault
(`BusInvariance`): `CInv` is `IInv` with the types of the queues and what goes
together in a connection (`Linked`); `VInv` and `PInv` are the types of the lists,
that a rider's view has an owner exactly when a dashboard was opened, and that the
route selected is in the map. `OInv` is what `ShowsOwnTickets` needs: every list of
tickets under way is addressed to the user whose `AUTH_OK` will have been read last
when it is read (`TicketsAddressed`), and the session is that of the last such user
of all (`SessionOwned`). It survives restarts, after which an id may belong to
another account, because what a session is sent is never mixed with what another
connection was sent.

*Patient users.* `AInv` (`Alone`): what acts for a user is under way alone, from the
dashboard shown, so that it is handled on a session that is that dashboard's user's.
`RInv` (`Booked`): tickets and clients with a `RIDE` under way together are at most
as many as the clicks on dashboards of the account's name.

*Settled views.* A list is right when all is answered because of an invariant that
holds while it is not, `UpToDate`: the list is asked for; or an answer on its way
will make the dashboard ask; or the newest such list under way is right; or none is
under way and the one shown is right. `AnsweredStill` and `ReadStill` prove it once,
for any list, of any step at either end of the queues, and `PanelsInv` and `ListsInv`
instantiate it for the schedules, the tickets and the requests. The subscriptions
need more (`SubsInv`), since only those to routes in another list are shown: every
dashboard asks for the routes right before (`Paired`), so that the list of
subscriptions is answered behind a list of routes that has them all (`Covered`), and
routes closed since do no harm (`Matches`), as no id is given twice.

*What was asked for is on file.* Lists are compared by how often an element occurs
(`Alike`): a slot deleted on the dashboard goes from the row that was selected, and from
the first place in the history `wanted`. `QInv` has, for each name that is not `unsure`,
that the votes on file are those wanted unless a list is under way that was not sent
hastily (`FiledAsWanted`); that such a list is the next request of its client and
carries what is wanted (`SentAsWanted`); that what a rider's dashboard shows is up to
date, in the sense of `UpToDate` above, or its owner is `unsure` (`ListSure`). A click when
all is answered is made on the list on file (`KnowsList`), so that the one list changed
by one entry and the other changed by the same are `Alike` again (`ListSubmitted`). Every
other way for the two to part is one of the three that `RecordRequests` writes down:
`HandledRequests`, `ClickedRequests`, `LinkRequests` and `LossNextRequests` go through
them. A restart forgets accounts, wishes and the record together (`StartRequests`).

`WInv` says the same of the schedules of the first routes and `UPDATE_SCHEDULE`
(`FiledAsWished`, `SentAsWished`, `PanelSure`): the map that the panel edits and the table
agree when an informed click comes (`OfficeWishes`).

*The end of the application.* `DInv`: the rows of the list of trips are rows of the map's
schedule, unless a deletion has shortened the map and not yet the list (`RowsExist`). It
needs nothing of the server but types; `LossNextRows` goes through the clicks and
answers, of which only a deletion takes from the map alone.

### The names

`DestinationsAlwaysAgree` is about the two algorithms; the names typed only add pieces.
The server takes off some of the white space, in front; what the client's `trimmed`
makes of the rest is what it makes of the whole (`TrimTwice`, `ServerTrimmedFirst`), and
that is how they agree with an arrow. Without, `RemovalsAgree` says that removing each
`AUC`, as the client does, is removing the first, as the server does, if there is at
most one: `FlattenSeq` is followed place by place (`EachIsOne`, by the least place where
it would differ from `Kept`). `OtherStopTrimmed` says what becomes of `Other Stop`, which
the server puts in only if spaces and tabs were all there was.

### The connection

`HeaderRoundTrip` is that digits make up the number they were taken from, again by a
least counterexample. `FramingInv` says how bytes lie until pieces of two answers mix:
what the `Session` has read and what is under way to it are the frames of the requests
not yet answered (`UpLaid`), and buffer, bytes under way and the rest of a write, whether
it queues or rests between two pieces, are the frames of the answers not yet received
(`DownLaid`), where at most the last is cut (`Whole`, `Split`). Once they have mixed nothing
is claimed until the connection ends, after which the next one starts anew
(`MixedFraming`, `OnDisconnectedFraming`). On `Uncut`
connections they never do (`Unmixed`): a client that waits for several answers gets each
in one piece, as there is room for all of them. `BytesImplementChannel` then maps each
step to a step of `MessageChannel` or to a stutter: bytes moving are stutters, the last
byte of a body is `Serve`, the loop of `tryProcessBuffer` is `Receive`.

### Only model-checked

* Liveness (`Settles`, `ReconnectsWhileUp`, and that the channel of `ImplementsChannel`
  is fair): fairness and `ENABLED` are beyond the prover.

## 6. Not modelled

* Requests and answers whose body is no JSON or whose fields have the wrong JSON type;
  the end of the server, which the latter causes, is a fault of `BusSystem`.
* What a client reads from a connection on which the pieces of two answers have mixed.
* Wording, layout, stops and timestamps; the comparison of the two passwords typed to
  register, which only suppresses a request.
* The unit tests and the build files.

## 7. What is left

Every invariant and action property of a passing run is also a theorem, under the
hypotheses of the table in section 5. What remains is outside the prover's reach or
outside what the repository promises:

1. Liveness stays with TLC: `Settles`, `ReconnectsWhileUp`, the fairness of the channel.
2. `RequestsKept` and `ClientSurvives` are false, as `LostRequest` and `LostEdit` show;
   `RequestsSure`, `SchedulesSure` and `EndsOnSecondDeletion` say what is left of them. A
   change of the code that merges lists, or that disables the buttons while answers
   are missing, would allow to strike entries from the record of `Losses`.
3. The hazards without a property in `PROJECT.json` wait for a statement of what the
   program should do there.
