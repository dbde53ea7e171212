SPECIFICATION BusSpec
CONSTANTS
  alice = alice
  bob = bob
  admin = admin
  empty = empty
  secret1 = secret1
  secret2 = secret2
  adminpw = adminpw
  abc = abc
  morning = morning
  afternoon = afternoon
  evening = evening
  university = university
  UserNames <- MCUserNames
  Passwords <- MCPasswords
  ShortPasswords <- MCShortPasswords
  RouteNames <- MCRouteNames
  RouteEnd <- MCRouteEnd
  Times <- MCTimes
  Destinations <- MCDestinations
  Morning = morning
  Afternoon = afternoon
  University = university
  EmptyText = empty
  AdminName = admin
  AdminPassword = adminpw
  SeedRoutes <- OneRoute
  Slots = {"Sun 07"}
  TypedRoutes = {"AUC -> Zayed"}
  TypedTrips <- LateTrip
  BarredSlots = {}
  phone = phone
  desk = desk
  office = office
  other = other
  Sessions = {phone, other}
  Clients = {phone}
  Patient = {phone}
  Logins <- MCLogins
  MaxClicks = 4
  MaxFaults = 2
  MaxUsers = 3
  MaxRoutes = 5
  MaxTickets = 5
  Requests <- OtherRequests
CHECK_DEADLOCK FALSE
INVARIANTS
  ChargedAsBooked
PROPERTIES
  NamedDashboardsOnly
  ReconnectsWhileUp
  Settles
