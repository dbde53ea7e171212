SPECIFICATION RiderSpec
CONSTANTS
  alice = alice
  bob = bob
  admin = admin
  empty = empty
  secret1 = secret1
  secret2 = secret2
  adminpw = adminpw
  abc = abc
  morning = morning
  afternoon = afternoon
  evening = evening
  university = university
  UserNames <- MCUserNames
  Passwords <- MCPasswords
  ShortPasswords <- MCShortPasswords
  RouteNames <- MCRouteNames
  RouteEnd <- MCRouteEnd
  Times <- MCTimes
  Destinations <- MCDestinations
  Morning = morning
  Afternoon = afternoon
  University = university
  EmptyText = empty
  AdminName = admin
  AdminPassword = adminpw
  SeedRoutes <- OneRoute
  Slots = {"Sun 07"}
  phone = phone
  office = office
  Sessions = {phone, office}
  Clients = {phone}
  Patient = {}
  Logins <- SharedPhone
  MaxClicks = 4
  MaxUsers = 3
  MaxRoutes = 1
  MaxTickets = 3
  Requests <- OfficeRequests
CHECK_DEADLOCK FALSE
INVARIANTS
  ClientTypeOK
  ViewTypeOK
  SettledViewsCurrent
  ShowsOwnTickets
