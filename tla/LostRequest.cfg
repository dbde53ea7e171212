SPECIFICATION RiderSpec
CONSTANTS
  alice = alice
  bob = bob
  admin = admin
  empty = empty
  secret1 = secret1
  secret2 = secret2
  adminpw = adminpw
  abc = abc
  morning = morning
  afternoon = afternoon
  evening = evening
  university = university
  UserNames <- MCUserNames
  Passwords <- MCPasswords
  ShortPasswords <- MCShortPasswords
  RouteNames <- MCRouteNames
  RouteEnd <- MCRouteEnd
  Times <- MCTimes
  Destinations <- MCDestinations
  Morning = morning
  Afternoon = afternoon
  University = university
  EmptyText = empty
  AdminName = admin
  AdminPassword = adminpw
  SeedRoutes <- MCSeedRoutes
  Slots = {"Sun 07", "Mon 07"}
  phone = phone
  office = office
  Sessions = {phone}
  Clients = {phone}
  Patient = {}
  Logins <- OneAccount
  MaxClicks = 3
  MaxUsers = 2
  MaxRoutes = 3
  MaxTickets = 4
  Requests <- OfficeRequests
CHECK_DEADLOCK FALSE
INVARIANTS
  RequestsKept
