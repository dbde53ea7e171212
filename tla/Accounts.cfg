SPECIFICATION Spec
CONSTANTS
  alice = alice
  bob = bob
  admin = admin
  empty = empty
  secret1 = secret1
  secret2 = secret2
  adminpw = adminpw
  abc = abc
  morning = morning
  afternoon = afternoon
  evening = evening
  university = university
  UserNames <- MCUserNames
  Passwords <- MCPasswords
  ShortPasswords <- MCShortPasswords
  RouteNames <- MCRouteNames
  RouteEnd <- MCRouteEnd
  Times <- MCTimes
  Destinations <- MCDestinations
  Morning = morning
  Afternoon = afternoon
  University = university
  EmptyText = empty
  AdminName = admin
  AdminPassword = adminpw
  SeedRoutes <- MCSeedRoutes
  Slots = {"Sun 07", "Mon 07"}
  Sessions = {1, 2}
  MaxUsers = 3
  MaxRoutes = 3
  MaxTickets = 1
  Requests <- AccountRequests
INVARIANTS
  TypeOK
  AccountsUnambiguous
  DemandConserved
PROPERTIES
  Isolation
  OnlyAdminChangesRoutes
