SPECIFICATION TabsSpec
CONSTANTS
  ann = ann
  bob = bob
  tracker = tracker
  portal = portal
  book = book
  map = map
  users = users
  Home = Home
  Login = Login
  Sso = Sso
  Nobody = Nobody
  Nowhere = Nowhere
  NoApp = NoApp
  Users = {ann, bob}
  Staff = {ann}
  Pages = {Home, book, map, users}
  StaffPages = {users}
  Deployments <- AllKinds
  MaxShipments = 1
  MaxMoves = 3
  Apps = {tracker, portal}
  AdminOnly = {portal}
  Grants <- BobMayTrack
  AppOf <- AppOfPage
  BasePath <- FrontDoors
  SavedLists <- EarlierVisits
  OtherLists = {}
CHECK_DEADLOCK FALSE
INVARIANT TabsPersist
