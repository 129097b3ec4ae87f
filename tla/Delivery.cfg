SPECIFICATION Spec
CONSTANTS
  Maildirs <- MCMaildirs
  BoxUsers = {"d1", "d2", "d3"}
  NoUser = "none"
  BoxTroubles = 2
  Networks <- MCNetworks
  Tables <- MCTables
  Remotes <- MCRemotes
CHECK_DEADLOCK FALSE
INVARIANTS
  
  ForwardsBounded
  RemoteTells
  DotsAgree
PROPERTIES
  SilentHostsRest
  DeliveriesEnd
