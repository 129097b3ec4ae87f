SPECIFICATION Spec
CONSTANTS
  UserPrograms = {"p1", "p2"}
  Names = {"u1", "u2"}
  UserOps = {"add", "del", "passwd", "quota"}
  PerLevel = 2
  UserDeletions = 1
  UserKills = 1
  Hosts <- MCHosts
  Quotas <- MCQuotas
  Addresses <- MCAddresses
  Moderations <- MCModerations
  Lists <- MCLists
  f1 = f1
  f2 = f2
  f3 = f3
CHECK_DEADLOCK FALSE
INVARIANTS
  UsersAsSaid
  DomainsAsSaid
  QuotaHolds
PROPERTIES
  BouncesCounted
  ModerationDecides
  
  ListsFollow
