SPECIFICATION FairSpec
CONSTANTS
  c1 = c1
  c2 = c2
  Clients <- MCClients
  Feeds <- MCFeeds
  BufferMax = 2
  PendingMax = 2
  StoreMax = 2
  MaxSessions = 3
  MaxDrops = 1
  MaxOffs = 1
INVARIANTS TypeOK OncePerEvent Accounted NothingStranded OffAirUnheard
PROPERTIES ResumesInStep EveryMessageSettles
CHECK_DEADLOCK FALSE
