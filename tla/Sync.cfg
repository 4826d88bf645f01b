CONSTANTS
  c1 = c1
  c2 = c2
  d1 = d1
  d2 = d2
  g = g
  a1 = a1
  a2 = a2
  a3 = a3
  x1 = x1
  x2 = x2
  NoHash = NoHash
  NoConn = NoConn
  Conn <- MCConn
  Gone <- MCGone
  host <- MCHost
  Hash <- MCHash
  Genesis = g
  prev_id <- MCPrev
  height_of <- MCHeight
  Worlds <- MCWorlds
  BlockSyncSize = 1
  MaxIds = 3
  NearBlocks = 1
  NSpans = 1
  QueueSize = 1
SPECIFICATION FairSpec
INVARIANTS  NoLeakedRequest NoSilentPeer NoStaleReservation  HeightsRight  FinalCondition
PROPERTIES  CatchesUp ImplementsDownload
