SPECIFICATION CacheSpec
CONSTANTS
  Tx <- ThreeTx
  KeyImage <- ThreeImages
  Block <- ForkBlock
  NoBlock = "none"
  vin <- ThreeVin
  ring <- NoRing
  tx_weight <- ThreeWeight
  fee <- ThreeFee
  Unrelayable = {}
  nic <- AnyFork
  txs <- ForkTxs
  MaxPoolWeight = 10
  MineStem = FALSE
  MedianWeight = 10
  Reserved = 1
  BaseReward = 100
  Genesis = "g"
  BadMinerTx = {}
  prev <- ForkPrev
  height <- ForkTreeHeight
  branch <- ForkBranch
  cumulative_difficulty <- ForkWork
  ForkHeight = 9
  OldVersion = 4
  NewVersion = 5
  IncomingRelay = {4}
  RelayedAs = {}
  Ops = {"age", "flush_txpool", "pop_blocks", "restart", "template"}
INVARIANTS
  CachedTemplateMineable
  TypeOK
  KeyImagesMatchPool
  TimedOutOnlyKept
