SPECIFICATION Spec
CONSTANTS
  Tx <- ThreeTx
  KeyImage <- ThreeImages
  Block <- ForkBlock
  NoBlock = "none"
  vin <- ThreeVin
  ring <- NoRing
  tx_weight <- HeavyWeight
  fee <- HeavyFee
  Unrelayable = {}
  nic <- AnyFork
  txs <- ForkTxs
  MaxPoolWeight = 8
  MineStem = TRUE
  MedianWeight = 4
  Reserved = 1
  BaseReward = 33554437
  Genesis = "g"
  BadMinerTx = {}
  prev <- ForkPrev
  height <- ForkTreeHeight
  branch <- ForkBranch
  cumulative_difficulty <- ForkWork
  ForkHeight = 0
  OldVersion = 4
  NewVersion = 5
  IncomingRelay = {0, 1, 2, 3, 4}
  RelayedAs = {1, 3, 4}
  Ops = {"template", "restart", "pop_blocks"}
INVARIANTS
  SortedMatchesPool
  WeightCoversPool
  PoolBounded
  TemplateMineable
  TemplatePays
PROPERTIES
  RelayNeverDowngraded
