SPECIFICATION Spec
CONSTANTS
  Tx <- ThreeTx
  KeyImage <- ThreeImages
  Block <- TreeBlock
  NoBlock = "none"
  vin <- ThreeVin
  ring <- ThreeRing
  tx_weight <- ThreeWeight
  fee <- ThreeFee
  Unrelayable = {}
  nic <- AnyFork
  txs <- BranchTxs
  MaxPoolWeight = 10
  MineStem = FALSE
  MedianWeight = 10
  Reserved = 1
  BaseReward = 100
  Genesis = "g"
  BadMinerTx = {}
  prev <- TreePrev
  height <- TreeHeight
  branch <- TreeBranch
  cumulative_difficulty <- TreeWork
  ForkHeight = 9
  OldVersion = 4
  NewVersion = 5
  IncomingRelay = {4}
  RelayedAs = {}
  Ops = {"template", "flush_invalid", "flush_txpool", "age"}
INVARIANTS
  RestartSucceeds
  WeightExact
  CacheFresh
  LastFailedSound
  PoolChainDisjoint
  ChainValid
  InvalidBlocksAreInvalid
  HeaviestChain
  SwitchIsAtomic
  TemplateMineable
