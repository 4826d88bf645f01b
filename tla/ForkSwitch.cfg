SPECIFICATION FairSpec
CONSTANTS
  Tx <- ThreeTx
  KeyImage <- ThreeImages
  Block <- TreeBlock
  NoBlock = "none"
  vin <- ThreeVin
  ring <- ThreeRing
  tx_weight <- ThreeWeight
  fee <- ThreeFee
  Unrelayable = {}
  nic <- NewRules
  txs <- BranchTxs
  MaxPoolWeight = 10
  MineStem = FALSE
  MedianWeight = 10
  Reserved = 1
  BaseReward = 100
  Genesis = "g"
  BadMinerTx = {"c2"}
  prev <- TreePrev
  height <- TreeHeight
  branch <- TreeBranch
  cumulative_difficulty <- TreeWork
  ForkHeight = 2
  OldVersion = 4
  NewVersion = 5
  IncomingRelay = {4}
  RelayedAs = {}
  Ops = {}
INVARIANTS
  SwitchLosesNoTx
PROPERTIES
  PurgedAtFork
  HandlersTerminate
