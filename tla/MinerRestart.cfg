\* A user who waits for each answer and starts the miner three times.
SPECIFICATION Spec
CONSTANTS
    Requests = {r1, r2, r3}
    Names = {a}
    WalletPids = {w1}
    MinerPids = {m1, m2, m3}
    None = None
INVARIANT OneMiner
CHECK_DEADLOCK FALSE
