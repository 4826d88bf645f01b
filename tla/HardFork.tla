------------------------------ MODULE HardFork ------------------------------
(***************************************************************************)
(* HardFork (src/src/cryptonote_basic/hardfork.cpp): which block version   *)
(* is in force, as blocks are added and popped, through chain switches and *)
(* restarts.  Forks is the vector heights, counted from 1; a block is its  *)
(* major version and its vote.                                             *)
(***************************************************************************)
EXTENDS Integers, Sequences, FiniteSets, FiniteSetsExt

CONSTANTS
  Forks,            \* heights: sequence of [version, height, threshold]
  original_version,
  window_size,
  Votes,            \* votes (minor versions) blocks may carry
  MaxHeight         \* bound on the height of the chain

(* The order add_fork enforces.                                            *)
ASSUME ForkAssumption ==
  /\ Forks \in Seq([version : Nat \ {0}, height : Nat, threshold : 0..100])
  /\ Forks # <<>>
  /\ \A m, n \in DOMAIN Forks :
       m < n => /\ Forks[m].version < Forks[n].version
                /\ Forks[m].height < Forks[n].height
  /\ original_version \in 1..Forks[1].version
  /\ window_size \in Nat \ {0}
  /\ Votes \subseteq Nat \ {0}
  /\ MaxHeight \in Nat

Version == 1..Forks[Len(Forks)].version
ChainBlock == [version : Version, vote : Nat]
Genesis == [version |-> Forks[1].version, vote |-> Forks[1].version]

VARIABLES
  chain,              \* blocks of the main chain; chain[h + 1] has height h
  hf_versions,        \* the database table, which pops leave alone
  versions,           \* the window of effective votes
  last_versions,      \* how often each version is in the window
  current_fork_index,
  switch,             \* the stage of the chain switch under way
  split,              \* the chain height the switch goes back to
  redo                \* height reorganize_from_block_height adds next, or 0

vars == <<chain, hf_versions, versions, last_versions, current_fork_index,
          switch, split, redo>>
db == <<chain, hf_versions>>

-----------------------------------------------------------------------------
(* The back of a deque and what pop_back leaves.                           *)
Last(s) == s[Len(s)]
Front(s) == SubSeq(s, 1, Len(s) - 1)

get_effective_version(vote) ==
  IF vote > Forks[Len(Forks)].version THEN Forks[Len(Forks)].version ELSE vote

Threshold(n) == (window_size * Forks[n].threshold + 99) \div 100

(* accumulated_votes when the loop reaches n.                              *)
Accumulated(n, counts) ==
  MapThenSumSet(LAMBDA m : counts[Forks[m].version], n..Len(Forks))

get_voted_fork_index(h, counts, current) ==
  LET voted == {n \in DOMAIN Forks : /\ h >= Forks[n].height
                                     /\ Accumulated(n, counts) >= Threshold(n)}
  IN  IF voted = {} THEN current ELSE Max(voted)

Raise(index, voted) == IF voted > index THEN voted ELSE index

get_current_version == Forks[current_fork_index].version

do_check(b) ==
  b.version = get_current_version /\ b.vote >= get_current_version

(* Mistake: the version in force at the top is asked for.                  *)
do_check_at_top(b, h) == do_check(b)

do_check_for_height(b, h) ==
  LET v == Forks[get_voted_fork_index(h, last_versions,
                                      current_fork_index)].version
  IN  b.version = v /\ b.vote >= v

(* The loop stops at n > 0: the first entry of the table is never looked   *)
(* at.                                                                     *)
get_ideal_version(h) ==
  LET reached == {n \in 2..Len(Forks) : h >= Forks[n].height}
  IN  IF reached = {} THEN original_version ELSE Forks[Max(reached)].version

-----------------------------------------------------------------------------
Count(s) == [v \in Version |-> Cardinality({i \in DOMAIN s : s[i] = v})]

(* Mistake: the version in force after the block is written for it.        *)
WrittenLate(index, raised) == Forks[raised].version

WrittenVersion(index, raised) == Forks[index].version

(* Mistake: nothing leaves the window.                                     *)
DroppedNone(s) == 0

(* How many entries leave the window to make room for one.                 *)
Dropped(s) == Max({0, Len(s) - window_size + 1})

(* add: refused, or written to the table and to the window, whose oldest   *)
(* entries leave it, before the votes are counted for the next height.     *)
Add(b, h) ==
  IF ~ do_check(b)
  THEN UNCHANGED <<hf_versions, versions, last_versions, current_fork_index>>
  ELSE LET vote == get_effective_version(b.vote)
           drop == Dropped(versions)
           out  == Count(SubSeq(versions, 1, drop))
       IN  /\ versions' = Append(SubSeq(versions, drop + 1, Len(versions)), vote)
           /\ last_versions' =
                [v \in Version |-> last_versions[v] - out[v]
                                     + IF v = vote THEN 1 ELSE 0]
           /\ current_fork_index' =
                Raise(current_fork_index,
                      get_voted_fork_index(h + 1, last_versions',
                                           current_fork_index))
           /\ hf_versions' = [n \in 1..Max({Len(hf_versions), h + 1}) |->
                IF n = h + 1
                THEN WrittenVersion(current_fork_index, current_fork_index')
                ELSE hf_versions[n]]

EffectiveVotes(from, to) ==
  [i \in 1..(to - from + 1) |-> get_effective_version(chain[from + i].vote)]

(* What init and rescan_from_block_height make of the database.            *)
InitFrom == IF Len(chain) > window_size THEN Len(chain) - window_size ELSE 0

InitVersions == EffectiveVotes(InitFrom, Len(chain) - 1)

(* Mistake: the votes for the next height are not counted.                 *)
InitIndexUnvoted ==
  LET found == {n \in DOMAIN Forks : Forks[n].version = hf_versions[Len(chain)]}
  IN  Min(found \cup {Len(Forks)})

InitIndex ==
  LET found == {n \in DOMAIN Forks : Forks[n].version = hf_versions[Len(chain)]}
      first == Min(found \cup {Len(Forks)})
  IN  Raise(first, get_voted_fork_index(Len(chain), Count(InitVersions), first))

-----------------------------------------------------------------------------
Quiet == redo = 0

(* BlockchainDB::add_block: a block on top of the chain, after             *)
(* handle_block_to_main_chain has checked its version.                     *)
AddBlock(b) ==
  /\ Quiet
  /\ switch \in {"none", "connect", "restore"}
  /\ Len(chain) < MaxHeight
  /\ do_check(b)
  /\ chain' = Append(chain, b)
  /\ Add(b, Len(chain))
  /\ UNCHANGED <<switch, split, redo>>

(* Mistake: the version that leaves the window is still counted.           *)
on_block_popped_miscounts ==
  LET n == Len(chain) - 1
      v == hf_versions[n + 1]
  IN  /\ versions' = <<v>> \o Front(versions)
      /\ last_versions' = [last_versions EXCEPT ![v] = @ + 1]
      /\ current_fork_index' =
           Max({1} \cup {m \in DOMAIN Forks : n >= Forks[m].height})

(* on_block_popped(1): the vote of the popped block leaves the back of the *)
(* window, and its version enters the front.                               *)
on_block_popped ==
  LET n   == Len(chain) - 1
      v   == hf_versions[n + 1]
      out == Last(versions)
  IN  /\ versions' = <<v>> \o Front(versions)
      /\ last_versions' = [last_versions EXCEPT ![out] = @ - 1, ![v] = @ + 1]
      /\ current_fork_index' =
           Max({1} \cup {m \in DOMAIN Forks : n >= Forks[m].height})

(* pop_block_from_blockchain: by pop_blocks, or to go back to the split.   *)
PopBlock ==
  /\ Quiet
  /\ \/ switch = "none" /\ Len(chain) > 1
     \/ switch \in {"disconnect", "rollback"} /\ Len(chain) > split
  /\ chain' = Front(chain)
  /\ on_block_popped
  /\ UNCHANGED <<hf_versions, switch, split, redo>>

(* Mistake: the fork in force is not taken back.                           *)
reorganize_keeps_fork(n) ==
  LET from == IF n > window_size THEN n - window_size ELSE 0
  IN  /\ versions' = EffectiveVotes(from, n - 1)
      /\ last_versions' = Count(versions')
      /\ current_fork_index' =
           Raise(current_fork_index,
                 get_voted_fork_index(n, last_versions', current_fork_index))
      /\ redo' = IF n < Len(chain) THEN n ELSE 0

(* reorganize_from_chain_height(n), up to the loop that adds the blocks    *)
(* from height n on again.                                                 *)
reorganize_from_chain_height(n) ==
  LET from  == IF n > window_size THEN n - window_size ELSE 0
      start == IF n = 1 THEN original_version ELSE hf_versions[n]
      low   == Max({1} \cup {m \in 1..current_fork_index :
                               Forks[m].version <= start})
  IN  /\ versions' = EffectiveVotes(from, n - 1)
      /\ last_versions' = Count(versions')
      /\ current_fork_index' =
           Raise(low, get_voted_fork_index(n, last_versions', low))
      /\ redo' = IF n < Len(chain) THEN n ELSE 0

(* A turn of that loop.                                                    *)
AddAgain ==
  /\ redo # 0
  /\ Add(chain[redo + 1], redo)
  /\ redo' = IF redo + 1 < Len(chain) THEN redo + 1 ELSE 0
  /\ UNCHANGED <<chain, switch, split>>

-----------------------------------------------------------------------------
(* switch_to_alternative_blockchain and rollback_blockchain_switching, as  *)
(* far as the hard fork object sees them.                                  *)

BeginSwitch(n) ==
  /\ Quiet /\ switch = "none"
  /\ n < Len(chain)
  /\ split' = n
  /\ switch' = "disconnect"
  /\ UNCHANGED <<db, versions, last_versions, current_fork_index, redo>>

Disconnected ==
  /\ switch = "disconnect"
  /\ Len(chain) = split
  /\ switch' = "connect"
  /\ UNCHANGED <<db, versions, last_versions, current_fork_index, split, redo>>

(* A block of the alternative chain is refused.                            *)
BeginRollback ==
  /\ Quiet /\ switch = "connect"
  /\ switch' = "rollback"
  /\ UNCHANGED <<db, versions, last_versions, current_fork_index, split, redo>>

RolledBack ==
  /\ Quiet /\ switch = "rollback"
  /\ Len(chain) = split
  /\ switch' = "restore"
  /\ reorganize_from_chain_height(split)
  /\ UNCHANGED <<db, split>>

EndSwitch ==
  /\ Quiet /\ switch \in {"connect", "restore"}
  /\ switch' = "none"
  /\ split' = 0
  /\ reorganize_from_chain_height(split)
  /\ UNCHANGED db

(* A block of the original chain is refused: the rollback ends there.      *)
RestoreFails ==
  /\ Quiet /\ switch = "restore"
  /\ switch' = "none"
  /\ split' = 0
  /\ UNCHANGED <<db, versions, last_versions, current_fork_index, redo>>

(* The daemon restarts: Blockchain::init calls HardFork::init.             *)
Restart ==
  /\ Quiet /\ switch = "none"
  /\ versions' = InitVersions
  /\ last_versions' = Count(InitVersions)
  /\ current_fork_index' = InitIndex
  /\ UNCHANGED <<db, switch, split, redo>>

Init ==
  /\ chain = <<Genesis>>
  /\ hf_versions = <<Genesis.version>>
  /\ versions = <<Genesis.version>>
  /\ last_versions = Count(<<Genesis.version>>)
  /\ current_fork_index =
       Raise(1, get_voted_fork_index(1, Count(<<Genesis.version>>), 1))
  /\ switch = "none"
  /\ split = 0
  /\ redo = 0

Next ==
  \/ \E vote \in Votes :
       AddBlock([version |-> get_current_version, vote |-> vote])
  \/ PopBlock
  \/ AddAgain
  \/ \E n \in 1..MaxHeight : BeginSwitch(n)
  \/ Disconnected
  \/ BeginRollback
  \/ RolledBack
  \/ EndSwitch
  \/ RestoreFails
  \/ Restart

Spec == Init /\ [][Next]_vars

-----------------------------------------------------------------------------
(* Every variable has its type; no count is negative and the window never  *)
(* grows past its size.                                                    *)
TypeOK ==
  /\ chain \in Seq(ChainBlock) /\ Len(chain) >= 1
  /\ hf_versions \in Seq(Version) /\ Len(hf_versions) >= Len(chain)
  /\ versions \in Seq(Version) /\ Len(versions) \in 1..window_size
  /\ last_versions \in [Version -> Nat]
  /\ current_fork_index \in DOMAIN Forks
  /\ switch \in {"none", "disconnect", "connect", "rollback", "restore"}
  /\ split \in 0..MaxHeight
  /\ redo \in 0..MaxHeight

(* The counts the votes are read from are those of the window, whatever    *)
(* was added, popped and rescanned: add asserts that the version it drops  *)
(* was counted.                                                            *)
CountsMatchWindow == last_versions = Count(versions)

(* The index of the fork scheduled for a height.                           *)
ScheduledIndex(h) == Max({1} \cup {n \in DOMAIN Forks : h >= Forks[n].height})

NoVoting == \A n \in DOMAIN Forks : Forks[n].threshold = 0

(* Without voting the version in force is the one scheduled for the next   *)
(* height, also half way through a switch and when it is rolled back.      *)
CurrentIsScheduled ==
  NoVoting =>
    current_fork_index = ScheduledIndex(IF redo = 0 THEN Len(chain) ELSE redo)

(* The table has the version of every block of the chain, although a pop   *)
(* leaves its entry behind for the block that comes next.                  *)
TableMatchesChain ==
  NoVoting => \A i \in DOMAIN chain : hf_versions[i] = chain[i].version

(* A restart finds the version that was in force before it.                *)
RestartKeepsVersion == NoVoting /\ Quiet => InitIndex = current_fork_index

(* A block the main chain took at a height is one check_for_height takes   *)
(* for that height, so a block that is disconnected can come back as an    *)
(* alternative block.                                                      *)
AltCheckAgrees ==
  NoVoting /\ Quiet =>
    \A i \in 2..Len(chain) : do_check_for_height(chain[i], i - 1)

(* get_ideal_version(height) gives, for the next height, the version in    *)
(* force there: there are no version 1 blocks on a chain that starts at    *)
(* version 12.                                                             *)
IdealIsScheduled ==
  get_ideal_version(Len(chain)) = Forks[ScheduledIndex(Len(chain))].version
=============================================================================
