------------------------------- MODULE MCNode -------------------------------
(***************************************************************************)
(* Small instances of Node: the transactions, the tree of blocks and what  *)
(* the blocks hold.                                                        *)
(***************************************************************************)
EXTENDS Node, TLC

(* Two branches from the genesis block; the second one splits again.  a1   *)
(* and b1 have the same work; then c2, a2 and b2 each have more than the   *)
(* one before, so that the chain can switch over and back.                 *)
TreeBlock == {"g", "a1", "a2", "b1", "b2", "c2"}
TreePrev == [a1 |-> "g", a2 |-> "a1", b1 |-> "g", b2 |-> "b1", c2 |-> "b1"]
TreeHeight == [g |-> 0, a1 |-> 1, a2 |-> 2, b1 |-> 1, b2 |-> 2, c2 |-> 2]
TreeBranch == [g |-> <<"g">>, a1 |-> <<"g", "a1">>, a2 |-> <<"g", "a1", "a2">>,
               b1 |-> <<"g", "b1">>, b2 |-> <<"g", "b1", "b2">>,
               c2 |-> <<"g", "b1", "c2">>]
TreeWork == [g |-> 1, a1 |-> 3, b1 |-> 3, c2 |-> 5, a2 |-> 6, b2 |-> 8]

(* t1 and t2 spend the same key image, in different branches; t3 spends an *)
(* output made in a1, which b2 ignores: a switch to b2 fails half way.     *)
ThreeTx == {"t1", "t2", "t3"}
ThreeImages == {"k1", "k2", "k3"}
ThreeVin == [t1 |-> <<"k3", "k1">>, t2 |-> <<"k1">>, t3 |-> <<"k2">>]
ThreeRing == [t1 |-> {}, t2 |-> {}, t3 |-> {"a1"}]
ThreeWeight == [t1 |-> 2, t2 |-> 1, t3 |-> 1]
ThreeFee == [t1 |-> 6, t2 |-> 1, t3 |-> 2]
BranchTxs == [g |-> <<>>, a1 |-> <<"t1">>, a2 |-> <<"t3">>,
              b1 |-> <<"t2">>, b2 |-> <<"t3">>, c2 |-> <<>>]
AnyFork == (4 :> ThreeTx) @@ (5 :> ThreeTx)

(* t1 and t3 fit into a template; t2 and t3 together are above its limit;  *)
(* t2 alone lowers the reward by less than the rounding to a float.        *)
HeavyWeight == [t1 |-> 2, t2 |-> 6, t3 |-> 2]
HeavyFee == [t1 |-> 2, t2 |-> 8388609, t3 |-> 3]

(* One block against one other block, of more work, with the conflicting   *)
(* transaction.                                                            *)
ForkBlock == {"g", "a1", "b1"}
ForkPrev == [a1 |-> "g", b1 |-> "g"]
ForkTreeHeight == [g |-> 0, a1 |-> 1, b1 |-> 1]
ForkBranch == [g |-> <<"g">>, a1 |-> <<"g", "a1">>, b1 |-> <<"g", "b1">>]
ForkWork == [g |-> 1, a1 |-> 2, b1 |-> 3]
ForkTxs == [g |-> <<>>, a1 |-> <<"t1">>, b1 |-> <<"t2">>]
NoRing == [t1 |-> {}, t2 |-> {}, t3 |-> {}]

(* t3 is only allowed from the new version on, and is in a2, the first     *)
(* block of that version.                                                  *)
NewRules == (4 :> {"t1", "t2"}) @@ (5 :> ThreeTx)

(* a2 holds two transactions that spend the same key image.                *)
ClashTxs == [g |-> <<>>, a1 |-> <<"t3">>, a2 |-> <<"t1", "t2">>,
             b1 |-> <<>>, b2 |-> <<>>, c2 |-> <<>>]
=============================================================================
