------------------------------ MODULE Download ------------------------------
(***************************************************************************)
(* What synchronisation promises about each block, however many peers it   *)
(* downloads from: a block is asked for, received and then added, after    *)
(* its parent; before it is added it may be lost again, once added it      *)
(* stays; the main chain only moves to a higher block.                     *)
(***************************************************************************)
EXTENDS Naturals

CONSTANTS Hash, Genesis, prev_id, height_of

VARIABLES stage, top   \* stage of each block; last block of the main chain

Stages == {"missing", "asked", "received", "added"}

Init ==
  /\ stage = [h \in Hash |-> IF h = Genesis THEN "added" ELSE "missing"]
  /\ top = Genesis

(* A request reserves missing blocks.                                      *)
Ask ==
  /\ \A h \in Hash : stage'[h] # stage[h] => stage[h] = "missing" /\ stage'[h] = "asked"
  /\ UNCHANGED top

(* An answer.  A block it replaces in the queue is lost, and may be listed *)
(* as asked for all the same: the span at that height keeps its hashes.    *)
Receive ==
  /\ \A h \in Hash : stage'[h] # stage[h] =>
       \/ stage[h] \in {"missing", "asked"} /\ stage'[h] = "received"
       \/ stage[h] \in {"asked", "received"} /\ stage'[h] \in {"missing", "asked"}
  /\ UNCHANGED top

(* A peer is late, gone or wrong: what it was asked or gave may be lost.   *)
Lose ==
  /\ \A h \in Hash : stage'[h] # stage[h] =>
       stage[h] \in {"asked", "received"} /\ stage'[h] = "missing"
  /\ UNCHANGED top

Add(h) ==
  /\ stage[h] = "received" /\ stage[prev_id[h]] = "added"
  /\ stage' = [stage EXCEPT ![h] = "added"]
  /\ top' = IF height_of[h] > height_of[top] THEN h ELSE top

Next == Ask \/ Receive \/ Lose \/ \E h \in Hash \ {Genesis} : Add(h)
Spec == Init /\ [][Next]_<<stage, top>>
=============================================================================
