------------------------------- MODULE MCSync -------------------------------
(* A small instance of Sync. *)
EXTENDS Sync, TLC

CONSTANTS c1, c2, d1, d2, g, a1, a2, a3, x1, x2

MCConn == {c1, c2}
MCGone == (c1 :> d1) @@ (c2 :> d2)
MCHost == (c1 :> 1) @@ (d1 :> 1) @@ (c2 :> 2) @@ (d2 :> 2)
MCHash == {g, a1, a2, a3, x1, x2}
MCPrev == (a1 :> g) @@ (a2 :> a1) @@ (a3 :> a2) @@ (x1 :> g) @@ (x2 :> a1)
MCHeight == (g :> 0) @@ (a1 :> 1) @@ (a2 :> 2) @@ (a3 :> 3) @@ (x1 :> 1) @@ (x2 :> 2)
(* The peers' chains, the number of times a peer may be late or close the  *)
(* connection, and the blocks that fail to be prepared or to be verified.  *)
World(s, t, n, u, i) ==
  [chain |-> (c1 :> s) @@ (c2 :> t), timeouts |-> n, unprepared |-> u, invalid |-> i]
Invalid    == World(<<g, a1, a2>>, <<g, a1, x2>>, 0, {}, {x2})
Unprepared == World(<<g, a1, a2>>, <<g, a1, x2>>, 0, {x2}, {})
Fork       == World(<<g, x1>>, <<g, a1, a2>>, 0, {}, {})
Late       == World(<<g, a1>>, <<g, a1>>, 1, {}, {})
Behind     == World(<<g, a1, a2>>, <<g, a1>>, 1, {}, {})
Longer     == World(<<g, a1, a2, a3>>, <<g, a1>>, 0, {}, {})
Alone      == World(<<g, a1, a2, a3>>, <<g>>, 2, {}, {})
MCWorlds == {Invalid, Unprepared, Fork, Late, Behind, Longer, Alone}

(* Two peers with the same chain; nothing fails and nobody is late.        *)
Same       == World(<<g, a1, a2, a3>>, <<g, a1, a2, a3>>, 0, {}, {})
SameWorlds == {Same}
=============================================================================
