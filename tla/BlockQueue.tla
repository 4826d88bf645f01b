----------------------------- MODULE BlockQueue -----------------------------
(***************************************************************************)
(* The queue of blocks being downloaded, block_queue                       *)
(* (src/src/cryptonote_protocol/block_queue.cpp), as a record and one      *)
(* operator per method.  A queue q has                                     *)
(*   q.blocks     the std::set of spans, ordered and keyed by the start    *)
(*                height: a function from start heights to spans           *)
(*   q.requested  requested_hashes                                         *)
(*   q.have       have_blocks: hash -> height                              *)
(* A span has the connection it was reserved for or came from, its number  *)
(* of blocks, the hashes it was reserved for, and the blocks received for  *)
(* it (none while it is only scheduled).  A block is its hash.  Every      *)
(* method holds the queue's mutex from its first to its last line, so a    *)
(* method is one atomic operator.                                          *)
(***************************************************************************)
EXTENDS Integers, Sequences, FiniteSets, FiniteSetsExt

(* The back of a container.                                                *)
Last(s) == s[Len(s)]

EmptyQueue == [blocks |-> <<>>, requested |-> {}, have |-> <<>>]

Span(conn, n, hashes, bcel) ==
  [conn |-> conn, n |-> n, hashes |-> hashes, blocks |-> bcel]

Filled(s) == s.blocks # <<>>
Starts(q) == DOMAIN q.blocks
FirstStart(q) == CHOOSE h \in Starts(q) : \A g \in Starts(q) : h <= g
HashesOf(q, H) == UNION {Range(q.blocks[h].hashes) : h \in H}
Without(f, S) == [x \in DOMAIN f \ S |-> f[x]]
Put(f, k, v) == [x \in DOMAIN f \cup {k} |-> IF x = k THEN v ELSE f[x]]

(* erase_block on each span of H: its hashes leave both tables, even when  *)
(* another span lists them too.                                            *)
(* Mistake: the hashes stay in requested_hashes. *)
EraseKeepingRequested(q, H) ==
  [q EXCEPT !.blocks = Without(@, H), !.have = Without(@, HashesOf(q, H))]
erase_block(q, H) ==
  [blocks    |-> Without(q.blocks, H),
   requested |-> q.requested \ HashesOf(q, H),
   have      |-> Without(q.have, HashesOf(q, H))]

(* Mistake: only a flush of everything flushes. *)
FlushAllOnly(q, conn, all) ==
  erase_block(q, {h \in Starts(q) : q.blocks[h].conn = conn /\ all})
flush_spans(q, conn, all) ==
  erase_block(q, {h \in Starts(q) : /\ q.blocks[h].conn = conn
                                    /\ all \/ ~Filled(q.blocks[h])})

flush_stale_spans(q, live) ==
  erase_block(q, {h \in Starts(q) : /\ ~Filled(q.blocks[h])
                                    /\ q.blocks[h].conn \notin live})

remove_spans(q, conn, start) ==
  erase_block(q, {h \in Starts(q) : q.blocks[h].conn = conn /\ h <= start})

set_span_hashes(q, start, conn, hashes) ==
  IF start \in Starts(q) /\ q.blocks[start].conn = conn
  THEN LET r == erase_block(q, {start})
       IN [r EXCEPT
             !.blocks = Put(@, start, [q.blocks[start] EXCEPT !.hashes = hashes]),
             !.requested = @ \cup Range(hashes)]
  ELSE q

(* The height add_blocks records for x, one of the hashes of the span.     *)
(* Mistake: the places in the span are counted from one. *)
PlaceFromOne(hashes, height, x) == height + (CHOOSE i \in DOMAIN hashes : hashes[i] = x)
place(hashes, height, x) == height + (CHOOSE i \in DOMAIN hashes : hashes[i] = x) - 1

(* add_blocks for received blocks: whatever span starts at that height is  *)
(* replaced, whoever it was reserved for, and the hashes of that span are  *)
(* the ones recorded as received.                                          *)
add_blocks(q, height, bcel, conn) ==
  LET hashes == q.blocks[height].hashes
      r      == erase_block(q, {height} \cap Starts(q))
      filled == Put(r.blocks, height, Span(conn, Len(bcel), <<>>, bcel))
  IN IF height \notin Starts(q)
     THEN [r EXCEPT !.blocks = filled]
     ELSE set_span_hashes(
            [blocks    |-> filled,
             requested |-> r.requested \cup Range(hashes),
             have      |-> [x \in DOMAIN r.have \cup Range(hashes) |->
                              IF x \in DOMAIN r.have THEN r.have[x] ELSE place(hashes, height, x)]],
            height, conn, hashes)

(* add_blocks for a reservation: std::set::insert does nothing when a span *)
(* starts at that height already.                                          *)
add_scheduled(q, height, n, conn) ==
  IF height \in Starts(q)
  THEN q
  ELSE [q EXCEPT !.blocks = Put(@, height, Span(conn, n, <<>>, <<>>))]

(* get_next_needed_height: the first height from blockchain_height on that *)
(* the walk over the spans does not cover.                                 *)
(* Mistake: a gap before a span does not stop the walk. *)
NeededPastGaps(q, blockchain_height) ==
  Max({blockchain_height} \cup {h + q.blocks[h].n : h \in Starts(q)})
get_next_needed_height(q, blockchain_height) ==
  LET step(st, h) ==
        LET end == h + q.blocks[h].n
        IN IF st.done \/ end - 1 < blockchain_height
           THEN st
           ELSE IF h > st.covered
                THEN [st EXCEPT !.done = TRUE]
                ELSE [st EXCEPT !.covered = IF end > @ THEN end ELSE @]
      walk[h \in Nat] ==   \* after the spans that start below h
        IF h = 0
        THEN [done |-> FALSE, covered |-> blockchain_height]
        ELSE IF h - 1 \in Starts(q) THEN step(walk[h - 1], h - 1) ELSE walk[h - 1]
  IN IF Starts(q) = {} THEN blockchain_height ELSE walk[Max(Starts(q)) + 1].covered

(* reserve_span: skip what is requested already at the front of the hashes *)
(* the connection still needs, reserve up to max of the rest.  The answer  *)
(* has the new queue, the start and the length (0: nothing reserved).      *)
NumRequested(q, needed) ==
  Cardinality({i \in DOMAIN needed : \A j \in 1..i : needed[j] \in q.requested})
NoSpan(q) == [q |-> q, start |-> 0, n |-> 0]
(* Mistake: one block fewer than the limit. *)
ReserveOneLess(q, last, max, conn, needed) ==
  LET first == last - Len(needed) + 1
      k     == NumRequested(q, needed)
      start == first + k
      n     == Min({max - 1, Len(needed) - k})
      hs    == SubSeq(needed, k + 1, k + n)
  IN IF last < first \/ max = 0 \/ Len(needed) > last \/ n = 0
     THEN NoSpan(q)
     ELSE [q |-> set_span_hashes(add_scheduled(q, start, n, conn), start, conn, hs),
           start |-> start, n |-> n]
reserve_span(q, last, max, conn, needed) ==
  LET first == last - Len(needed) + 1
      k     == NumRequested(q, needed)
      start == first + k
      n     == Min({max, Len(needed) - k})
      hs    == SubSeq(needed, k + 1, k + n)
  IN IF last < first \/ max = 0 \/ Len(needed) > last \/ n = 0
     THEN NoSpan(q)
     ELSE [q |-> set_span_hashes(add_scheduled(q, start, n, conn), start, conn, hs),
           start |-> start, n |-> n]

(* get_next_span_if_scheduled succeeds when the first span has no blocks.  *)
next_span_scheduled(q) ==
  Starts(q) # {} /\ ~Filled(q.blocks[FirstStart(q)])

(* get_next_span with filled = true: the start of the first received span, *)
(* not necessarily the first span, as a set (empty when it returns false). *)
FilledStarts(q) == {h \in Starts(q) : Filled(q.blocks[h])}
get_next_span(q) == {h \in FilledStarts(q) : \A g \in FilledStarts(q) : h <= g}

(* has_next_span: the first span starts no later than height.              *)
has_next_span(q, height) == Starts(q) # {} /\ FirstStart(q) <= height

get_num_filled_spans(q) == Cardinality(FilledStarts(q))

(* get_data_size, counted in blocks.                                       *)
get_data_size(q) ==
  MapThenSumSet(LAMBDA h : Len(q.blocks[h].blocks), Starts(q))
=============================================================================
