---------------------------- MODULE TemplateCache ----------------------------
(***************************************************************************)
(* The template Blockchain::create_block_template keeps and hands out      *)
(* again (m_btc, blockchain.cpp), beside everything the node does.  Two    *)
(* tests guard it: the pool's cookie is the one of the time it was made,   *)
(* and the top block is the one it extends.                                *)
(***************************************************************************)
EXTENDS Node

VARIABLE
  btc  \* m_btc

cache_vars == <<vars, btc>>

(* The cookie is a counter that is only compared for equality, so what is  *)
(* kept of m_btc_pool_cookie is whether the pool's cookie is still it.     *)
NoTemplate == [valid |-> FALSE, same_cookie |-> FALSE, prev_id |-> Genesis,
               hashes |-> <<>>, weight |-> 0]

CacheInit == Init /\ btc = NoTemplate

(* ++m_cookie, wherever the pool gains or loses an entry or a key image,   *)
(* or an entry is marked as double spent.  Aborting a batch takes the      *)
(* table back and leaves the cookie alone; so do set_relayed and the       *)
(* caches of the template.                                                 *)
Marked(p) == {id \in DOMAIN p.db : p.db[id].double_spend_seen}

CookieBumped ==
  /\ ~ (batch.on /\ ~ batch'.on)
  /\ \/ DOMAIN pool'.db # DOMAIN pool.db
     \/ pool'.images # pool.images
     \/ Marked(pool') # Marked(pool)

(* Mistake: the cookie is not compared.                                    *)
CacheHitAnyCookie == btc.valid /\ btc.prev_id = Last(chain)

(* The cached template is handed out again, to the address and nonce it    *)
(* was made for.                                                           *)
CacheHit == btc.valid /\ btc.same_cookie /\ btc.prev_id = Last(chain)

(* create_block_template without a usable template: fill_block_template,   *)
(* then cache_block_template with the cookie as it is then.                *)
CacheTemplate ==
  LET t == fill_block_template(pool, chain, Version)
  IN  /\ ~ CacheHit
      /\ CreateBlockTemplate
      /\ btc' = [valid |-> TRUE, same_cookie |-> TRUE, prev_id |-> Last(chain),
                 hashes |-> t.hashes, weight |-> t.weight]

(* Every other step of the node.  A block added or popped calls            *)
(* invalidate_block_template_cache; a template for another parent block    *)
(* (from_block) is not kept.                                               *)
NodeStep ==
  /\ Next
  /\ ~ Restart
  /\ btc' = IF btc.valid /\ Len(chain') = Len(chain)
              THEN [btc EXCEPT !.same_cookie = @ /\ ~ CookieBumped]
              ELSE NoTemplate

CacheRestart == Restart /\ btc' = NoTemplate

CacheNext == CacheTemplate \/ NodeStep \/ CacheRestart

CacheSpec == CacheInit /\ [][CacheNext]_cache_vars

-----------------------------------------------------------------------------
(* A block made of the template create_block_template answers from its     *)
(* cache passes every test of handle_block_to_main_chain on the pool and   *)
(* chain as they are, whatever was relayed, pruned, mined, popped or       *)
(* returned since the template was made.                                   *)
CachedTemplateMineable ==
  Free /\ CacheHit =>
    LET S == Range(btc.hashes)
    IN  /\ \A id \in S : PassesLoop(id, {})
        /\ \A s1, s2 \in S : s1 # s2 => Images(s1) \cap Images(s2) = {}
        /\ btc.weight <= MaxTotalWeight(Version)
        /\ btc.weight = WeightOf(S)
=============================================================================
