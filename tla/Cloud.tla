------------------------------- MODULE Cloud -------------------------------
(* What a node makes of the messages of others: the gossip engine with the    *)
(* routing table, and the secure channel.  They share no state.               *)
EXTENDS Gossip, SecureChannel

CloudSpec == GossipSpec /\ ChannelSpec

(* A message is passed on, routed and encrypted as often as it should be: a   *)
(* flood ends as far as the cache reaches, the next hop is the best offer's,  *)
(* and no key stream is used twice (gossip.rs, routing.rs, crypto.rs).        *)
CloudTrue == FloodEnds /\ RoutesBest /\ NoncesFresh
=============================================================================
