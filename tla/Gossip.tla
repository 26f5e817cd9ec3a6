------------------------------- MODULE Gossip -------------------------------
(* The gossip engine of p2p/gossip.rs and the routing table of               *)
(* p2p/routing.rs, on one node.  Nothing takes a message out of outbound and *)
(* nothing calls receive yet: what arrives is an external network's choice,  *)
(* any message in any order, any number of times.                            *)
EXTENDS Integers, Sequences, SequencesExt, FiniteSetsExt

CONSTANTS Origins,          \* the nodes messages come from
          GossipVersions,   \* the versions they carry: ticks of their origin
          MaxHops,          \* MAX_HOPS
          SeenLimit,        \* 200 entries of the cache ...
          SeenDrained,      \* ... and the 50 dropped when it is over
          HeartbeatEvery,   \* HEARTBEAT_INTERVAL, in ticks
          MaxGossipTick,    \* bound of the clock
          MaxMessages,      \* bound of the messages received
          RouteOffers       \* the routes offered, as <<destination, via, hops, latency>>

ASSUME GossipAssumption ==
  /\ SeenLimit \in Nat /\ SeenDrained \in 0 .. SeenLimit /\ MaxHops \in Nat
  /\ GossipVersions \subseteq Nat
  /\ \A r \in RouteOffers : r[3] \in Nat /\ r[4] \in Nat

VARIABLES seenMessages,   \* seen_messages: <<origin, version>>, oldest first
          outbound,       \* outbound: the messages to propagate
          processed,      \* what receive let through, in order (history)
          gossipTick, lastHeartbeat,
          routes,         \* entries of the routing table
          offered         \* the offers made so far, in order (history)

gossipVars == << seenMessages, outbound, processed, gossipTick, lastHeartbeat, routes, offered >>

Messages == [origin : Origins, version : GossipVersions, hops : 0 .. MaxHops]

(* init of the engine; routing::init enters the peers known at boot, which    *)
(* are the first offers.                                                     *)
GossipInit ==
  /\ seenMessages = << >> /\ outbound = << >> /\ processed = << >>
  /\ gossipTick = 0 /\ lastHeartbeat = 0
  /\ routes = << >> /\ offered = << >>

(* tick, send_heartbeat.  The node's own heartbeat is not entered in seen.    *)
Heartbeat == [origin |-> "self", version |-> gossipTick', hops |-> 0]
GossipTick ==
  /\ gossipTick < MaxGossipTick /\ gossipTick' = gossipTick + 1
  /\ IF gossipTick' - lastHeartbeat >= HeartbeatEvery
     THEN outbound' = Append(outbound, Heartbeat) /\ lastHeartbeat' = gossipTick'
     ELSE UNCHANGED << outbound, lastHeartbeat >>
  /\ UNCHANGED << seenMessages, processed, routes, offered >>

(* receive: a message no newer than one of its origin in the cache is dropped. *)
AlreadySeen(m) == \E k \in DOMAIN seenMessages :
             seenMessages[k][1] = m.origin /\ seenMessages[k][2] >= m.version
KeptOldest(s) == IF Len(s) > SeenLimit THEN SubSeq(s, 1, Len(s) - SeenDrained) ELSE s
KeptSeen(s) == IF Len(s) > SeenLimit THEN SubSeq(s, SeenDrained + 1, Len(s)) ELSE s
Forwarded(m) == IF m.hops < MaxHops THEN << [m EXCEPT !.hops = @ + 1] >> ELSE << >>
ReceiveGossip(m) ==
  /\ ~AlreadySeen(m) /\ Len(processed) < MaxMessages
  /\ seenMessages' = KeptSeen(Append(seenMessages, << m.origin, m.version >>))
  /\ outbound' = outbound \o Forwarded(m)
  /\ processed' = Append(processed, m)
  /\ UNCHANGED << gossipTick, lastHeartbeat, routes, offered >>

(* upsert: a better route takes the place of the one to its destination.      *)
FasterRoute(new, old) == new[3] < old[3] \/ new[4] < old[4]
BetterRoute(new, old) == \/ new[3] < old[3]
                         \/ new[3] = old[3] /\ new[4] < old[4]
Upsert(r) ==
  LET k == SelectInSeq(routes, LAMBDA e : e[1] = r[1]) IN
  /\ Len(offered) < Cardinality(RouteOffers)
  /\ offered' = Append(offered, r)
  /\ routes' = IF k = 0 THEN Append(routes, r)
               ELSE IF BetterRoute(r, routes[k]) THEN [routes EXCEPT ![k] = r] ELSE routes
  /\ UNCHANGED << seenMessages, outbound, processed, gossipTick, lastHeartbeat >>

(* next_hop *)
NextHop(d) == LET k == SelectInSeq(routes, LAMBDA e : e[1] = d) IN
              IF k = 0 THEN {} ELSE {routes[k][2]}

(* The two tables share nothing: in a behaviour one of them moves (bound).    *)
GossipNext ==
  \/ offered = << >> /\ GossipTick
  \/ offered = << >> /\ \E m \in Messages : ReceiveGossip(m)
  \/ gossipTick = 0 /\ processed = << >> /\ \E r \in RouteOffers : Upsert(r)

GossipSpec == GossipInit /\ [][GossipNext]_gossipVars

----------------------------------------------------------------------------
(* A flood ends: a message as old as one already passed on is passed on again *)
(* only when so many others came in between that the cache has lost it, and  *)
(* no message makes more than MAX_HOPS hops (receive).                       *)
FloodEnds ==
  /\ \A i, j \in DOMAIN processed :
       i < j /\ processed[i].origin = processed[j].origin
             /\ processed[j].version <= processed[i].version
       => j - i > SeenLimit - SeenDrained + 1
  /\ \A k \in DOMAIN outbound : outbound[k].hops <= MaxHops

(* The next hop to a destination is that of the best offer made so far: none  *)
(* has fewer hops, and none with as many is faster (upsert, next_hop).       *)
RoutesBest ==
  \A k \in DOMAIN offered :
    LET d == offered[k][1]
        same == {i \in DOMAIN offered : offered[i][1] = d}
    IN \E i \in same : /\ NextHop(d) = {offered[i][2]}
                       /\ \A j \in same : ~BetterRoute(offered[j], offered[i])
=============================================================================
