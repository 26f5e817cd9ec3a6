------------------------------- MODULE Peers --------------------------------
(* How nodes find each other and exchange packets over one Ethernet segment: *)
(* the peer table (peer.rs), the mDNS engine (discovery.rs), the transport    *)
(* (transport.rs) and the dispatcher that drains the network card             *)
(* (net/mod.rs).  Frames may be lost, and arrive in any order.               *)
EXTENDS Naturals, Sequences

CONSTANTS Nodes,      \* node ids of the machines on the segment
          Simulated,  \* ids of the peers peer::init writes into every table
          Payloads,   \* what transport::send is given, a word each
          MaxSends,   \* bound: packets a node sends
          LossBound   \* bound: frames lost

ASSUME PeersAssumption == Nodes \cap Simulated = {} /\ MaxSends \in Nat /\ LossBound \in Nat

VARIABLES
  peers,     \* per node, PEER_TABLE: id -> peer
  inbox,     \* per node, frames its card has received
  sent,      \* per node, tx_queue
  received,  \* per node, rx_queue
  transport, \* per node, the counters packets_sent and wire_send_failures
  losses     \* frames lost so far

peersVars == << peers, inbox, sent, received, transport, losses >>

OwnAddress == "10.0.2.15"    \* eth0's fixed address, the same on every node
SimAddress == "192.168.1.x"
SocdPort == "7700"
Service == "_socd._tcp.local"

(* add_discovered, for each of the news: a peer that is known only falls back *)
(* to Discovered, a new one gets all its fields.  News of one peer differ in  *)
(* nothing, so it does not matter which comes first.                         *)
NewPeer(news) == [state |-> "discovered", address |-> news.address, port |-> news.port,
                  own |-> FALSE, score |-> 30]
Discovered(table, news) ==
  [id \in DOMAIN table \cup {x.id : x \in news} |->
     IF id \notin DOMAIN table THEN NewPeer(CHOOSE x \in news : x.id = id)
     ELSE IF \E x \in news : x.id = id THEN [table[id] EXCEPT !.state = "discovered"]
     ELSE table[id]]

(* peer::init: add_discovered, mark_connected and mark_trusted of each.      *)
BootTable == [id \in Simulated |-> [state |-> "trusted", address |-> SimAddress,
                                    port |-> SocdPort, own |-> TRUE, score |-> 80]]

(* p2p::init runs before net::init: its query and its announcement find no    *)
(* interface and are not sent.                                               *)
PeersInit ==
  /\ peers = [n \in Nodes |-> BootTable]
  /\ inbox = [n \in Nodes |-> {}]
  /\ sent = [n \in Nodes |-> << >>]
  /\ received = [n \in Nodes |-> {}]
  /\ transport = [n \in Nodes |-> [sent |-> 0, failures |-> 0]]
  /\ losses = 0

----------------------------------------------------------------------------
(* mDNS packets and their wire form: four counts, then the records in order. *)
DiscoveryQuery ==
  [questions |-> << [name |-> Service, type |-> "PTR"] >>, answers |-> << >>,
   additional |-> << >>]
Announcement(n) ==
  [questions |-> << >>,
   answers |-> << [type |-> "PTR", name |-> Service, data |-> n] >>,
   additional |-> << [type |-> "SRV", name |-> n, data |-> SocdPort],
                     [type |-> "TXT", name |-> n, data |-> n] >>]

\* With the count of the header that response() builds.
SerializeResponse(pkt) ==
  [counts |-> << Len(pkt.questions), Len(pkt.answers),
                 IF pkt.additional = << >> THEN 0 ELSE 1 >>,
   body |-> pkt.questions \o pkt.answers \o pkt.additional]

(* serialize replaces the header's counts, which say one additional record.  *)
Serialize(pkt) ==
  [counts |-> << Len(pkt.questions), Len(pkt.answers), Len(pkt.additional) >>,
   body |-> pkt.questions \o pkt.answers \o pkt.additional]

(* parse: the counts say where one list ends and the next begins. *)
Parse(wire) ==
  LET q == wire.counts[1]
      a == q + wire.counts[2]
      e == a + wire.counts[3]
  IN [questions |-> SubSeq(wire.body, 1, q), answers |-> SubSeq(wire.body, q + 1, a),
      additional |-> SubSeq(wire.body, a + 1, e)]

(* A frame to the multicast or the broadcast address reaches the others.     *)
MdnsFrame(pkt) == [port |-> "mdns", from |-> OwnAddress, data |-> Serialize(pkt)]
P2pFrame(data) == [port |-> "p2p", from |-> OwnAddress, data |-> data]
Broadcast(n, boxes, frame) ==
  [m \in Nodes |-> IF m = n THEN boxes[m] ELSE boxes[m] \cup {frame}]

(* discovery::tick when the interval is over: send_discovery_query.          *)
Query(n) ==
  /\ inbox' = Broadcast(n, inbox, MdnsFrame(DiscoveryQuery))
  /\ UNCHANGED << peers, sent, received, transport, losses >>

----------------------------------------------------------------------------
(* handle_packet *)
AsksForUs(pkt) ==
  \E i \in DOMAIN pkt.questions : pkt.questions[i].name = Service
                                  /\ pkt.questions[i].type = "PTR"

Records(pkt) == pkt.answers \o pkt.additional
DataOf(pkt, type) ==
  {Records(pkt)[i].data : i \in {j \in DOMAIN Records(pkt) : Records(pkt)[j].type = type}}

(* A node is registered when the packet has both its port and its id, and it  *)
(* is not oneself.                                                           *)
News(n, frame) ==
  LET pkt == Parse(frame.data)
  IN {[id |-> id, address |-> frame.from, port |-> port] :
        id \in DataOf(pkt, "TXT") \ {n}, port \in DataOf(pkt, "SRV")}

(* send_on_wire puts the sender's id, 32 bytes, before the payload; the       *)
(* dispatcher takes the first 32 bytes for the sender's id.                  *)
\* The payload alone.
WirePayloadBare(n, data) == [first |-> data, rest |-> data]

WirePayload(n, data) == [first |-> n, rest |-> data]

Received(n, frame) ==
  [src |-> frame.data.first, dst |-> n, payload |-> frame.data.rest]

(* poll_and_dispatch: the ring is emptied and every frame goes to the handler *)
(* of its port.  Nothing looks at the destination address of a frame.        *)
Frames(n, port) == {f \in inbox[n] : f.port = port}

Poll(n) ==
  /\ inbox[n] # {}
  /\ peers' = [peers EXCEPT ![n] =
                 Discovered(@, UNION {News(n, f) : f \in Frames(n, "mdns")})]
  /\ received' = [received EXCEPT ![n] = @ \cup {Received(n, f) : f \in Frames(n, "p2p")}]
  /\ LET emptied == [inbox EXCEPT ![n] = {}]
         asked == \E f \in Frames(n, "mdns") : AsksForUs(Parse(f.data))
     IN inbox' = IF asked THEN Broadcast(n, emptied, MdnsFrame(Announcement(n))) ELSE emptied
  /\ UNCHANGED << sent, transport, losses >>

(* transport::send: the packet is queued and counted, then resolved in the    *)
(* peer table; without an ARP entry for its address, and nothing makes one,   *)
(* the frame goes to every node.                                             *)
Send(n, dst, data) ==
  /\ Len(sent[n]) < MaxSends
  /\ sent' = [sent EXCEPT ![n] = Append(@, [dst |-> dst, payload |-> data])]
  /\ LET known == dst \in DOMAIN peers[n]
     IN /\ transport' = [transport EXCEPT ![n] =
                           [sent |-> @.sent + 1,
                            failures |-> IF known THEN @.failures ELSE @.failures + 1]]
        /\ inbox' = IF known THEN Broadcast(n, inbox, P2pFrame(WirePayload(n, data)))
                    ELSE inbox
  /\ UNCHANGED << peers, received, losses >>

(* The segment, or a full receive ring, drops a frame. *)
Lose(n, frame) ==
  /\ losses < LossBound /\ frame \in inbox[n]
  /\ inbox' = [inbox EXCEPT ![n] = @ \ {frame}]
  /\ losses' = losses + 1
  /\ UNCHANGED << peers, sent, received, transport >>

PeersNext ==
  \/ \E n \in Nodes : Query(n)
  \/ \E n \in Nodes : Poll(n)
  \/ \E n \in Nodes, dst \in Nodes \cup Simulated, data \in Payloads :
       dst # n /\ Send(n, dst, data)
  \/ \E n \in Nodes : \E f \in inbox[n] : Lose(n, f)

(* No fairness: kernel_loop calls discovery::tick and poll_and_dispatch only  *)
(* when the tick it reads is a multiple of 1000 and of 20, and module         *)
(* KernelLoop shows that it may stop meeting such ticks.                      *)
PeersSpec == PeersInit /\ [][PeersNext]_peersVars

----------------------------------------------------------------------------
Peer == [state : {"discovered", "trusted"}, address : {OwnAddress, SimAddress},
         port : {SocdPort}, own : BOOLEAN, score : {30, 80}]

PeersTypeOK ==
  /\ \A n \in Nodes : /\ DOMAIN peers[n] \subseteq Nodes \cup Simulated
                      /\ \A id \in DOMAIN peers[n] : peers[n][id] \in Peer
  /\ \A n \in Nodes : \A f \in inbox[n] : f.port \in {"mdns", "p2p"}
  /\ \A n \in Nodes : Len(sent[n]) = transport[n].sent
  /\ losses \in 0 .. LossBound

(* A packet a node hands to its receiver names the node that sent it and      *)
(* carries what that node gave to send, and a node lists only other nodes, at *)
(* the port they listen on (send_on_wire, poll_and_dispatch, handle_packet).  *)
OnlyRealPeers ==
  \A n \in Nodes :
    /\ \A id \in DOMAIN peers[n] \ Simulated : id \in Nodes \ {n} /\ peers[n][id].port = SocdPort
    /\ \A p \in received[n] : /\ p.src \in Nodes \ {n}
                              /\ \E i \in DOMAIN sent[p.src] : sent[p.src][i].payload = p.payload

(* Every two nodes get to know each other, although the announcement a node   *)
(* makes at boot is never sent and any query or answer may be lost.  It rests *)
(* on what PeersSpec does not promise: every node's kernel_loop keeps reading *)
(* ticks at which it queries, and with frames in the ring ticks at which it   *)
(* polls (main.rs:264-278).                                                  *)
EventuallyKnown == \A n, m \in Nodes : n # m => <>[](m \in DOMAIN peers[n])
=============================================================================
