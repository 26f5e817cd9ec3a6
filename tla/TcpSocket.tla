------------------------------ MODULE TcpSocket ------------------------------
(***************************************************************************)
(* A TCP client socket (net/ethernet.rs): the task that calls              *)
(* socket_connect, socket_send, socket_recv and socket_close, the          *)
(* dispatcher that kernel_loop runs between its steps, and the peer.       *)
(*                                                                         *)
(* The calls read the socket under SOCKET_TABLE, release it, transmit, and *)
(* then look at the socket again until it shows what they wait for or      *)
(* NET_TIMEOUT_TICKS have passed.  A segment carries one unit of data or   *)
(* none; the n-th unit of either side has the sequence number n.           *)
(*                                                                         *)
(* The peer is a TCP server that follows the protocol.  The network keeps  *)
(* order, and may lose or repeat a segment.                                *)
(***************************************************************************)
EXTENDS Naturals, Sequences, FiniteSets

CONSTANTS
  MaxUnits,      \* bound: units of data that each side sends
  NetFaultBound, \* bound: segments lost or repeated
  ResendBound    \* bound: retransmissions of the peer

ASSUME TcpAssumption ==
  MaxUnits \in Nat /\ NetFaultBound \in Nat /\ ResendBound \in Nat

VARIABLES
  tcpState,   \* state; "Removed" when the socket is not in the table
  seqNum,     \* seq_num, counted from the initial sequence number
  ackNum,     \* ack_num, counted from the peer's
  rxBuf,      \* rx_buf, and before it what socket_recv has returned
  call,       \* the call the task is in, and how far: "none", "connect", "sending",
              \* "send", "closing", "parting", "close"
  read,       \* seq and ack as socket_send and socket_close read them
  newSeq,     \* socket_send's local variable: the seq_num it waits for
  outcome,    \* what the last call returned: "none", "true" or "false"
  toPeer,     \* segments on the way, in order
  toSocket,
  peer,       \* the peer: its state and its sequence numbers
  netFaults, resends,
  disturbed   \* auxiliary: a segment was lost, repeated or sent again

taskVars == << call, read, newSeq, outcome >>
socketVars == << tcpState, seqNum, ackNum, rxBuf >>
netVars == << toPeer, toSocket, peer, netFaults, resends, disturbed >>
tcpVars == << taskVars, socketVars, netVars >>

Segment(flags, seq, ack, len) == [flags |-> flags, seq |-> seq, ack |-> ack, len |-> len]

Send(seg) == toPeer' = Append(toPeer, seg)

TcpInit ==
  /\ tcpState = "Closed" /\ seqNum = 0 /\ ackNum = 0 /\ rxBuf = << >>
  /\ call = "none" /\ read = [seq |-> 0, ack |-> 0] /\ newSeq = 0 /\ outcome = "none"
  /\ toPeer = << >> /\ toSocket = << >>
  /\ peer = [state |-> "Listen", next |-> 0, acked |-> 0, expects |-> 0]
  /\ netFaults = 0 /\ resends = 0 /\ disturbed = FALSE

(***************************************************************************)
(* The calls.                                                              *)
(***************************************************************************)
Connect ==
  /\ call = "none" /\ tcpState = "Closed" /\ outcome = "none"
  /\ call' = "connect" /\ tcpState' = "SynSent"
  /\ Send(Segment({"SYN"}, seqNum, 0, 0))
  /\ UNCHANGED << read, newSeq, outcome, seqNum, ackNum, rxBuf, toSocket, peer, netFaults, resends, disturbed >>

\* wait_for ends with the handshake or a reset, or with the deadline; the state is
\* looked at again after it.
ConnectReturns ==
  /\ call = "connect" /\ tcpState \in {"Established", "Closed"}
  /\ call' = "none" /\ outcome' = IF tcpState = "Established" THEN "true" ELSE "false"
  /\ UNCHANGED << read, newSeq, socketVars, netVars >>

ConnectTimesOut ==
  /\ call = "connect"
  /\ call' = "none" /\ outcome' = "false"
  /\ UNCHANGED << read, newSeq, socketVars, netVars >>

(* What is read under SOCKET_TABLE is sent after the lock is released, with   *)
(* whatever was dispatched meanwhile unseen.                                 *)
Reads == read' = [seq |-> seqNum, ack |-> ackNum]

SendData ==
  /\ call = "none" /\ outcome # "none" /\ tcpState = "Established" /\ seqNum <= MaxUnits
  /\ call' = "sending" /\ Reads
  /\ UNCHANGED << newSeq, outcome, socketVars, netVars >>

SendTransmits ==
  /\ call = "sending"
  /\ Send(Segment({"ACK"}, read.seq, read.ack, 1))
  /\ call' = "send" /\ newSeq' = read.seq + 1
  /\ UNCHANGED << read, outcome, socketVars, toSocket, peer, netFaults, resends, disturbed >>

SendReturns ==
  /\ call = "send" /\ tcpState # "Removed" /\ seqNum = newSeq
  /\ call' = "none" /\ outcome' = "true"
  /\ UNCHANGED << read, newSeq, socketVars, netVars >>

\* Without a confirmation the unit counts as sent.
SendTimesOut ==
  /\ call = "send"
  /\ call' = "none" /\ outcome' = "true" /\ seqNum' = newSeq
  /\ UNCHANGED << read, newSeq, tcpState, ackNum, rxBuf, netVars >>

\* Only a socket that is Established says goodbye; it becomes FinWait1 once the FIN
\* is sent, whatever the dispatcher has made of it since it was read.
CloseEstablished ==
  /\ call = "none" /\ outcome # "none" /\ tcpState = "Established"
  /\ call' = "closing" /\ Reads
  /\ UNCHANGED << newSeq, outcome, socketVars, netVars >>

CloseTransmits ==
  /\ call = "closing"
  /\ Send(Segment({"FIN", "ACK"}, read.seq, read.ack, 0))
  /\ call' = "parting"
  /\ UNCHANGED << read, newSeq, outcome, socketVars, toSocket, peer, netFaults, resends, disturbed >>

CloseMarks ==
  /\ call = "parting"
  /\ call' = "close" /\ tcpState' = "FinWait1"
  /\ UNCHANGED << read, newSeq, outcome, seqNum, ackNum, rxBuf, netVars >>

Remove == call' = "none" /\ tcpState' = "Removed" /\ outcome' = "none"

CloseOther ==
  /\ call = "none" /\ outcome # "none" /\ tcpState \notin {"Established", "Removed"}
  /\ Remove
  /\ UNCHANGED << read, newSeq, seqNum, ackNum, rxBuf, netVars >>

\* The wait ends when the peer's FIN is in, or with the deadline.
CloseReturns ==
  /\ call = "close" /\ tcpState \in {"Closed", "TimeWait"}
  /\ Remove /\ UNCHANGED << read, newSeq, seqNum, ackNum, rxBuf, netVars >>

CloseTimesOut ==
  /\ call = "close"
  /\ Remove /\ UNCHANGED << read, newSeq, seqNum, ackNum, rxBuf, netVars >>

(***************************************************************************)
(* dispatch_tcp.  In Established neither the sequence number of the data   *)
(* nor the acknowledgement is looked at.                                   *)
(***************************************************************************)
Stay == UNCHANGED << tcpState, seqNum, ackNum, rxBuf, toPeer >>

\* The acknowledgement of a segment is sent after the lock is released.
Reply(seq, ack) == Send(Segment({"ACK"}, seq, ack, 0))

OnSynSent(seg) ==
  IF {"SYN", "ACK"} \subseteq seg.flags
  THEN /\ ackNum' = seg.seq + 1 /\ seqNum' = seg.ack /\ tcpState' = "Established"
       /\ Reply(seqNum', ackNum') /\ UNCHANGED rxBuf
  ELSE Stay

\* A handler that acknowledges the flags of every segment it is given.
OnEstablishedCounting(seg) ==
  /\ rxBuf' = IF seg.len > 0 THEN Append(rxBuf, seg.seq) ELSE rxBuf
  /\ ackNum' = ackNum + seg.len + (IF "FIN" \in seg.flags THEN 1 ELSE 0)
  /\ tcpState' = IF "FIN" \in seg.flags THEN "CloseWait" ELSE tcpState
  /\ seqNum' = seqNum
  /\ IF seg.len > 0 \/ "FIN" \in seg.flags THEN Reply(seqNum, ackNum') ELSE UNCHANGED toPeer

\* A handler that puts new data in front of the old.
OnEstablishedFront(seg) ==
  LET taken == IF seg.len > 0 THEN seg.seq + seg.len ELSE ackNum
  IN  /\ rxBuf' = IF seg.len > 0 THEN << seg.seq >> \o rxBuf ELSE rxBuf
      /\ ackNum' = IF "FIN" \in seg.flags THEN taken + 1 ELSE taken
      /\ tcpState' = IF "FIN" \in seg.flags THEN "CloseWait" ELSE tcpState
      /\ seqNum' = seqNum
      /\ IF seg.len > 0 \/ "FIN" \in seg.flags THEN Reply(seqNum, ackNum') ELSE UNCHANGED toPeer

OnEstablished(seg) ==
  LET taken == IF seg.len > 0 THEN seg.seq + seg.len ELSE ackNum
  IN  /\ rxBuf' = IF seg.len > 0 THEN Append(rxBuf, seg.seq) ELSE rxBuf
      /\ ackNum' = IF "FIN" \in seg.flags THEN taken + 1 ELSE taken
      /\ tcpState' = IF "FIN" \in seg.flags THEN "CloseWait" ELSE tcpState
      /\ seqNum' = seqNum
      /\ IF seg.len > 0 \/ "FIN" \in seg.flags THEN Reply(seqNum, ackNum') ELSE UNCHANGED toPeer

\* A FIN that comes with the acknowledgement gets no acknowledgement itself.
OnFinWait1(seg) ==
  /\ tcpState' = CASE "FIN" \in seg.flags -> "TimeWait"
                   [] "FIN" \notin seg.flags /\ "ACK" \in seg.flags -> "FinWait2"
                   [] OTHER -> tcpState
  /\ UNCHANGED << seqNum, ackNum, rxBuf, toPeer >>

OnFinWait2(seg) ==
  IF "FIN" \in seg.flags
  THEN /\ ackNum' = seg.seq + 1 /\ tcpState' = "Closed"
       /\ Reply(seqNum, ackNum') /\ UNCHANGED << seqNum, rxBuf >>
  ELSE Stay

DispatchTcp(seg) ==
  CASE tcpState = "Removed" -> Stay
    [] tcpState # "Removed" /\ "RST" \in seg.flags ->
         tcpState' = "Closed" /\ UNCHANGED << seqNum, ackNum, rxBuf, toPeer >>
    [] OTHER ->
         CASE tcpState = "SynSent" -> OnSynSent(seg)
           [] tcpState = "Established" -> OnEstablished(seg)
           [] tcpState = "FinWait1" -> OnFinWait1(seg)
           [] tcpState = "FinWait2" -> OnFinWait2(seg)
           [] OTHER -> Stay

(***************************************************************************)
(* The network.                                                            *)
(***************************************************************************)
Fault == netFaults < NetFaultBound /\ netFaults' = netFaults + 1 /\ disturbed' = TRUE

SocketReceives ==
  /\ toSocket # << >>
  /\ DispatchTcp(Head(toSocket))
  /\ \/ toSocket' = Tail(toSocket) /\ UNCHANGED << netFaults, disturbed >>
     \/ toSocket' = toSocket /\ Fault
  /\ UNCHANGED << taskVars, peer, resends >>

NetLoses ==
  /\ Fault
  /\ \/ toSocket # << >> /\ toSocket' = Tail(toSocket) /\ UNCHANGED toPeer
     \/ toPeer # << >> /\ toPeer' = Tail(toPeer) /\ UNCHANGED toSocket
  /\ UNCHANGED << taskVars, socketVars, peer, resends >>

(***************************************************************************)
(* The peer.  next is the sequence number it sends next, acked what the    *)
(* socket acknowledged, expects the socket's next sequence number.         *)
(***************************************************************************)
FromPeer(seg) == toSocket' = Append(toSocket, seg)

\* What the peer does with a segment that is in order.
PeerTakes(seg) ==
  CASE peer.state = "Listen" /\ "SYN" \in seg.flags ->
         \/ /\ peer' = [peer EXCEPT !.state = "SynRcvd", !.next = 1, !.expects = seg.seq + 1]
            /\ FromPeer(Segment({"SYN", "ACK"}, 0, seg.seq + 1, 0))
         \/ peer' = peer /\ FromPeer(Segment({"RST"}, 0, 0, 0))
    [] peer.state # "Listen" /\ "SYN" \notin seg.flags ->
         LET inOrder == seg.seq = peer.expects
             fin == "FIN" \in seg.flags /\ inOrder
             expects == IF inOrder THEN seg.seq + seg.len + (IF fin THEN 1 ELSE 0) ELSE peer.expects
         IN  /\ peer' = [peer EXCEPT
                  !.state = IF fin /\ @ # "Done" THEN "Closing" ELSE IF @ = "SynRcvd" THEN "Open" ELSE @,
                  !.expects = expects,
                  !.acked = IF seg.ack > @ THEN seg.ack ELSE @]
             /\ IF seg.len > 0 \/ "FIN" \in seg.flags
                THEN FromPeer(Segment({"ACK"}, peer.next, expects, 0))
                ELSE UNCHANGED toSocket
    [] OTHER -> UNCHANGED << peer, toSocket >>

PeerReceives ==
  /\ toPeer # << >> /\ toPeer' = Tail(toPeer)
  /\ PeerTakes(Head(toPeer))
  /\ UNCHANGED << taskVars, socketVars, netFaults, resends, disturbed >>

PeerSends ==
  /\ peer.state = "Open" /\ peer.next <= MaxUnits
  /\ FromPeer(Segment({"ACK"}, peer.next, peer.expects, 1))
  /\ peer' = [peer EXCEPT !.next = @ + 1]
  /\ UNCHANGED << taskVars, socketVars, toPeer, netFaults, resends, disturbed >>

PeerCloses ==
  /\ peer.state \in {"Open", "Closing"}
  /\ FromPeer(Segment({"FIN", "ACK"}, peer.next, peer.expects, 0))
  /\ peer' = [peer EXCEPT !.next = @ + 1, !.state = "Done"]
  /\ UNCHANGED << taskVars, socketVars, toPeer, netFaults, resends, disturbed >>

\* The oldest unit of data that is not acknowledged is sent again.
PeerResends ==
  /\ peer.state = "Open" /\ resends < ResendBound
  /\ peer.acked \in 1 .. peer.next - 1
  /\ resends' = resends + 1 /\ disturbed' = TRUE
  /\ FromPeer(Segment({"ACK"}, peer.acked, peer.expects, 1))
  /\ UNCHANGED << taskVars, socketVars, toPeer, peer, netFaults >>

TcpReturn ==
  \/ ConnectReturns \/ ConnectTimesOut \/ SendReturns \/ SendTimesOut
  \/ CloseReturns \/ CloseTimesOut

TcpNext ==
  \/ Connect \/ SendData \/ SendTransmits
  \/ CloseEstablished \/ CloseTransmits \/ CloseMarks \/ CloseOther \/ TcpReturn
  \/ SocketReceives \/ NetLoses
  \/ PeerReceives \/ PeerSends \/ PeerCloses \/ PeerResends

TcpSpec == TcpInit /\ [][TcpNext]_tcpVars

(***************************************************************************)
(* Properties.                                                             *)
(***************************************************************************)
TcpTypeOK ==
  /\ tcpState \in {"Removed", "Closed", "SynSent", "Established", "CloseWait",
                   "FinWait1", "FinWait2", "TimeWait"}
  /\ seqNum \in 0 .. MaxUnits + 2 /\ ackNum \in Nat /\ rxBuf \in Seq(Nat)
  /\ call \in {"none", "connect", "sending", "send", "closing", "parting", "close"}
  /\ read.seq \in 0 .. MaxUnits + 2 /\ read.ack \in Nat
  /\ newSeq \in 0 .. MaxUnits + 2 /\ outcome \in {"none", "true", "false"}

\* Whatever is lost, repeated or sent again, the socket acknowledges nothing that
\* the peer has not sent, and its own count never falls behind what the peer has.
NeverAcksUnsent ==
  /\ ackNum <= peer.next
  /\ peer.expects <= (IF call = "send" THEN newSeq ELSE seqNum) + 1

\* connect is true only for a peer that answered; and as long as the network
\* neither loses nor repeats a segment, what the socket has received is what the
\* peer sent, without a gap and in order.
StreamIntact ==
  /\ tcpState = "Established" => peer.state # "Listen" /\ peer.expects >= 1
  /\ ~disturbed => \A i \in 1 .. Len(rxBuf) : rxBuf[i] = i

\* socket_send "espera o ACK do peer" (net/ethernet.rs): once the acknowledgement
\* of its segment was dispatched, it does not wait for the deadline.
AckEndsSend ==
  [][(call = "send" /\ tcpState = "Established" /\ SocketReceives
        /\ Head(toSocket).flags = {"ACK"} /\ Head(toSocket).ack = newSeq
      => seqNum' = newSeq)]_tcpVars
=============================================================================
