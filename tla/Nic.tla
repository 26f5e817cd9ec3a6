--------------------------------- MODULE Nic ---------------------------------
(***************************************************************************)
(* The network card (net/virtio_real.rs) and the single place that drains  *)
(* it (net::poll_and_dispatch).                                            *)
(*                                                                         *)
(* Each direction has descriptors, an available ring that the driver fills *)
(* and a used ring that the device fills, each with a free-running index.  *)
(* The driver never looks at the used ring for what it transmits: a buffer *)
(* is reused when its turn comes, whether or not the device has read it.   *)
(***************************************************************************)
EXTENDS Naturals, FiniteSets, Sifting

CONSTANTS
  RxBufCount,  \* RX_BUF_COUNT, TX_BUF_COUNT
  TxBufCount,
  RingSize,    \* qsz, as the device says
  IdxWidth,    \* 65536, the indices' modulus
  Frame,       \* frames; KindOf says which protocol and port they are for
  KindOf,
  NicBound     \* bound: frames that arrive, and frames that are sent

Kinds == {"mdns", "p2p", "p2pShort", "udp", "tcp", "other"}
NoFrame == "none"

\* A queue's size is a power of two, and TX_BUF_COUNT is 32: either divides the other,
\* and a queue of fewer than TX_BUF_COUNT descriptors is left out.
ASSUME NicAssumption ==
  /\ RxBufCount \in Nat \ {0} /\ TxBufCount \in Nat \ {0} /\ NicBound \in Nat
  /\ RingSize \in Nat \ {0} /\ RingSize % TxBufCount = 0
  /\ IdxWidth \in Nat /\ IdxWidth % RingSize = 0 /\ IdxWidth % TxBufCount = 0
  /\ IdxWidth > RxBufCount
  /\ KindOf \in [Frame -> Kinds] /\ NoFrame \notin Frame

VARIABLES
  mode,        \* "down", "simulated" (no DMA) or "dma"
  rxAvail,     \* buffers the device may fill, in order
  rxUsed,      \* used ring elements by slot: [desc, frame]; a runt has no frame
  rxUsedIdx,
  rxUsedSeen,  \* rx_used_seen
  rxUntil,     \* receive_real: the index it stops at; None outside
  frames,      \* frames that were received and are yet to be dispatched
  handled,     \* frames given to each handler, in order, with the handler's name
  txNext,      \* tx_next
  txBufs,      \* contents of the transmit buffers
  txRing,      \* the available ring: the descriptor in each slot
  txAvailIdx,
  txTaken,     \* the device's index into it
  txBuffers,   \* frames kept in memory when there is no DMA
  arrived,     \* auxiliary: frames the device has received, in order
  accepted     \* auxiliary: frames transmit said it sent and the device has not taken

rxVars == << rxAvail, rxUsed, rxUsedIdx, rxUsedSeen, rxUntil, frames, handled, arrived >>
txVars == << txNext, txBufs, txRing, txAvailIdx, txTaken, txBuffers, accepted >>
nicVars == << mode, rxVars, txVars >>

NoIdx == IdxWidth      \* no index: receive_real is not running
Ahead(i, j) == (i + IdxWidth - j) % IdxWidth
NextIdx(i) == (i + 1) % IdxWidth

NicInit ==
  /\ mode = "down"
  /\ rxAvail = << >> /\ rxUsed = [s \in 0 .. RingSize - 1 |-> [desc |-> 0, frame |-> NoFrame]]
  /\ rxUsedIdx = 0 /\ rxUsedSeen = 0 /\ rxUntil = NoIdx
  /\ frames = << >> /\ handled = << >> /\ arrived = << >>
  /\ txNext = 0 /\ txBufs = [s \in 0 .. TxBufCount - 1 |-> NoFrame]
  /\ txRing = [s \in 0 .. RingSize - 1 |-> 0] /\ txAvailIdx = 0 /\ txTaken = 0
  /\ txBuffers = << >> /\ accepted = << >>

(***************************************************************************)
(* init_real: the receive ring is filled with buffers at once.             *)
(***************************************************************************)
Fewer(a, b) == IF a < b THEN a ELSE b

InitReal ==
  /\ mode = "down"
  /\ \/ mode' = "simulated" /\ UNCHANGED rxAvail
     \/ mode' = "dma" /\ rxAvail' = [i \in 1 .. Fewer(RxBufCount, RingSize) |-> i - 1]
  /\ UNCHANGED << rxUsed, rxUsedIdx, rxUsedSeen, rxUntil, frames, handled, arrived, txVars >>

(***************************************************************************)
(* Receiving.  A runt (no more than the header) is skipped, and its buffer *)
(* is not given back.                                                      *)
(***************************************************************************)
DeviceReceives ==
  /\ mode = "dma" /\ rxAvail # << >> /\ Len(arrived) < NicBound
  /\ \E f \in Frame \cup {NoFrame} :
       /\ rxUsed' = [rxUsed EXCEPT ![rxUsedIdx % RingSize] = [desc |-> Head(rxAvail), frame |-> f]]
       /\ arrived' = Append(arrived, f)
  /\ rxAvail' = Tail(rxAvail) /\ rxUsedIdx' = NextIdx(rxUsedIdx)
  /\ UNCHANGED << mode, rxUsedSeen, rxUntil, frames, handled, txVars >>

\* The used index is read once, before the loop.
ReceiveBegin ==
  /\ mode = "dma" /\ rxUntil = NoIdx /\ frames = << >>
  /\ rxUntil' = rxUsedIdx
  /\ UNCHANGED << mode, rxAvail, rxUsed, rxUsedIdx, rxUsedSeen, frames, handled, arrived, txVars >>

\* A receive that takes the element the device wrote last.
TakeNewest ==
  LET elem == rxUsed[Ahead(rxUsedIdx, 1) % RingSize]
  IN  /\ frames' = IF elem.frame = NoFrame THEN frames ELSE Append(frames, elem.frame)
      /\ rxAvail' = IF elem.frame = NoFrame THEN rxAvail ELSE Append(rxAvail, elem.desc)

Take ==
  LET elem == rxUsed[rxUsedSeen % RingSize]
  IN  IF elem.frame = NoFrame THEN UNCHANGED << frames, rxAvail >>
      ELSE frames' = Append(frames, elem.frame) /\ rxAvail' = Append(rxAvail, elem.desc)

ReceiveOne ==
  /\ rxUntil # NoIdx /\ rxUsedSeen # rxUntil
  /\ Take /\ rxUsedSeen' = NextIdx(rxUsedSeen)
  /\ UNCHANGED << mode, rxUsed, rxUsedIdx, rxUntil, handled, arrived, txVars >>

\* The handler for a frame: its port, its protocol, or none.
Handler(f) ==
  CASE KindOf[f] = "mdns" -> "discovery"
    [] KindOf[f] = "p2p" -> "transport"
    [] KindOf[f] \in {"udp", "tcp"} -> "socket"
    [] KindOf[f] \in {"p2pShort", "other"} -> "none"

ReceiveEnd ==
  /\ rxUntil # NoIdx /\ rxUsedSeen = rxUntil
  /\ rxUntil' = NoIdx
  /\ UNCHANGED << mode, rxAvail, rxUsed, rxUsedIdx, rxUsedSeen, frames, handled, arrived, txVars >>

Dispatch ==
  /\ rxUntil = NoIdx /\ frames # << >>
  /\ frames' = Tail(frames)
  /\ handled' = Append(handled, << Handler(Head(frames)), Head(frames) >>)
  /\ UNCHANGED << mode, rxAvail, rxUsed, rxUsedIdx, rxUsedSeen, rxUntil, arrived, txVars >>

(***************************************************************************)
(* Transmitting.                                                           *)
(***************************************************************************)
\* A driver that publishes the descriptor before it has filled the buffer of
\* the slot, and fills the next one.
PublishLate(f) ==
  LET slot == txNext % TxBufCount
  IN  /\ txBufs' = [txBufs EXCEPT ![(slot + 1) % TxBufCount] = f]
      /\ txRing' = [txRing EXCEPT ![txAvailIdx % RingSize] = slot]

Publish(f) ==
  LET slot == txNext % TxBufCount
  IN  /\ txBufs' = [txBufs EXCEPT ![slot] = f]
      /\ txRing' = [txRing EXCEPT ![txAvailIdx % RingSize] = slot]

Transmit(f) ==
  \/ /\ mode = "simulated" /\ Len(txBuffers) < NicBound
     /\ txBuffers' = Append(txBuffers, f)
     /\ UNCHANGED << mode, rxVars, txNext, txBufs, txRing, txAvailIdx, txTaken, accepted >>
  \/ /\ mode = "dma" /\ Len(accepted) < NicBound
     /\ Publish(f)
     /\ txNext' = NextIdx(txNext) /\ txAvailIdx' = NextIdx(txAvailIdx)
     /\ accepted' = Append(accepted, f)
     /\ UNCHANGED << mode, rxVars, txTaken, txBuffers >>

DeviceSends ==
  /\ txTaken # txAvailIdx
  /\ txTaken' = NextIdx(txTaken) /\ accepted' = Tail(accepted)
  /\ UNCHANGED << mode, rxVars, txNext, txBufs, txRing, txAvailIdx, txBuffers >>

NicNext ==
  \/ InitReal \/ DeviceReceives \/ ReceiveBegin \/ ReceiveOne \/ ReceiveEnd \/ Dispatch
  \/ (\E f \in Frame : Transmit(f)) \/ DeviceSends

NicSpec == NicInit /\ [][NicNext]_nicVars

(***************************************************************************)
(* Properties.                                                             *)
(***************************************************************************)
\* Used elements that the driver has not looked at, oldest first.
Unseen == [k \in 1 .. Ahead(rxUsedIdx, rxUsedSeen) |-> rxUsed[(rxUsedSeen + k - 1) % RingSize]]

\* The receive buffers that are the device's or in the used ring, and the frames the
\* device received by where they are now.
Held == rxAvail \o [k \in 1 .. Len(Unseen) |-> Unseen[k].desc]
InRing == Sift([k \in 1 .. Len(Unseen) |-> Unseen[k].frame], Frame)
Handled == [i \in 1 .. Len(handled) |-> handled[i][2]]

NicTypeOK ==
  /\ mode \in {"down", "simulated", "dma"}
  /\ rxUsedIdx \in 0 .. IdxWidth - 1 /\ rxUsedSeen \in 0 .. IdxWidth - 1
  /\ rxUntil \in 0 .. IdxWidth /\ txNext \in 0 .. IdxWidth - 1
  /\ txAvailIdx \in 0 .. IdxWidth - 1 /\ txTaken \in 0 .. IdxWidth - 1
  /\ frames \in Seq(Frame) /\ accepted \in Seq(Frame) /\ txBuffers \in Seq(Frame)

\* Every frame the device received is handled once and in order, or is on its way:
\* in the batch, or in the used ring behind it.  A receive buffer is never in two
\* places: the device never fills one that it or the driver still has.
RxBuffersApart == \A i, j \in 1 .. Len(Held) : Held[i] = Held[j] => i = j

ReceivedOnceInOrder ==
  /\ RxBuffersApart
  /\ Sift(arrived, Frame) = Handled \o frames \o InRing

\* What the card sends for the i-th waiting frame, and the last frame that transmit
\* put into the same buffer.
WillSend(i) == txBufs[txRing[(txTaken + i - 1) % RingSize]]
Newest(i) == i + TxBufCount * ((Len(accepted) - i) \div TxBufCount)

\* For every frame it accepted the card sends the one accepted last into the same
\* buffer.  This is all transmit keeps: the frame itself if fewer than TX_BUF_COUNT
\* were accepted after it, otherwise the later one, a second time, and the frame
\* itself never.
SentAsWritten == \A i \in 1 .. Len(accepted) : WillSend(i) = accepted[Newest(i)]

\* What "sent" says of a frame, and the code does not keep: that the card sends it.
\* With TX_BUF_COUNT frames waiting the next one is written over the oldest, since
\* transmit_real does not look at the used ring before it takes a buffer again.
AcceptedIntact == \A i \in 1 .. Len(accepted) : WillSend(i) = accepted[i]

\* The receive ring loses, repeats and reorders nothing.  The transmit ring keeps the
\* order of the buffers and, of each buffer, the frame written last (SentAsWritten):
\* it may lose a frame that it accepted.
FramesKept == ReceivedOnceInOrder /\ SentAsWritten
=============================================================================
