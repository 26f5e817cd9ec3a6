--------------------------- MODULE SecureChannel ---------------------------
(* Sessions and packets of p2p/crypto.rs.  A key is named by what it is      *)
(* derived from, a text by what it encrypts: the ciphers themselves are      *)
(* data.  Nothing in src/ calls encrypt_for_peer or decrypt yet: who does is *)
(* external, and may do so at any tick.                                      *)
EXTENDS Integers, Sequences, FiniteSets

CONSTANTS ChannelPeers,     \* the peers known at boot and later
          BootPeers,        \* those init makes a session with
          Texts,            \* what is sent; "empty" is the empty text
          CounterWord,      \* 2^32: the part of the counter a nonce keeps
          SendsPerTick,     \* messages a tick has room for
          MaxChannelTick    \* bound of the clock

ASSUME ChannelAssumption ==
  CounterWord \in Nat /\ SendsPerTick \in Nat /\ SendsPerTick < CounterWord

VARIABLES sessions,     \* peer -> [key, counter, received], as far as established
          packets,      \* every packet made, in order (history)
          channelTick, sentNow

channelVars == << sessions, packets, channelTick, sentNow >>

(* generate_nonce: the tick overwrites the upper half of the counter.         *)
NonceOf(counter, tick) == << counter % CounterWord, tick >>

(* simulate_x25519, derive_session_key: of our private and their public key.  *)
KeyOf(p, tick) == << "self", p, NonceOf(tick, p) >>
SessionWith(p, tick) == [key |-> KeyOf(p, tick), counter |-> 0, received |-> 0]

(* establish_session: one there is already is kept.                           *)
EstablishedAnew(known, p, tick) ==
  [q \in DOMAIN known \cup {p} |-> IF q = p THEN SessionWith(p, tick) ELSE known[q]]
Established(known, p, tick) ==
  IF p \in DOMAIN known THEN known
  ELSE [q \in DOMAIN known \cup {p} |-> IF q = p THEN SessionWith(p, tick) ELSE known[q]]

(* init: init_keys and a session with every active peer, at tick 0.           *)
ChannelInit ==
  /\ sessions = [p \in BootPeers |-> SessionWith(p, 0)]
  /\ packets = << >> /\ channelTick = 0 /\ sentNow = 0

(* encrypt_aes_gcm: xor with a key stream, which undoes itself on a second    *)
(* pass, and leaves the empty text as it is; the tag is over what comes out. *)
Xored(key, nonce, text) ==
  IF text = << "empty" >> THEN text
  ELSE IF Len(text) = 3 /\ text[2] = key /\ text[3] = nonce THEN << text[1] >>
  ELSE << text[1], key, nonce >>
Encrypted(key, nonce, text) == [text |-> Xored(key, nonce, text),
                                tag |-> << key, Xored(key, nonce, text) >>]

(* encrypt_for, with encrypt of the session.                                  *)
EncryptFor(p, text) ==
  LET known == Established(sessions, p, channelTick)
      count == known[p].counter + 1
      nonce == NonceOf(count, channelTick)
  IN /\ sentNow < SendsPerTick /\ sentNow' = sentNow + 1
     /\ sessions' = [known EXCEPT ![p].counter = count]
     /\ packets' = Append(packets, [peer |-> p, key |-> known[p].key, nonce |-> nonce,
                                    plain |-> text,
                                    sealed |-> Encrypted(known[p].key, nonce, << text >>)])
     /\ UNCHANGED channelTick

(* decrypt: the text is run through the cipher once more, and the tag of what *)
(* comes out, not of what came in, is held against the packet's.             *)
DecryptsTo(key, packet) ==
  LET out == Encrypted(key, packet.nonce, packet.sealed.text) IN
  IF out.tag = packet.sealed.tag THEN {out.text} ELSE {}
Decrypt(p, k) ==
  /\ p \in DOMAIN sessions
  /\ DecryptsTo(sessions[p].key, packets[k]) # {}
  /\ sessions[p].received = 0
  /\ sessions' = [sessions EXCEPT ![p].received = @ + 1]
  /\ UNCHANGED << packets, channelTick, sentNow >>

ChannelTick ==
  /\ channelTick < MaxChannelTick
  /\ channelTick' = channelTick + 1 /\ sentNow' = 0
  /\ UNCHANGED << sessions, packets >>

ChannelNext ==
  \/ \E p \in ChannelPeers, text \in Texts : EncryptFor(p, text)
  \/ \E p \in ChannelPeers, k \in DOMAIN packets : Decrypt(p, k)
  \/ ChannelTick

ChannelSpec == ChannelInit /\ [][ChannelNext]_channelVars

(* No key stream is used twice: two packets under one key carry different     *)
(* nonces as long as a tick has room for fewer messages than the counter's   *)
(* lower half has values, and whatever decrypt lets through is the text that *)
(* was sent (establish_session, generate_nonce, decrypt).                    *)
NoncesFresh ==
  /\ \A i, j \in DOMAIN packets :
       packets[i].key = packets[j].key /\ packets[i].nonce = packets[j].nonce => i = j
  /\ \A p \in DOMAIN sessions, k \in DOMAIN packets :
       DecryptsTo(sessions[p].key, packets[k]) \subseteq {<< packets[k].plain >>}
=============================================================================
