----------------------------- MODULE RateControl -----------------------------
(***************************************************************************)
(* Sequence numbers, Naks and the congestion control of the PacketHandlers *)
(* at the two ends of one link (src/packet_handler.rs, src/sequence.rs).   *)
(*                                                                         *)
(* Packets are numbered per socket address.  `recv' remembers the number   *)
(* of the last packet and answers every packet it can decrypt, a Nak too,  *)
(* with a Nak of the numbers in between.  The Naks received and the number *)
(* of packets sent give the loss rate by which the delay is changed.       *)
(* Handshake packets are sent by a task that first waits for that delay;   *)
(* all others go out at once.                                              *)
(*                                                                         *)
(* Numbers are unsigned with Modulus values (2^32 in the code) and wrap,   *)
(* as in a release build.  Delays are in multiples of RC_DELAY_DECREASE.   *)
(***************************************************************************)
EXTENDS Integers, Sequences, FiniteSets

CONSTANTS
  Modulus,         \* sequence numbers are 0..Modulus - 1
  DefaultDelay,    \* RC_DEFAULT_PACKET_INTERVAL_NANOS
  MaxDelay,        \* u64::MAX, where the conversion from f64 saturates
  LossThreshold,   \* 1 / RC_LOSS_RATE_THRESHOLD
  Fifo,            \* does the network keep packets in order?
  Overtaking,      \* can others be sent while a handshake packet waits?
  MaxMessages,     \* bound: messages sent that are not Naks
  MaxHandshakes,   \* bound: handshake packets sent
  MaxLoss,         \* bound: packets lost
  MaxInFlight      \* bound: packets on their way from each end

ASSUME RateControlAssumption ==
  /\ Modulus \in Nat \ {0}
  /\ DefaultDelay \in Nat /\ MaxDelay \in Nat /\ LossThreshold \in Nat
  /\ DefaultDelay <= MaxDelay
  /\ Fifo \in BOOLEAN /\ Overtaking \in BOOLEAN
  /\ MaxMessages \in Nat /\ MaxHandshakes \in Nat /\ MaxLoss \in Nat /\ MaxInFlight \in Nat
  /\ MaxLoss < Modulus

End == {"here", "there"}
Other(n) == IF n = "here" THEN "there" ELSE "here"

Seq32 == 0..(Modulus - 1)
None  == -1                  \* no entry in a HashMap

VARIABLES
  tx_sequences,   \* the number of the last packet to the other end
  rx_sequences,   \* the number of the last packet from the other end
  nak_count,      \* packets the other end says it missed
  tx_delay,       \* the delay between packets to the other end
  waiting,        \* handshake packets that wait for the delay to pass
  wire,           \* packets on their way from this end
  sent,           \* messages and handshake packets sent so far
  lost            \* packets lost so far, from each end

vars == <<tx_sequences, rx_sequences, nak_count, tx_delay, waiting, wire, sent, lost>>

\* Packets.  A Nak has the range `missed' of numbers, the end not included.
Handshake(s)       == [s |-> s, type |-> "Handshake"]
Message(s)         == [s |-> s, type |-> "Message"]
Nak(s, start, end) == [s |-> s, type |-> "Nak", start |-> start, end |-> end]

Packet ==      [s : Seq32, type : {"Handshake", "Message"}]
          \cup [s : Seq32, type : {"Nak"}, start : Seq32, end : Seq32]

Plus(a, b)  == (a + b) % Modulus
Minus(a, b) == (a - b) % Modulus

\* Seq::inc, on a number that starts at 0.
Inc(n) == Plus(IF tx_sequences[n] = None THEN 0 ELSE tx_sequences[n], 1)

\* A packet can go out: none waits that it may not overtake, and there is room.
CanSend(n) == (Overtaking \/ waiting[n] = {}) /\ Len(wire[n]) < MaxInFlight

-----------------------------------------------------------------------------
(* Sending *)

\* multisend, of a message that is not a Nak.
SendMessage(n) ==
  /\ CanSend(n) /\ sent.messages < MaxMessages
  /\ tx_sequences' = [tx_sequences EXCEPT ![n] = Inc(n)]
  /\ wire' = [wire EXCEPT ![n] = Append(@, Message(Inc(n)))]
  /\ sent' = [sent EXCEPT !.messages = @ + 1]
  /\ UNCHANGED <<rx_sequences, nak_count, tx_delay, waiting, lost>>

\* send: the packet has its number before the task that sends it waits.
SendHandshake(n) ==
  /\ CanSend(n) /\ sent.handshakes < MaxHandshakes
  /\ tx_sequences' = [tx_sequences EXCEPT ![n] = Inc(n)]
  /\ waiting' = [waiting EXCEPT ![n] = @ \cup {Handshake(Inc(n))}]
  /\ sent' = [sent EXCEPT !.handshakes = @ + 1]
  /\ UNCHANGED <<rx_sequences, nak_count, tx_delay, wire, lost>>

\* send: the delay has passed.
DelayEnds(n) ==
  /\ Len(wire[n]) < MaxInFlight
  /\ \E p \in waiting[n] :
        /\ waiting' = [waiting EXCEPT ![n] = @ \ {p}]
        /\ wire' = [wire EXCEPT ![n] = Append(@, p)]
  /\ UNCHANGED <<tx_sequences, rx_sequences, nak_count, tx_delay, sent, lost>>

-----------------------------------------------------------------------------
(* Receiving *)

\* The wire without its i-th packet.
Take(w, i) == SubSeq(w, 1, i - 1) \o SubSeq(w, i + 1, Len(w))

\* The positions from which the next packet may come.
Arriving(w) == {i \in DOMAIN w : Fifo => i = 1}

\* RC_DELAY_INCREASE: a factor of 2 to 8, cut off to an integer.
Increased(d) == {IF e > MaxDelay THEN MaxDelay ELSE e : e \in (2 * d)..(8 * d)}

\* Mutant: the numbers missed include that of the last packet.
CountNakOffByOne(n, p) ==
  nak_count' = [nak_count EXCEPT ![n] = Plus(@, Plus(Minus(p.end, p.start), 1))]

\* recv, of a Nak: the count.
CountNak(n, p) ==
  nak_count' = [nak_count EXCEPT ![n] = Plus(@, Minus(p.end, p.start))]

\* Mutant: the delay is not limited.
IncreaseDelayUnlimited(n) ==
  tx_delay' = [tx_delay EXCEPT ![n] = IF @ = None THEN DefaultDelay ELSE 2 * @ + 1]

\* recv, of a Nak: the delay.
IncreaseDelay(n) ==
  \E d \in IF tx_delay[n] = None THEN {DefaultDelay} ELSE Increased(tx_delay[n]) :
    tx_delay' = [tx_delay EXCEPT ![n] = d]

\* recv, at n, of the i-th packet on the wire.
Recv(n, i) ==
  LET p      == wire[Other(n)][i]
      prev   == rx_sequences[n]
      \* a packet that is decrypted is answered if there was one before it
      answer == p.type # "Handshake" /\ prev # None
      left   == [wire EXCEPT ![Other(n)] = Take(@, i)]
  IN  /\ rx_sequences' = [rx_sequences EXCEPT ![n] = p.s]
      /\ IF p.type = "Nak" THEN CountNak(n, p) /\ IncreaseDelay(n)
                           ELSE UNCHANGED <<nak_count, tx_delay>>
      /\ IF answer
         THEN /\ CanSend(n)
              /\ tx_sequences' = [tx_sequences EXCEPT ![n] = Inc(n)]
              /\ wire' = [left EXCEPT ![n] = Append(@, Nak(Inc(n), Plus(prev, 1), p.s))]
         ELSE wire' = left /\ UNCHANGED tx_sequences
      /\ UNCHANGED <<waiting, sent, lost>>

\* The network loses a packet.
Lose(n, i) ==
  /\ lost[n] < MaxLoss
  /\ wire' = [wire EXCEPT ![n] = Take(@, i)]
  /\ lost' = [lost EXCEPT ![n] = @ + 1]
  /\ UNCHANGED <<tx_sequences, rx_sequences, nak_count, tx_delay, waiting, sent>>

-----------------------------------------------------------------------------
(* The rate control timer *)

\* The loss rate is below the threshold.  rc_sequences is never written, so the
\* packets are counted from the first.
LossIsLow(n) ==
  tx_sequences[n] = 0 \/ nak_count[n] * LossThreshold < tx_sequences[n]

\* update_rate_control
UpdateRateControl(n) ==
  /\ tx_sequences[n] # None /\ LossIsLow(n)
  /\ tx_delay' = [tx_delay EXCEPT ![n] = IF @ = None THEN DefaultDelay
                                         ELSE IF @ > 1 THEN @ - 1 ELSE 0]
  /\ UNCHANGED <<tx_sequences, rx_sequences, nak_count, waiting, wire, sent, lost>>

-----------------------------------------------------------------------------
Init ==
  /\ tx_sequences = [n \in End |-> None]
  /\ rx_sequences = [n \in End |-> None]
  /\ nak_count = [n \in End |-> 0]
  /\ tx_delay = [n \in End |-> None]
  /\ waiting = [n \in End |-> {}]
  /\ wire = [n \in End |-> <<>>]
  /\ sent = [messages |-> 0, handshakes |-> 0]
  /\ lost = [n \in End |-> 0]

Next ==
  \E n \in End :
    \/ SendMessage(n) \/ SendHandshake(n) \/ DelayEnds(n) \/ UpdateRateControl(n)
    \/ \E i \in Arriving(wire[Other(n)]) : Recv(n, i)
    \/ \E i \in DOMAIN wire[n] : Lose(n, i)

Spec == Init /\ [][Next]_vars

-----------------------------------------------------------------------------
(* Properties *)

\* Every variable has its type: numbers keep their width, delays saturate.
TypeOK ==
  /\ tx_sequences \in [End -> Seq32 \cup {None}]
  /\ rx_sequences \in [End -> Seq32 \cup {None}]
  /\ nak_count \in [End -> Seq32]
  /\ tx_delay \in [End -> 0..MaxDelay \cup {None}]
  /\ waiting \in [End -> SUBSET Packet]
  /\ wire \in [End -> Seq(Packet)]
  /\ sent \in [messages : 0..MaxMessages, handshakes : 0..MaxHandshakes]
  /\ lost \in [End -> 0..MaxLoss]

\* docs/PROTOCOL.md:44: dropped packets are detected using sequence numbers,
\* exclusively.  So the packets counted by recv are packets that were lost, also
\* when the numbers wrap around.
NaksCountLostPackets == \A n \in End : nak_count[n] <= lost[n]
=============================================================================
