-------------------------- MODULE RateControlProofs --------------------------
(***************************************************************************)
(* Proofs about RateControl: the types, for every network; and, for a      *)
(* network that keeps packets in order and loses fewer of them than there  *)
(* are sequence numbers, that the Naks count only packets that were lost,  *)
(* however often the numbers wrap.                                         *)
(***************************************************************************)
EXTENDS RateControlLinks

USE RateControlAssumption

-----------------------------------------------------------------------------
(* Types, whatever the network does *)

\* The loss of a packet keeps the types.
LEMMA LoseTypes ==
  ASSUME TypeOK, NEW n \in End, NEW i \in DOMAIN wire[n], Lose(n, i)
  PROVE  TypeOK'
<1>1. wire[n] \in Seq(Packet) /\ i \in 1..Len(wire[n])
  BY DEF TypeOK
<1>2. Take(wire[n], i) \in Seq(Packet)
  BY <1>1, TakeOne
<1>3. wire' \in [End -> Seq(Packet)]
  BY <1>2 DEF Lose, TypeOK
<1>4. lost' \in [End -> 0..MaxLoss]
  BY DEF Lose, TypeOK
<1> QED
  BY Zenon, <1>3, <1>4 DEF Lose, TypeOK

\* What `recv' does: p arrives at n, prev came before it, and the other end's
\* wire is left as h.
LEMMA RecvEffect ==
  ASSUME TypeOK, NEW n \in End, NEW i \in DOMAIN wire[Other(n)], Recv(n, i),
         NEW p, p = wire[Other(n)][i], NEW h, h = Take(wire[Other(n)], i)
  PROVE  /\ p \in Packet /\ h \in Seq(Packet)
         /\ rx_sequences' = [rx_sequences EXCEPT ![n] = p.s]
         /\ wire'[Other(n)] = h /\ wire' \in [End -> Seq(Packet)]
         /\ UNCHANGED <<waiting, sent, lost>>
         /\ \/ /\ p.type = "Nak" /\ CountNak(n, p) /\ IncreaseDelay(n)
            \/ /\ p.type # "Nak" /\ UNCHANGED <<nak_count, tx_delay>>
         /\ \/ /\ wire'[n] = wire[n] /\ UNCHANGED tx_sequences
            \/ /\ rx_sequences[n] # None /\ CanSend(n)
               /\ tx_sequences' = [tx_sequences EXCEPT ![n] = Inc(n)]
               /\ Nak(Inc(n), Plus(rx_sequences[n], 1), p.s) \in Packet
               /\ wire'[n] = Append(wire[n], Nak(Inc(n), Plus(rx_sequences[n], 1), p.s))
<1>1. Other(n) \in End /\ Other(n) # n
  BY EndTypes
<1>2. wire[Other(n)] \in Seq(Packet) /\ i \in 1..Len(wire[Other(n)])
  BY <1>1 DEF TypeOK
<1>3. p \in Packet /\ h \in Seq(Packet)
  BY <1>2, TakeOne
<1>4. PICK left : left = [wire EXCEPT ![Other(n)] = h]
  BY Zenon
<1>5. left \in [End -> Seq(Packet)] /\ left[Other(n)] = h /\ left[n] = wire[n] /\ wire[n] \in Seq(Packet)
  BY <1>1, <1>3, <1>4 DEF TypeOK
<1>6. /\ rx_sequences' = [rx_sequences EXCEPT ![n] = p.s]
      /\ UNCHANGED <<waiting, sent, lost>>
      /\ \/ /\ p.type = "Nak" /\ CountNak(n, p) /\ IncreaseDelay(n)
         \/ /\ p.type # "Nak" /\ UNCHANGED <<nak_count, tx_delay>>
  BY DEF Recv
<1>7. \/ wire' = left /\ UNCHANGED tx_sequences
      \/ /\ rx_sequences[n] # None /\ CanSend(n)
         /\ tx_sequences' = [tx_sequences EXCEPT ![n] = Inc(n)]
         /\ wire' = [left EXCEPT ![n] = Append(@, Nak(Inc(n), Plus(rx_sequences[n], 1), p.s))]
  BY <1>4 DEF Recv
<1>8. CASE wire' = left /\ UNCHANGED tx_sequences
  BY <1>3, <1>5, <1>6, <1>8
<1>9. CASE /\ rx_sequences[n] # None /\ CanSend(n)
           /\ tx_sequences' = [tx_sequences EXCEPT ![n] = Inc(n)]
           /\ wire' = [left EXCEPT ![n] = Append(@, Nak(Inc(n), Plus(rx_sequences[n], 1), p.s))]
  <2>1. Plus(rx_sequences[n], 1) \in Seq32
    <3>1. rx_sequences[n] \in Int
      BY <1>9 DEF TypeOK, Seq32, None
    <3> QED
      BY <3>1, Width
  <2>2. PICK a \in Packet : a = Nak(Inc(n), Plus(rx_sequences[n], 1), p.s)
    <3>1. Inc(n) \in Seq32 /\ p.s \in Seq32
      BY <1>3, NumberTypes, MissedType
    <3>2. Nak(Inc(n), Plus(rx_sequences[n], 1), p.s) \in Packet
      BY <2>1, <3>1 DEF Nak, Packet
    <3> QED
      BY <3>2
  <2>3. wire' = [left EXCEPT ![n] = Append(@, a)]
    BY <1>9, <2>2
  <2>4. /\ wire' \in [End -> Seq(Packet)] /\ wire'[Other(n)] = h
        /\ wire'[n] = Append(wire[n], a)
    BY <1>1, <1>5, <2>2, <2>3
  <2> QED
    BY <1>3, <1>6, <1>9, <2>2, <2>4
<1> QED
  BY <1>7, <1>8, <1>9

\* recv keeps the types, with the Nak it sends and the delays it changes.
LEMMA RecvTypes ==
  ASSUME TypeOK, NEW n \in End, NEW i \in DOMAIN wire[Other(n)], Recv(n, i)
  PROVE  TypeOK'
<1>1. PICK p, h : p = wire[Other(n)][i] /\ h = Take(wire[Other(n)], i)
  OBVIOUS
<1>2. /\ p \in Packet /\ rx_sequences' = [rx_sequences EXCEPT ![n] = p.s]
      /\ wire' \in [End -> Seq(Packet)] /\ UNCHANGED <<waiting, sent, lost>>
  BY <1>1, RecvEffect
<1>3. p.s \in Seq32
  BY <1>2, MissedType
<1>4. rx_sequences' \in [End -> Seq32 \cup {None}]
  BY <1>2, <1>3 DEF TypeOK
<1>5. tx_sequences' \in [End -> Seq32 \cup {None}]
  <2>1. UNCHANGED tx_sequences \/ tx_sequences' = [tx_sequences EXCEPT ![n] = Inc(n)]
    BY <1>1, RecvEffect
  <2>2. Inc(n) \in Seq32
    BY NumberTypes
  <2> QED
    BY Zenon, <2>1, <2>2 DEF TypeOK
<1>6. nak_count' \in [End -> Seq32] /\ tx_delay' \in [End -> 0..MaxDelay \cup {None}]
  <2>1. CASE p.type # "Nak" /\ UNCHANGED <<nak_count, tx_delay>>
    BY <2>1 DEF TypeOK
  <2>2. CASE p.type = "Nak" /\ CountNak(n, p) /\ IncreaseDelay(n)
    <3>1. PICK v \in Seq32 : v = Plus(nak_count[n], Minus(p.end, p.start))
      <4>1. nak_count[n] \in Int
        BY DEF TypeOK, Seq32
      <4>2. p.end \in Int /\ p.start \in Int
        BY <1>2, <2>2 DEF Packet, Seq32
      <4>3. Minus(p.end, p.start) \in Seq32
        BY <4>2, Width
      <4>4. Minus(p.end, p.start) \in Int
        BY <4>3 DEF Seq32
      <4>5. Plus(nak_count[n], Minus(p.end, p.start)) \in Seq32
        BY <4>1, <4>4, Width
      <4> QED
        BY <4>5
    <3>2. nak_count' = [nak_count EXCEPT ![n] = v]
      BY <2>2, <3>1 DEF CountNak
    <3>3. tx_delay[n] \in 0..MaxDelay \cup {None}
      BY DEF TypeOK
    <3>4. PICK d \in IF tx_delay[n] = None THEN {DefaultDelay} ELSE Increased(tx_delay[n]) :
             tx_delay' = [tx_delay EXCEPT ![n] = d]
      BY Zenon, <2>2 DEF IncreaseDelay
    <3>5. d \in 0..MaxDelay
      <4>1. CASE tx_delay[n] = None
        BY <3>4, <4>1
      <4>2. CASE tx_delay[n] # None
        <5>1. PICK x \in 0..MaxDelay : x = tx_delay[n]
          BY <3>3, <4>2
        <5>2. PICK e \in (2 * x)..(8 * x) : d = IF e > MaxDelay THEN MaxDelay ELSE e
          BY <3>4, <4>2, <5>1 DEF Increased
        <5> QED
          BY <5>2
      <4> QED
        BY <4>1, <4>2
    <3> QED
      BY <3>2, <3>4, <3>5 DEF TypeOK
  <2> QED
    BY <1>1, <2>1, <2>2, RecvEffect
<1> QED
  BY Zenon, <1>2, <1>4, <1>5, <1>6 DEF TypeOK

\* Every step keeps the types.
LEMMA NextTypes ==
  ASSUME TypeOK, [Next]_vars
  PROVE  TypeOK'
<1>1. CASE Next
  <2>1. PICK n \in End :
           \/ SendMessage(n) \/ SendHandshake(n) \/ DelayEnds(n) \/ UpdateRateControl(n)
           \/ \E i \in Arriving(wire[Other(n)]) : Recv(n, i)
           \/ \E i \in DOMAIN wire[n] : Lose(n, i)
    BY <1>1 DEF Next
  <2>2. CASE SendMessage(n)
    BY <2>2, SendMessageTypes
  <2>3. CASE SendHandshake(n)
    BY <2>3, SendHandshakeTypes
  <2>4. CASE DelayEnds(n)
    BY <2>4, DelayEndsTypes
  <2>5. CASE UpdateRateControl(n)
    BY <2>5, UpdateRateControlTypes
  <2>6. ASSUME NEW i \in Arriving(wire[Other(n)]), Recv(n, i)
        PROVE  TypeOK'
    <3>1. i \in DOMAIN wire[Other(n)]
      BY DEF Arriving
    <3> QED
      BY <2>6, <3>1, RecvTypes
  <2>7. ASSUME NEW i \in DOMAIN wire[n], Lose(n, i)
        PROVE  TypeOK'
    BY <2>7, LoseTypes
  <2> QED
    BY <2>1, <2>2, <2>3, <2>4, <2>5, <2>6, <2>7
<1>2. CASE UNCHANGED vars
  BY <1>2 DEF vars, TypeOK
<1> QED
  BY <1>1, <1>2

\* Every variable keeps its type, on every network: sequence numbers and counts
\* keep their width when they wrap, and recv's increase of the delay saturates.
THEOREM RateTypes == Spec => []TypeOK
<1>1. Init => TypeOK
  BY InitTypes
<1>2. TypeOK /\ [Next]_vars => TypeOK'
  BY NextTypes
<1> QED
  BY <1>1, <1>2, PTL DEF Spec

-----------------------------------------------------------------------------
(* The links, on a network that keeps packets in order *)

Link(n) == Linked(tx_sequences[n], rx_sequences[Other(n)], waiting[n], wire[n],
                  nak_count[n], wire[Other(n)], lost[n])

\* The inductive invariant.
Inv == TypeOK /\ \A n \in End : Link(n)

\* The values the lemmas on links are applied to.
LEMMA Values ==
  ASSUME TypeOK, NEW n \in End
  PROVE  wire[n] \in Seq(Packet) /\ nak_count[n] \in Nat /\ lost[n] \in Nat /\ lost[n] < Modulus
BY DEF TypeOK, Seq32

\* Both ends.
LEMMA Both ==
  ASSUME NEW n \in End, Link(n)', Link(Other(n))'
  PROVE  (\A k \in End : Link(k))'
<1>1. ASSUME NEW k \in End
      PROVE  Link(k)'
  <2>1. k = n \/ k = Other(n)
    BY DEF End, Other
  <2>2. CASE k = n
    BY <2>2
  <2>3. CASE k = Other(n)
    BY <2>3
  <2> QED
    BY <2>1, <2>2, <2>3
<1> QED
  BY <1>1

\* Only a Nak tells of packets that were missed.
LEMMA NoNak ==
  ASSUME NEW s
  PROVE  Missed(Message(s)) = 0 /\ Missed(Handshake(s)) = 0
BY DEF Missed, Message, Handshake

\* Initially nothing is on a link.
LEMMA InitLinks ==
  ASSUME Init, NEW n \in End
  PROVE  Link(n)
<1>1. Other(n) \in End
  BY EndTypes
<1>2. /\ tx_sequences[n] = None /\ rx_sequences[Other(n)] = None /\ waiting[n] = {}
      /\ wire[n] = <<>> /\ nak_count[n] = 0 /\ wire[Other(n)] = <<>> /\ lost[n] = 0
  BY <1>1 DEF Init
<1>3. PICK f \in [Nat -> Nat] : f = [i \in Nat |-> i]
  <2>1. [i \in Nat |-> i] \in [Nat -> Nat]
    OBVIOUS
  <2> QED
    BY Zenon, <2>1
<1>4. Stream(<<>>, 0, 0)
  <2>1. Rises(f, 1)
    BY <1>3 DEF Rises
  <2>2. f[0] = 0 /\ f[1] = 1
    BY <1>3
  <2>3. Len(<<>>) + 1 = 1 /\ 0 + 1 = 1 /\ \A i \in 1..Len(<<>>) : FALSE
    OBVIOUS
  <2>4. InOrder(<<>>, 0, 0, f)
    BY <2>1, <2>2, <2>3 DEF InOrder
  <2> QED
    BY <2>4 DEF Stream
<1>5. Account(0, <<>>, 0)
  <2>1. 0 <= f[0]
    BY <1>3
  <2>2. \A i \in 0..Len(<<>>) : f[i] <= 0
    BY <1>3
  <2>3. \A i \in 1..Len(<<>>) : FALSE
    OBVIOUS
  <2>4. Sums(0, <<>>, 0, f)
    BY <2>1, <2>2, <2>3 DEF Sums
  <2> QED
    BY <2>4 DEF Account
<1>6. LinkedAt(None, None, {}, <<>>, 0, <<>>, 0, 0, 0, 0)
  <2>1. Len(<<>>) = 0 /\ 0 - 0 = 0
    OBVIOUS
  <2>2. Waits({}) = 0 /\ Last(0) = None
    BY DEF Waits, Last
  <2>3. 0 + Waits({}) = 0
    BY <2>2
  <2>4. 0 - ((0 - 0) - Len(<<>>)) = 0
    BY Zenon, <2>1
  <2> QED
    BY <1>4, <1>5, <2>2, <2>3, <2>4 DEF LinkedAt
<1>7. Linked(None, None, {}, <<>>, 0, <<>>, 0)
  BY <1>6 DEF Linked
<1> QED
  BY <1>2, <1>7 DEF Link

\* A message is sent on one link, and concerns the other only as its way back.
LEMMA SendMessageLinks ==
  ASSUME ~Overtaking, Inv, NEW n \in End, SendMessage(n)
  PROVE  (\A k \in End : Link(k))'
<1>1. PICK m \in End : m = Other(n) /\ Other(m) = n /\ m # n
  BY EndTypes
<1>2. PICK s \in Seq32, p \in Packet :
         s = Inc(n) /\ s = Following(tx_sequences[n]) /\ p = Message(s) /\ p.s = s /\ Missed(p) = 0
  <2>1. PICK s \in Seq32 : s = Inc(n) /\ s = Following(tx_sequences[n])
    BY NumberTypes DEF Inv
  <2>2. Message(s) \in Packet /\ Message(s).s = s /\ Missed(Message(s)) = 0
    BY NoNak DEF Message, Packet
  <2> QED
    BY <2>1, <2>2
<1>3. waiting[n] = {}
  BY DEF SendMessage, CanSend
<1>4. /\ tx_sequences'[n] = s /\ tx_sequences'[m] = tx_sequences[m]
      /\ wire'[n] = Append(wire[n], p) /\ wire'[m] = wire[m]
      /\ UNCHANGED <<rx_sequences, nak_count, waiting, lost>>
  BY <1>1, <1>2 DEF SendMessage, Inv, TypeOK
<1>5. /\ wire[n] \in Seq(Packet) /\ nak_count[n] \in Nat /\ lost[n] \in Nat
      /\ wire[m] \in Seq(Packet) /\ nak_count[m] \in Nat /\ lost[m] \in Nat
  BY Values DEF Inv
<1>6. Link(n)'
  <2>1. Linked(tx_sequences[n], rx_sequences[m], {}, wire[n], nak_count[n], wire[m], lost[n])
    BY <1>1, <1>3 DEF Inv, Link
  <2>2. Linked(s, rx_sequences[m], {}, Append(wire[n], p), nak_count[n], wire[m], lost[n])
    BY <1>2, <1>5, <2>1, LinkSends
  <2> QED
    BY Zenon, <1>1, <1>3, <1>4, <2>2 DEF Link
<1>7. Link(m)'
  <2>1. Linked(tx_sequences[m], rx_sequences[n], waiting[m], wire[m], nak_count[m], wire[n], lost[m])
    BY <1>1 DEF Inv, Link
  <2>2. Linked(tx_sequences[m], rx_sequences[n], waiting[m], wire[m], nak_count[m],
               Append(wire[n], p), lost[m])
    BY <1>2, <1>5, <2>1, LinkSendsBack
  <2> QED
    BY <1>1, <1>4, <2>2 DEF Link
<1> QED
  BY <1>1, <1>6, <1>7, Both

\* A handshake packet is numbered and waits.
LEMMA SendHandshakeLinks ==
  ASSUME ~Overtaking, Inv, NEW n \in End, SendHandshake(n)
  PROVE  (\A k \in End : Link(k))'
<1>1. PICK m \in End : m = Other(n) /\ Other(m) = n /\ m # n
  BY EndTypes
<1>2. PICK s \in Seq32 : s = Inc(n) /\ s = Following(tx_sequences[n])
  BY NumberTypes DEF Inv
<1>3. waiting[n] = {}
  BY DEF SendHandshake, CanSend
<1>4. /\ tx_sequences'[n] = s /\ tx_sequences'[m] = tx_sequences[m]
      /\ waiting'[n] = {Handshake(s)} /\ waiting'[m] = waiting[m]
      /\ UNCHANGED <<rx_sequences, nak_count, wire, lost>>
  BY <1>1, <1>2, <1>3 DEF SendHandshake, Inv, TypeOK
<1>5. /\ wire[n] \in Seq(Packet) /\ nak_count[n] \in Nat /\ lost[n] \in Nat /\ wire[m] \in Seq(Packet)
  BY Values DEF Inv
<1>6. Link(n)'
  <2>1. Linked(tx_sequences[n], rx_sequences[m], {}, wire[n], nak_count[n], wire[m], lost[n])
    BY <1>1, <1>3 DEF Inv, Link
  <2>2. Linked(s, rx_sequences[m], {Handshake(s)}, wire[n], nak_count[n], wire[m], lost[n])
    BY <1>2, <1>5, <2>1, LinkWaits
  <2> QED
    BY <1>1, <1>4, <2>2 DEF Link
<1>7. Link(m)'
  BY <1>1, <1>4 DEF Inv, Link
<1> QED
  BY <1>1, <1>6, <1>7, Both

\* Only a handshake packet waits.
LEMMA NoNakWaits ==
  ASSUME NEW n \in End, Link(n), NEW p \in waiting[n]
  PROVE  Missed(p) = 0
<1>1. PICK t \in Nat : waiting[n] \subseteq {Handshake(Number(t))}
  BY DEF Link, Linked, LinkedAt
<1>2. p = Handshake(Number(t))
  BY <1>1
<1> QED
  BY <1>2, NoNak

\* A handshake packet that has waited is sent.
LEMMA DelayEndsLinks ==
  ASSUME Inv, NEW n \in End, DelayEnds(n)
  PROVE  (\A k \in End : Link(k))'
<1>1. PICK m \in End : m = Other(n) /\ Other(m) = n /\ m # n
  BY EndTypes
<1>2. PICK p \in waiting[n] : /\ waiting' = [waiting EXCEPT ![n] = @ \ {p}]
                              /\ wire' = [wire EXCEPT ![n] = Append(@, p)]
  BY Zenon DEF DelayEnds
<1>3. p \in Packet /\ Missed(p) = 0
  BY NoNakWaits DEF Inv, TypeOK
<1>4. /\ waiting'[n] = waiting[n] \ {p} /\ waiting'[m] = waiting[m]
      /\ wire'[n] = Append(wire[n], p) /\ wire'[m] = wire[m]
      /\ UNCHANGED <<tx_sequences, rx_sequences, nak_count, lost>>
  BY <1>1, <1>2 DEF DelayEnds, Inv, TypeOK
<1>5. /\ wire[n] \in Seq(Packet) /\ nak_count[n] \in Nat /\ lost[n] \in Nat
      /\ wire[m] \in Seq(Packet) /\ nak_count[m] \in Nat /\ lost[m] \in Nat
  BY Values DEF Inv
<1>6. Link(n)'
  <2>1. Linked(tx_sequences[n], rx_sequences[m], waiting[n], wire[n], nak_count[n], wire[m], lost[n])
    BY <1>1 DEF Inv, Link
  <2>2. Linked(tx_sequences[n], rx_sequences[m], waiting[n] \ {p}, Append(wire[n], p),
               nak_count[n], wire[m], lost[n])
    BY <1>3, <1>5, <2>1, LinkDelayEnds
  <2> QED
    BY <1>1, <1>4, <2>2 DEF Link
<1>7. Link(m)'
  <2>1. Linked(tx_sequences[m], rx_sequences[n], waiting[m], wire[m], nak_count[m], wire[n], lost[m])
    BY <1>1 DEF Inv, Link
  <2>2. Linked(tx_sequences[m], rx_sequences[n], waiting[m], wire[m], nak_count[m],
               Append(wire[n], p), lost[m])
    BY <1>3, <1>5, <2>1, LinkSendsBack
  <2> QED
    BY <1>1, <1>4, <2>2 DEF Link
<1> QED
  BY <1>1, <1>6, <1>7, Both

\* A packet is lost; if it is a Nak, what it tells of is never counted.
LEMMA LoseLinks ==
  ASSUME Inv, NEW n \in End, NEW i \in DOMAIN wire[n], Lose(n, i)
  PROVE  (\A k \in End : Link(k))'
<1>1. PICK m \in End : m = Other(n) /\ Other(m) = n /\ m # n
  BY EndTypes
<1>2. /\ wire'[n] = Take(wire[n], i) /\ wire'[m] = wire[m]
      /\ lost'[n] = lost[n] + 1 /\ lost'[m] = lost[m]
      /\ UNCHANGED <<tx_sequences, rx_sequences, nak_count, waiting>>
  BY <1>1 DEF Lose, Inv, TypeOK
<1>3. /\ wire[n] \in Seq(Packet) /\ nak_count[n] \in Nat /\ lost[n] \in Nat
      /\ wire[m] \in Seq(Packet) /\ nak_count[m] \in Nat /\ lost[m] \in Nat
  BY Values DEF Inv
<1>4. i \in 1..Len(wire[n])
  BY <1>3
<1>5. Link(n)'
  <2>1. Linked(tx_sequences[n], rx_sequences[m], waiting[n], wire[n], nak_count[n], wire[m], lost[n])
    BY <1>1 DEF Inv, Link
  <2>2. Linked(tx_sequences[n], rx_sequences[m], waiting[n], Take(wire[n], i), nak_count[n],
               wire[m], lost[n] + 1)
    BY <1>3, <1>4, <2>1, LinkLoses
  <2> QED
    BY <1>1, <1>2, <2>2 DEF Link
<1>6. Link(m)'
  <2>1. Linked(tx_sequences[m], rx_sequences[n], waiting[m], wire[m], nak_count[m], wire[n], lost[m])
    BY <1>1 DEF Inv, Link
  <2>2. Linked(tx_sequences[m], rx_sequences[n], waiting[m], wire[m], nak_count[m],
               Take(wire[n], i), lost[m])
    BY <1>3, <1>4, <2>1, LinkLosesBack
  <2> QED
    BY <1>1, <1>2, <2>2 DEF Link
<1> QED
  BY <1>1, <1>5, <1>6, Both

\* recv, of the first packet on the wire: n counts what it tells, and answers.
LEMMA RecvLinks ==
  ASSUME ~Overtaking, Inv, NEW n \in End, 1 \in DOMAIN wire[Other(n)], Recv(n, 1)
  PROVE  (\A k \in End : Link(k))'
<1>1. PICK m \in End : m = Other(n) /\ Other(m) = n /\ m # n
  BY EndTypes
<1>2. /\ wire[n] \in Seq(Packet) /\ nak_count[n] \in Nat /\ lost[n] \in Nat /\ lost[n] < Modulus
      /\ wire[m] \in Seq(Packet) /\ nak_count[m] \in Nat /\ lost[m] \in Nat /\ lost[m] < Modulus
  BY Values DEF Inv
<1>3. wire[m] # <<>>
  BY <1>1, <1>2
<1>4. PICK p, h : p = wire[m][1] /\ h = Take(wire[m], 1)
  OBVIOUS
<1>5. /\ p \in Packet /\ h \in Seq(Packet) /\ wire'[m] = h
      /\ rx_sequences' = [rx_sequences EXCEPT ![n] = p.s]
      /\ UNCHANGED <<waiting, lost>>
      /\ \/ p.type = "Nak" /\ CountNak(n, p)
         \/ p.type # "Nak" /\ UNCHANGED nak_count
      /\ \/ wire'[n] = wire[n] /\ UNCHANGED tx_sequences
         \/ /\ rx_sequences[n] # None /\ CanSend(n)
            /\ tx_sequences' = [tx_sequences EXCEPT ![n] = Inc(n)]
            /\ Nak(Inc(n), Plus(rx_sequences[n], 1), p.s) \in Packet
            /\ wire'[n] = Append(wire[n], Nak(Inc(n), Plus(rx_sequences[n], 1), p.s))
  BY <1>1, <1>4, RecvEffect DEF Inv
<1>6. rx_sequences'[n] = p.s /\ rx_sequences'[m] = rx_sequences[m]
  BY <1>1, <1>5 DEF Inv, TypeOK
<1>7. PICK c \in Nat : c = nak_count[n] + Missed(p)
  BY <1>2, <1>5, MissedType
<1>8. /\ c <= lost[n]
      /\ Linked(tx_sequences[n], rx_sequences[m], waiting[n], wire[n], c, h, lost[n])
  <2>1. Linked(tx_sequences[n], rx_sequences[m], waiting[n], wire[n], nak_count[n], wire[m], lost[n])
    BY <1>1 DEF Inv, Link
  <2> QED
    BY <1>2, <1>3, <1>4, <1>7, <2>1, LinkCounts
<1>9. nak_count'[n] = c /\ nak_count'[m] = nak_count[m]
  <2>1. CASE p.type = "Nak" /\ CountNak(n, p)
    <3>1. PICK d \in Nat : d = Missed(p) /\ d = Minus(p.end, p.start)
      BY <1>5, <2>1, MissedType DEF Missed
    <3>2. nak_count[n] + d < Modulus
      BY <1>2, <1>7, <1>8, <3>1
    <3>3. Plus(nak_count[n], d) = c
      BY <1>2, <1>7, <3>1, <3>2, NoWrap
    <3>4. nak_count' = [nak_count EXCEPT ![n] = c]
      BY <2>1, <3>1, <3>3 DEF CountNak
    <3> QED
      BY <1>1, <3>4 DEF Inv, TypeOK
  <2>2. CASE p.type # "Nak" /\ UNCHANGED nak_count
    <3>1. Missed(p) = 0
      BY <2>2 DEF Missed
    <3> QED
      BY <1>2, <1>7, <2>2, <3>1
  <2> QED
    BY <1>5, <2>1, <2>2
<1>10. /\ Linked(tx_sequences[m], p.s, waiting[m], h, nak_count[m], wire[n], lost[m])
       /\ \A a \in Packet :
             rx_sequences[n] # None /\ Missed(a) = Minus(p.s, Plus(rx_sequences[n], 1))
               => Linked(tx_sequences[m], p.s, waiting[m], h, nak_count[m], Append(wire[n], a), lost[m])
  <2>1. Linked(tx_sequences[m], rx_sequences[n], waiting[m], wire[m], nak_count[m], wire[n], lost[m])
    BY <1>1 DEF Inv, Link
  <2> QED
    BY ZenonT(30), <1>2, <1>3, <1>4, <2>1, LinkArrives
<1>11. CASE wire'[n] = wire[n] /\ UNCHANGED tx_sequences
  <2>1. Link(n)'
    BY Zenon, <1>1, <1>5, <1>6, <1>8, <1>9, <1>11 DEF Link
  <2>2. Link(m)'
    BY Zenon, <1>1, <1>5, <1>6, <1>9, <1>10, <1>11 DEF Link
  <2> QED
    BY <1>1, <2>1, <2>2, Both
<1>12. CASE /\ rx_sequences[n] # None /\ CanSend(n)
            /\ tx_sequences' = [tx_sequences EXCEPT ![n] = Inc(n)]
            /\ Nak(Inc(n), Plus(rx_sequences[n], 1), p.s) \in Packet
            /\ wire'[n] = Append(wire[n], Nak(Inc(n), Plus(rx_sequences[n], 1), p.s))
  <2>1. PICK s \in Seq32 : s = Inc(n) /\ s = Following(tx_sequences[n])
    BY NumberTypes DEF Inv
  <2>2. PICK a \in Packet : a = Nak(s, Plus(rx_sequences[n], 1), p.s)
    BY <1>12, <2>1
  <2>3. a.s = s /\ Missed(a) = Minus(p.s, Plus(rx_sequences[n], 1))
    BY <2>2 DEF Nak, Missed
  <2>4. /\ tx_sequences'[n] = s /\ tx_sequences'[m] = tx_sequences[m]
        /\ wire'[n] = Append(wire[n], a) /\ waiting[n] = {}
    BY <1>1, <1>12, <2>1, <2>2 DEF Inv, TypeOK, CanSend
  <2>5. Link(n)'
    <3>1. Linked(s, rx_sequences[m], {}, Append(wire[n], a), c, h, lost[n])
      BY <1>2, <1>5, <1>8, <2>1, <2>3, <2>4, LinkSends
    <3> QED
      BY ZenonT(30), <1>1, <1>5, <1>6, <1>9, <2>4, <3>1 DEF Link
  <2>6. Link(m)'
    <3>1. Linked(tx_sequences[m], p.s, waiting[m], h, nak_count[m], Append(wire[n], a), lost[m])
      BY Zenon, <1>10, <1>12, <2>3
    <3> QED
      BY Zenon, <1>1, <1>5, <1>6, <1>9, <2>4, <3>1 DEF Link
  <2> QED
    BY <1>1, <2>5, <2>6, Both
<1> QED
  BY <1>5, <1>11, <1>12

\* Every step keeps both links, on a network in order and without overtaking.
LEMMA NextLinks ==
  ASSUME Fifo, ~Overtaking, Inv, [Next]_vars
  PROVE  (\A n \in End : Link(n))'
<1>1. CASE Next
  <2>1. PICK n \in End :
           \/ SendMessage(n) \/ SendHandshake(n) \/ DelayEnds(n) \/ UpdateRateControl(n)
           \/ \E i \in Arriving(wire[Other(n)]) : Recv(n, i)
           \/ \E i \in DOMAIN wire[n] : Lose(n, i)
    BY <1>1 DEF Next
  <2>2. CASE SendMessage(n)
    BY <2>2, SendMessageLinks
  <2>3. CASE SendHandshake(n)
    BY <2>3, SendHandshakeLinks
  <2>4. CASE DelayEnds(n)
    BY <2>4, DelayEndsLinks
  <2>5. CASE UpdateRateControl(n)
    BY <2>5 DEF UpdateRateControl, Inv, Link
  <2>6. ASSUME NEW i \in Arriving(wire[Other(n)]), Recv(n, i)
        PROVE  (\A k \in End : Link(k))'
    <3>1. i = 1 /\ i \in DOMAIN wire[Other(n)]
      BY DEF Arriving
    <3> QED
      BY <2>6, <3>1, RecvLinks
  <2>7. ASSUME NEW i \in DOMAIN wire[n], Lose(n, i)
        PROVE  (\A k \in End : Link(k))'
    BY <2>7, LoseLinks
  <2> QED
    BY <2>1, <2>2, <2>3, <2>4, <2>5, <2>6, <2>7
<1>2. CASE UNCHANGED vars
  BY <1>2 DEF vars, Inv, Link
<1> QED
  BY <1>1, <1>2

-----------------------------------------------------------------------------
\* The inductive invariant holds on a network that keeps packets in order, when
\* nothing is sent to a peer while a handshake packet to it waits for its delay.
THEOREM RateControlInvariant ==
  ASSUME Fifo, ~Overtaking
  PROVE  Spec => []Inv
<1>1. Init => Inv
  BY InitTypes, InitLinks DEF Inv
<1>2. Inv /\ [Next]_vars => Inv'
  BY NextTypes, NextLinks DEF Inv
<1> QED
  BY <1>1, <1>2, PTL DEF Spec

\* docs/PROTOCOL.md:44: on such a network recv counts no packet as missed that
\* was not lost, whatever the modulus, the number of packets sent and the number
\* lost, as long as fewer are lost than there are sequence numbers.
THEOREM NaksAreOfLostPackets ==
  ASSUME Fifo, ~Overtaking
  PROVE  Spec => []NaksCountLostPackets
<1>1. Inv => NaksCountLostPackets
  <2> SUFFICES ASSUME Inv, NEW n \in End
               PROVE  nak_count[n] <= lost[n]
    BY DEF NaksCountLostPackets
  <2>1. Other(n) \in End
    BY EndTypes
  <2>2. /\ wire[n] \in Seq(Packet) /\ nak_count[n] \in Nat /\ lost[n] \in Nat
        /\ wire[Other(n)] \in Seq(Packet)
    BY <2>1, Values DEF Inv
  <2>3. Link(n)
    BY DEF Inv
  <2> QED
    BY <2>2, <2>3, LinkCounted DEF Link
<1> QED
  BY <1>1, RateControlInvariant, PTL
=============================================================================
