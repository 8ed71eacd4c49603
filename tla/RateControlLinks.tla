-------------------------- MODULE RateControlLinks --------------------------
(***************************************************************************)
(* Lemmas about one link of RateControl: numbers that wrap, the stream of  *)
(* packets from one end, and what its Naks make the other end count; and   *)
(* that what is sent has its type.                                         *)
(*                                                                         *)
(* The numbers are compared with the positions of the packets in the       *)
(* stream, which never wrap.                                               *)
(***************************************************************************)
EXTENDS RateControl, SequenceTheorems, TLAPS

USE RateControlAssumption

-----------------------------------------------------------------------------
(* Numbers that wrap *)

\* The number of a position, and the multiples of the modulus.
Number(a) == a % Modulus
Times(q)  == Modulus * q

\* What is used of multiplication by the modulus.
LEMMA TimesLaws ==
  /\ \A q \in Int : Times(q) \in Int
  /\ \A q, k \in Int : Times(q + k) = Times(q) + Times(k)
  /\ \A q, k \in Int : Times(q - k) = Times(q) - Times(k)
  /\ \A q \in Int : q >= 1 => Times(q) >= Modulus
<1>1. ASSUME NEW q \in Int, NEW k \in Int
      PROVE  /\ Modulus * q \in Int
             /\ Modulus * (q + k) = Modulus * q + Modulus * k
             /\ Modulus * (q - k) = Modulus * q - Modulus * k
  OBVIOUS
<1>2. ASSUME NEW q \in Int, q >= 1
      PROVE  Modulus * q >= Modulus
  BY <1>2
<1> QED
  BY <1>1, <1>2 DEF Times

\* Every position is a multiple of the modulus and its number.
LEMMA DivMod ==
  \A a \in Int : Number(a) \in 0..(Modulus - 1) /\ \E q \in Int : a = Times(q) + Number(a)
<1> SUFFICES ASSUME NEW a \in Int
             PROVE  Number(a) \in 0..(Modulus - 1) /\ \E q \in Int : a = Times(q) + Number(a)
  OBVIOUS
<1>1. a % Modulus \in 0..(Modulus - 1)
  OBVIOUS
<1>2. a \div Modulus \in Int
  OBVIOUS
<1>3. a = Modulus * (a \div Modulus) + (a % Modulus)
  OBVIOUS
<1> QED
  BY Zenon, <1>1, <1>2, <1>3 DEF Number, Times

\* A remainder is unique.
LEMMA Remainder ==
  ASSUME NEW a \in Int, NEW q \in Int, NEW r \in 0..(Modulus - 1), a = Times(q) + r
  PROVE  Number(a) = r
<1>1. PICK k \in Int : a = Times(k) + Number(a)
  BY DivMod
<1>2. PICK t \in 0..(Modulus - 1) : t = Number(a)
  BY DivMod
<1>3. /\ Times(q - k) = Times(q) - Times(k) /\ Times(k - q) = Times(k) - Times(q)
      /\ Times(q) \in Int /\ Times(k) \in Int
  BY Zenon, TimesLaws
<1>4. Times(q - k) = t - r /\ Times(k - q) = r - t
  BY <1>1, <1>2, <1>3
<1>5. ~(q - k >= 1)
  <2>1. q - k \in Int /\ (q - k >= 1 => Times(q - k) >= Modulus)
    BY TimesLaws
  <2> QED
    BY <1>4, <2>1
<1>6. ~(k - q >= 1)
  <2>1. k - q \in Int /\ (k - q >= 1 => Times(k - q) >= Modulus)
    BY TimesLaws
  <2> QED
    BY <1>4, <2>1
<1>7. q = k
  BY <1>5, <1>6
<1> QED
  BY <1>1, <1>2, <1>3, <1>7

\* Seq::inc numbers the next position.
LEMMA NextNumber ==
  ASSUME NEW t \in Nat
  PROVE  Plus(Number(t), 1) = Number(t + 1)
<1>1. PICK r \in 0..(Modulus - 1) : r = Number(t)
  BY DivMod
<1>2. PICK q \in Int : t = Times(q) + r
  BY <1>1, DivMod
<1>3. PICK u \in 0..(Modulus - 1) : u = Number(r + 1)
  BY DivMod
<1>4. PICK k \in Int : r + 1 = Times(k) + u
  BY <1>3, DivMod
<1>5. t + 1 = Times(q + k) + u
  <2>1. Times(q + k) = Times(q) + Times(k) /\ Times(q) \in Int /\ Times(k) \in Int
    BY Zenon, TimesLaws
  <2> QED
    BY <1>2, <1>4, <2>1
<1>6. Number(t + 1) = u
  BY <1>5, Remainder
<1>7. Plus(r, 1) = Number(r + 1)
  BY DEF Plus, Number
<1> QED
  BY <1>1, <1>3, <1>6, <1>7

\* The numbers between those of two positions are the positions between them.
LEMMA NumbersBetween ==
  ASSUME NEW r \in Nat, NEW p \in Nat, r < p, p - r - 1 < Modulus
  PROVE  Minus(Number(p), Plus(Number(r), 1)) = p - r - 1
<1>1. PICK a \in 0..(Modulus - 1) : a = Number(p)
  BY DivMod
<1>2. PICK q \in Int : p = Times(q) + a
  BY <1>1, DivMod
<1>3. PICK b \in 0..(Modulus - 1) : b = Number(r + 1)
  BY DivMod
<1>4. PICK k \in Int : r + 1 = Times(k) + b
  BY <1>3, DivMod
<1>5. PICK d \in 0..(Modulus - 1) : d = p - r - 1
  OBVIOUS
<1>6. a - b = Times(k - q) + d
  <2>1. Times(k - q) = Times(k) - Times(q) /\ Times(q) \in Int /\ Times(k) \in Int
    BY Zenon, TimesLaws
  <2>2. PICK x \in Int, y \in Int : x = Times(q) /\ y = Times(k)
    BY <2>1
  <2>3. a = p - x /\ b = r + 1 - y
    BY <1>2, <1>4, <2>2
  <2>4. a - b = (y - x) + (p - r - 1)
    BY <2>3
  <2> QED
    BY <1>5, <2>1, <2>2, <2>4
<1>7. Number(a - b) = d
  BY <1>6, Remainder
<1>8. Minus(a, b) = Number(a - b)
  BY DEF Minus, Number
<1> QED
  BY <1>1, <1>3, <1>5, <1>7, <1>8, NextNumber

\* Small numbers do not wrap.
LEMMA NoWrap ==
  ASSUME NEW a \in Nat, NEW b \in Nat, a + b < Modulus
  PROVE  Plus(a, b) = a + b
BY DEF Plus

\* Sums and differences have the width of a number.
LEMMA Width ==
  ASSUME NEW a \in Int, NEW b \in Int
  PROVE  Plus(a, b) \in Seq32 /\ Minus(a, b) \in Seq32
BY DEF Plus, Minus, Seq32

-----------------------------------------------------------------------------
(* The wire without a packet *)

\* The sequence w without its i-th packet.
LEMMA TakeOne ==
  ASSUME NEW S, NEW w \in Seq(S), NEW i \in 1..Len(w)
  PROVE  /\ Take(w, i) \in Seq(S) /\ Len(Take(w, i)) = Len(w) - 1
         /\ \A j \in 1..(Len(w) - 1) : Take(w, i)[j] = IF j < i THEN w[j] ELSE w[j + 1]
<1>1. PICK a \in Seq(S) : a = SubSeq(w, 1, i - 1)
  <2>1. SubSeq(w, 1, i - 1) \in Seq(S)
    OBVIOUS
  <2> QED
    BY Zenon, <2>1
<1>2. Len(a) = i - 1 /\ \A j \in 1..(i - 1) : a[j] = w[j]
  BY <1>1
<1>3. PICK b \in Seq(S) : b = SubSeq(w, i + 1, Len(w))
  <2>1. SubSeq(w, i + 1, Len(w)) \in Seq(S)
    OBVIOUS
  <2> QED
    BY Zenon, <2>1
<1>4. Len(b) = Len(w) - i /\ \A j \in 1..(Len(w) - i) : b[j] = w[i + j]
  BY <1>3
<1>5. PICK u : u = a \o b
  BY Zenon
<1>6. u = Take(w, i)
  BY <1>1, <1>3, <1>5 DEF Take
<1>7. /\ u \in Seq(S) /\ Len(u) = Len(w) - 1
      /\ \A j \in 1..(Len(w) - 1) : u[j] = IF j <= i - 1 THEN a[j] ELSE b[j - (i - 1)]
  <2>1. /\ u \in Seq(S) /\ Len(u) = Len(a) + Len(b)
        /\ \A j \in 1..(Len(a) + Len(b)) : u[j] = IF j <= Len(a) THEN a[j] ELSE b[j - Len(a)]
    BY <1>5, ConcatProperties
  <2>2. Len(a) + Len(b) = Len(w) - 1
    BY <1>2, <1>4
  <2> QED
    BY Zenon, <1>2, <2>1, <2>2
<1>8. ASSUME NEW j \in 1..(Len(w) - 1)
      PROVE  u[j] = IF j < i THEN w[j] ELSE w[j + 1]
  <2>1. CASE j < i
    BY <1>2, <1>7, <2>1
  <2>2. CASE ~(j < i)
    <3>1. u[j] = b[j - (i - 1)]
      <4>1. ~(j <= i - 1)
        BY <2>2
      <4> QED
        BY <1>7, <4>1
    <3>2. j - (i - 1) \in 1..(Len(w) - i) /\ i + (j - (i - 1)) = j + 1
      BY <2>2
    <3> QED
      BY <1>4, <2>2, <3>1, <3>2
  <2> QED
    BY <2>1, <2>2
<1> QED
  BY <1>6, <1>7, <1>8

-----------------------------------------------------------------------------
(* The invariant of one link *)

Waits(wt) == IF wt = {} THEN 0 ELSE 1

\* What the receiver of p counts.
Missed(p) == IF p.type = "Nak" THEN Minus(p.end, p.start) ELSE 0

\* pos[0] to pos[n] are in order.
Rises(pos, n) == \A i, j \in 0..n : i <= j => pos[i] + (j - i) <= pos[j]

\* The packets on the wire w are those of the positions pos[1], pos[2] ...,
\* after r and up to l.
InOrder(w, r, l, pos) ==
  /\ pos[0] = r /\ pos[Len(w) + 1] = l + 1
  /\ \A i \in 1..Len(w) : w[i].s = Number(pos[i])
  /\ Rises(pos, Len(w) + 1)

\* What the receiver of w has counted before the first packet is at most c[0],
\* after the i-th at most c[i], and never more than b.
Sums(nc, w, b, c) ==
  /\ nc <= c[0]
  /\ \A i \in 1..Len(w) : c[i - 1] + Missed(w[i]) <= c[i]
  /\ \A i \in 0..Len(w) : c[i] <= b

Stream(w, r, l)   == \E pos \in [Nat -> Nat] : InOrder(w, r, l, pos)
Account(nc, w, b) == \E c \in [Nat -> Nat] : Sums(nc, w, b, c)

\* What a packet tells of is a number of packets.
LEMMA MissedType ==
  ASSUME NEW p \in Packet
  PROVE  Missed(p) \in Nat /\ p.s \in Seq32
<1>1. CASE p.type = "Nak"
  <2>1. p.start \in Seq32 /\ p.end \in Seq32 /\ p.s \in Seq32
    BY <1>1 DEF Packet
  <2>2. Minus(p.end, p.start) \in Seq32
    <3>1. p.start \in Int /\ p.end \in Int
      BY <2>1 DEF Seq32
    <3> QED
      BY <3>1, Width
  <2>3. Missed(p) = Minus(p.end, p.start)
    BY <1>1 DEF Missed
  <2> QED
    BY <2>1, <2>2, <2>3 DEF Seq32
<1>2. CASE p.type # "Nak"
  BY <1>2 DEF Missed, Packet
<1> QED
  BY <1>1, <1>2

\* The wire with one packet more.
LEMMA AppendOne ==
  ASSUME NEW S, NEW w \in Seq(S), NEW p \in S
  PROVE  /\ Append(w, p) \in Seq(S) /\ Len(Append(w, p)) = Len(w) + 1
         /\ Append(w, p)[Len(w) + 1] = p
         /\ \A i \in 1..Len(w) : Append(w, p)[i] = w[i]
BY AppendProperties

\* f without its value at i.
Skip(f, i) == [j \in Nat |-> IF j < i THEN f[j] ELSE f[j + 1]]

\* The positions without the i-th are positions.
LEMMA SkipType ==
  ASSUME NEW f \in [Nat -> Nat], NEW i \in Nat
  PROVE  /\ Skip(f, i) \in [Nat -> Nat]
         /\ \A j \in Nat : Skip(f, i)[j] = IF j < i THEN f[j] ELSE f[j + 1]
BY DEF Skip

\* A position is added after the last.
LEMMA RisesOn ==
  ASSUME NEW f \in [Nat -> Nat], NEW n \in Nat, Rises(f, n),
         NEW g \in [Nat -> Nat], g[n + 1] = f[n] + 1, \A j \in Nat : j # n + 1 => g[j] = f[j]
  PROVE  Rises(g, n + 1)
<1> SUFFICES ASSUME NEW i \in 0..(n + 1), NEW j \in 0..(n + 1), i <= j
             PROVE  g[i] + (j - i) <= g[j]
  BY DEF Rises
<1>1. CASE j # n + 1
  <2>1. i \in 0..n /\ j \in 0..n /\ i # n + 1
    BY <1>1
  <2>2. f[i] + (j - i) <= f[j]
    BY <2>1 DEF Rises
  <2>3. g[i] = f[i] /\ g[j] = f[j]
    BY <1>1, <2>1
  <2> QED
    BY <2>2, <2>3
<1>2. CASE j = n + 1 /\ i # n + 1
  <2>1. i \in 0..n
    BY <1>2
  <2>2. f[i] + (n - i) <= f[n] /\ f[i] \in Nat /\ f[n] \in Nat
    BY <2>1 DEF Rises
  <2>3. g[i] = f[i] /\ g[j] = f[n] + 1
    BY <1>2
  <2> QED
    BY <1>2, <2>2, <2>3
<1>3. CASE j = n + 1 /\ i = n + 1
  <2>1. g[i] \in Nat
    OBVIOUS
  <2> QED
    BY <1>3, <2>1
<1> QED
  BY <1>1, <1>2, <1>3

\* A position is taken out.
LEMMA RisesWithout ==
  ASSUME NEW f \in [Nat -> Nat], NEW n \in Nat, Rises(f, n + 1), NEW k \in Nat,
         NEW g \in [Nat -> Nat], \A j \in Nat : g[j] = IF j < k THEN f[j] ELSE f[j + 1]
  PROVE  Rises(g, n)
<1> SUFFICES ASSUME NEW i \in 0..n, NEW j \in 0..n, i <= j
             PROVE  g[i] + (j - i) <= g[j]
  BY DEF Rises
<1>1. /\ f[i] + (j - i) <= f[j] /\ f[i] + ((j + 1) - i) <= f[j + 1]
      /\ f[i + 1] + ((j + 1) - (i + 1)) <= f[j + 1]
  <2>1. i + 1 \in 0..(n + 1) /\ j + 1 \in 0..(n + 1) /\ i \in 0..(n + 1) /\ j \in 0..(n + 1)
    OBVIOUS
  <2>2. i <= j + 1 /\ i + 1 <= j + 1
    OBVIOUS
  <2> QED
    BY <2>1, <2>2 DEF Rises
<1>2. f[i] \in Nat /\ f[j] \in Nat /\ f[i + 1] \in Nat /\ f[j + 1] \in Nat
  OBVIOUS
<1>3. CASE j < k
  <2>1. g[i] = f[i] /\ g[j] = f[j]
    BY <1>3
  <2> QED
    BY <1>1, <2>1
<1>4. CASE ~(j < k) /\ i < k
  <2>1. g[i] = f[i] /\ g[j] = f[j + 1]
    BY <1>4
  <2> QED
    BY <1>1, <1>2, <2>1
<1>5. CASE ~(i < k)
  <2>1. g[i] = f[i + 1] /\ g[j] = f[j + 1]
    BY <1>5
  <2> QED
    BY <1>1, <1>2, <2>1
<1> QED
  BY <1>3, <1>4, <1>5

\* The packet of position l + 1 is put on the wire: it was numbered just now,
\* or it has waited.
LEMMA StreamSends ==
  ASSUME NEW w \in Seq(Packet), NEW r \in Nat, NEW l \in Nat, Stream(w, r, l),
         NEW p \in Packet, p.s = Number(l + 1)
  PROVE  Stream(Append(w, p), r, l + 1)
<1>1. PICK n \in Nat : n = Len(w)
  OBVIOUS
<1>2. PICK f \in [Nat -> Nat] : InOrder(w, r, l, f)
  BY Zenon DEF Stream
<1>3. f[0] = r /\ f[n + 1] = l + 1 /\ Rises(f, n + 1) /\ \A i \in 1..n : w[i].s = Number(f[i])
  BY <1>1, <1>2 DEF InOrder
<1>4. PICK g \in [Nat -> Nat] : g[n + 2] = l + 2 /\ \A j \in Nat : j # n + 2 => g[j] = f[j]
  <2>1. PICK m \in Nat, v \in Nat : m = n + 2 /\ v = l + 2
    OBVIOUS
  <2>2. PICK g \in [Nat -> Nat] : g = [f EXCEPT ![m] = v]
    BY Zenon
  <2>3. g[m] = v /\ \A j \in Nat : j # m => g[j] = f[j]
    BY <2>2
  <2> QED
    BY Zenon, <2>1, <2>3
<1>5. PICK u : u = Append(w, p)
  BY Zenon
<1>6. Len(u) = n + 1 /\ u[n + 1] = p /\ \A i \in 1..n : u[i] = w[i]
  BY <1>1, <1>5, AppendOne
<1>7. Rises(g, n + 2)
  <2>1. PICK m \in Nat : m = n + 1
    OBVIOUS
  <2>2. Rises(f, m) /\ g[m + 1] = f[m] + 1 /\ \A j \in Nat : j # m + 1 => g[j] = f[j]
    BY <1>3, <1>4, <2>1
  <2>3. Rises(g, m + 1)
    BY Zenon, <2>2, RisesOn
  <2> QED
    BY <2>1, <2>3
<1>8. g[0] = r /\ g[n + 1] = l + 1
  BY <1>3, <1>4
<1>9. ASSUME NEW i \in 1..(n + 1)
      PROVE  u[i].s = Number(g[i])
  <2>1. CASE i = n + 1
    BY Zenon, <1>6, <1>8, <2>1
  <2>2. CASE i # n + 1
    <3>1. i \in 1..n /\ g[i] = f[i]
      BY <1>4, <2>2
    <3> QED
      BY Zenon, <1>3, <1>6, <3>1
  <2> QED
    BY <2>1, <2>2
<1>10. InOrder(u, r, l + 1, g)
  <2>1. Len(u) + 1 = n + 2
    BY <1>6
  <2>2. g[n + 2] = (l + 1) + 1
    BY <1>4
  <2> QED
    BY <1>6, <1>7, <1>8, <1>9, <2>1, <2>2 DEF InOrder
<1> QED
  BY Zenon, <1>5, <1>10 DEF Stream

\* The packets on the wire without the k-th, which is lost (d = k), or which is
\* the first and has arrived (d = 0).
LEMMA StreamWithout ==
  ASSUME NEW w \in Seq(Packet), NEW r \in Nat, NEW l \in Nat,
         NEW f \in [Nat -> Nat], InOrder(w, r, l, f), NEW k \in 1..Len(w),
         NEW d \in Nat, d = k \/ (k = 1 /\ d = 0)
  PROVE  InOrder(Take(w, k), Skip(f, d)[0], l, Skip(f, d))
<1>1. PICK n \in Nat : Len(w) = n + 1
  <2>1. PICK m \in Nat : m = Len(w)
    OBVIOUS
  <2>2. m - 1 \in Nat /\ m = (m - 1) + 1
    BY <2>1
  <2> QED
    BY Zenon, <2>1, <2>2
<1>2. PICK u : u = Take(w, k)
  OBVIOUS
<1>3. Len(u) = n /\ \A j \in 1..n : u[j] = IF j < k THEN w[j] ELSE w[j + 1]
  <2>1. Len(w) - 1 = n
    BY <1>1
  <2> QED
    BY Zenon, <1>2, <2>1, TakeOne
<1>4. f[(n + 1) + 1] = l + 1 /\ Rises(f, (n + 1) + 1) /\ \A i \in 1..(n + 1) : w[i].s = Number(f[i])
  BY <1>1 DEF InOrder
<1>5. Skip(f, d) \in [Nat -> Nat] /\ \A j \in Nat : Skip(f, d)[j] = IF j < d THEN f[j] ELSE f[j + 1]
  BY Zenon, SkipType
<1>6. PICK g \in [Nat -> Nat] : g = Skip(f, d)
  BY Zenon, <1>5
<1>7. \A j \in Nat : g[j] = IF j < d THEN f[j] ELSE f[j + 1]
  BY Zenon, <1>5, <1>6
<1>8. Rises(g, n + 1)
  <2>1. PICK m \in Nat : m = n + 1
    OBVIOUS
  <2>2. Rises(f, m + 1)
    BY <1>4, <2>1
  <2>3. Rises(g, m)
    BY Zenon, <1>7, <2>2, RisesWithout
  <2> QED
    BY <2>1, <2>3
<1>9. g[n + 1] = l + 1
  <2>1. ~(n + 1 < d) /\ n + 1 \in Nat
    BY <1>1
  <2> QED
    BY <1>4, <1>7, <2>1
<1>10. ASSUME NEW j \in 1..n
       PROVE  u[j].s = Number(g[j])
  <2>1. j \in Nat /\ j \in 1..(n + 1) /\ j + 1 \in 1..(n + 1)
    OBVIOUS
  <2>2. j < k <=> j < d
    <3>1. CASE d = k
      BY <3>1
    <3>2. CASE k = 1 /\ d = 0
      BY <3>2
    <3> QED
      BY <3>1, <3>2
  <2>3. CASE j < k
    <3>1. u[j] = w[j] 
      BY Zenon, <1>3, <2>3
    <3>2. g[j] = f[j]
      BY <1>7, <2>1, <2>2, <2>3
    <3> QED
      BY Zenon, <1>4, <2>1, <3>1, <3>2
  <2>4. CASE ~(j < k)
    <3>1. u[j] = w[j + 1]
      BY <1>3, <2>4
    <3>2. g[j] = f[j + 1]
      BY <1>7, <2>1, <2>2, <2>4
    <3> QED
      BY <1>4, <2>1, <3>1, <3>2
  <2> QED
    BY <2>3, <2>4
<1>11. InOrder(u, g[0], l, g)
  BY <1>3, <1>8, <1>9, <1>10 DEF InOrder
<1> QED
  BY <1>2, <1>6, <1>11

\* The k-th packet on the wire is lost.
LEMMA StreamLoses ==
  ASSUME NEW w \in Seq(Packet), NEW r \in Nat, NEW l \in Nat, Stream(w, r, l), NEW k \in 1..Len(w)
  PROVE  Stream(Take(w, k), r, l)
<1>1. PICK f \in [Nat -> Nat] : InOrder(w, r, l, f)
  BY Zenon DEF Stream
<1>2. k \in Nat /\ 0 < k
  OBVIOUS
<1>3. Skip(f, k) \in [Nat -> Nat] /\ Skip(f, k)[0] = f[0]
  BY Zenon, <1>2, SkipType
<1>4. InOrder(Take(w, k), Skip(f, k)[0], l, Skip(f, k))
  BY Zenon, <1>1, <1>2, StreamWithout
<1>5. f[0] = r
  BY <1>1 DEF InOrder
<1> QED
  BY Zenon, <1>3, <1>4, <1>5 DEF Stream

\* The first packet on the wire arrives, and q is its position.
LEMMA StreamArrives ==
  ASSUME NEW w \in Seq(Packet), NEW r \in Nat, NEW l \in Nat, Stream(w, r, l), w # <<>>
  PROVE  \E q \in Nat : /\ r < q /\ q + Len(w) <= l + 1 /\ w[1].s = Number(q)
                        /\ Stream(Take(w, 1), q, l)
<1>1. PICK f \in [Nat -> Nat] : InOrder(w, r, l, f)
  BY Zenon DEF Stream
<1>2. PICK q \in Nat : q = f[1]
  OBVIOUS
<1>3. Skip(f, 0) \in [Nat -> Nat] /\ Skip(f, 0)[0] = q
  <2>1. Skip(f, 0) \in [Nat -> Nat]
    BY Zenon, SkipType
  <2>2. Skip(f, 0)[0] = f[1]
    BY DEF Skip
  <2> QED
    BY Zenon, <1>2, <2>1, <2>2
<1>4. InOrder(Take(w, 1), Skip(f, 0)[0], l, Skip(f, 0))
  <2>1. 1 \in 1..Len(w)
    OBVIOUS
  <2> QED
    BY Zenon, <1>1, <2>1, StreamWithout
<1>5. w[1].s = Number(q)
  <2>1. 1 \in 1..Len(w)
    OBVIOUS
  <2> QED
    BY Zenon, <1>1, <1>2, <2>1 DEF InOrder
<1>6. PICK n \in Nat : n = Len(w)
  OBVIOUS
<1>7. f[0] + (1 - 0) <= f[1] /\ f[1] + ((n + 1) - 1) <= f[n + 1]
  <2>1. 0 \in 0..(n + 1) /\ 1 \in 0..(n + 1) /\ n + 1 \in 0..(n + 1) /\ 0 <= 1 /\ 1 <= n + 1
    OBVIOUS
  <2>2. Rises(f, n + 1)
    BY <1>1, <1>6 DEF InOrder
  <2> QED
    BY <2>1, <2>2 DEF Rises
<1>8. f[0] = r /\ f[n + 1] = l + 1
  BY <1>1, <1>6 DEF InOrder
<1>9. r < q /\ q + Len(w) <= l + 1
  BY <1>2, <1>6, <1>7, <1>8
<1>10. Stream(Take(w, 1), q, l)
  BY Zenon, <1>3, <1>4 DEF Stream
<1> QED
  BY <1>5, <1>9, <1>10

\* There is a position for every packet on the wire.
LEMMA StreamLength ==
  ASSUME NEW w \in Seq(Packet), NEW r \in Nat, NEW l \in Nat, Stream(w, r, l)
  PROVE  r + Len(w) <= l
<1>1. PICK f \in [Nat -> Nat] : InOrder(w, r, l, f)
  BY Zenon DEF Stream
<1>2. PICK n \in Nat : n = Len(w)
  OBVIOUS
<1>3. f[0] + ((n + 1) - 0) <= f[n + 1]
  <2>1. 0 \in 0..(n + 1) /\ n + 1 \in 0..(n + 1) /\ 0 <= n + 1
    OBVIOUS
  <2> QED
    BY Zenon, <1>1, <1>2, <2>1 DEF InOrder, Rises
<1>4. f[0] = r /\ f[n + 1] = l + 1
  BY <1>1, <1>2 DEF InOrder
<1> QED
  BY <1>2, <1>3, <1>4

-----------------------------------------------------------------------------
(* What is counted *)

\* A packet is put on the wire.
LEMMA AccountSends ==
  ASSUME NEW nc \in Nat, NEW w \in Seq(Packet), NEW b \in Int, Account(nc, w, b),
         NEW p \in Packet, NEW e \in Int, b + Missed(p) <= e
  PROVE  Account(nc, Append(w, p), e)
<1>1. PICK n \in Nat : n = Len(w)
  OBVIOUS
<1>2. PICK f \in [Nat -> Nat] : Sums(nc, w, b, f)
  BY Zenon DEF Account
<1>3. /\ nc <= f[0]
      /\ \A i \in 1..n : f[i - 1] + Missed(w[i]) <= f[i]
      /\ \A i \in 0..n : f[i] <= b
  BY <1>1, <1>2 DEF Sums
<1>4. Missed(p) \in Nat
  BY MissedType
<1>5. f[n] <= b /\ f[n] \in Nat
  <2>1. n \in 0..n
    OBVIOUS
  <2> QED
    BY Zenon, <1>3, <2>1
<1>6. PICK v \in Nat : v = e
  BY <1>4, <1>5
<1>7. PICK m \in Nat : m = n + 1
  OBVIOUS
<1>8. PICK g \in [Nat -> Nat] : g = [f EXCEPT ![m] = v]
  BY Zenon
<1>9. g[m] = e /\ \A j \in Nat : j # m => g[j] = f[j]
  BY <1>6, <1>8
<1>10. PICK u : u = Append(w, p)
  BY Zenon
<1>11. Len(u) = m /\ u[m] = p /\ \A i \in 1..n : u[i] = w[i]
  BY <1>1, <1>7, <1>10, AppendOne
<1>12. nc <= g[0]
  <2>1. g[0] = f[0]
    BY <1>7, <1>9
  <2> QED
    BY <1>3, <2>1
<1>13. ASSUME NEW i \in 1..m
       PROVE  g[i - 1] + Missed(u[i]) <= g[i]
  <2>1. CASE i = m
    <3>1. g[i - 1] = f[n] /\ u[i] = p /\ g[i] = e
      <4>1. i - 1 = n /\ n # m
        BY <1>7, <2>1
      <4> QED
        BY <1>9, <1>11, <2>1, <4>1
    <3> QED
      BY <1>4, <1>5, <3>1
  <2>2. CASE i # m
    <3>1. i \in 1..n /\ i - 1 \in Nat /\ i - 1 # m /\ i \in Nat
      BY <1>7, <2>2
    <3>2. g[i - 1] = f[i - 1] /\ g[i] = f[i] /\ u[i] = w[i]
      BY Zenon, <1>9, <1>11, <2>2, <3>1
    <3> QED
      BY <1>3, <3>1, <3>2
  <2> QED
    BY <2>1, <2>2
<1>14. ASSUME NEW i \in 0..m
       PROVE  g[i] <= e
  <2>1. CASE i = m
    BY <1>9, <2>1
  <2>2. CASE i # m
    <3>1. i \in 0..n /\ i \in Nat
      BY <1>7, <2>2
    <3>2. g[i] = f[i] /\ f[i] <= b /\ f[i] \in Nat
      BY Zenon, <1>3, <1>9, <2>2, <3>1
    <3> QED
      BY <1>4, <3>2
  <2> QED
    BY <2>1, <2>2
<1>15. Sums(nc, u, e, g)
  BY <1>11, <1>12, <1>13, <1>14 DEF Sums
<1> QED
  BY Zenon, <1>10, <1>15 DEF Account

\* The k-th packet on the wire is lost.
LEMMA AccountLoses ==
  ASSUME NEW nc \in Nat, NEW w \in Seq(Packet), NEW b \in Int, Account(nc, w, b), NEW k \in 1..Len(w)
  PROVE  Account(nc, Take(w, k), b)
<1>1. PICK n \in Nat : Len(w) = n + 1
  <2>1. PICK m \in Nat : m = Len(w)
    OBVIOUS
  <2>2. m - 1 \in Nat /\ m = (m - 1) + 1
    BY <2>1
  <2> QED
    BY <2>1, <2>2
<1>2. PICK f \in [Nat -> Nat] : Sums(nc, w, b, f)
  BY Zenon DEF Account
<1>3. /\ nc <= f[0]
      /\ \A i \in 1..(n + 1) : f[i - 1] + Missed(w[i]) <= f[i]
      /\ \A i \in 0..(n + 1) : f[i] <= b
  BY <1>1, <1>2 DEF Sums
<1>4. \A i \in 1..(n + 1) : Missed(w[i]) \in Nat
  <2>1. \A i \in 1..(n + 1) : w[i] \in Packet
    BY <1>1
  <2> QED
    BY Zenon, <2>1, MissedType
<1>5. k \in Nat /\ k \in 1..(n + 1)
  BY <1>1
<1>6. PICK g \in [Nat -> Nat] : g = Skip(f, k)
  BY Zenon, <1>5, SkipType
<1>7. \A j \in Nat : g[j] = IF j < k THEN f[j] ELSE f[j + 1]
  <2>1. \A j \in Nat : Skip(f, k)[j] = IF j < k THEN f[j] ELSE f[j + 1]
    BY Zenon, <1>5, SkipType
  <2> QED
    BY Zenon, <1>6, <2>1
<1>8. PICK u : u = Take(w, k)
  OBVIOUS
<1>9. Len(u) = n /\ \A j \in 1..n : u[j] = IF j < k THEN w[j] ELSE w[j + 1]
  <2>1. Len(w) - 1 = n
    BY <1>1
  <2> QED
    BY Zenon, <1>8, <2>1, TakeOne
<1>10. nc <= g[0]
  <2>1. g[0] = f[0]
    BY <1>5, <1>7
  <2> QED
    BY <1>3, <2>1
<1>11. ASSUME NEW j \in 1..n
       PROVE  g[j - 1] + Missed(u[j]) <= g[j]
  <2>1. /\ j \in 1..(n + 1) /\ j + 1 \in 1..(n + 1) /\ (j + 1) - 1 = j
        /\ j \in Nat /\ j - 1 \in Nat /\ j + 1 \in Nat /\ (j - 1) + 1 = j
    OBVIOUS
  <2>2. /\ f[j - 1] + Missed(w[j]) <= f[j] /\ f[j] + Missed(w[j + 1]) <= f[j + 1]
        /\ Missed(w[j]) \in Nat /\ Missed(w[j + 1]) \in Nat
        /\ f[j - 1] \in Nat /\ f[j] \in Nat /\ f[j + 1] \in Nat
    BY Zenon, <1>3, <1>4, <2>1
  <2>3. CASE j < k
    <3>1. g[j - 1] = f[j - 1] /\ g[j] = f[j] /\ u[j] = w[j]
      <4>1. j - 1 < k
        BY <1>5, <2>3
      <4> QED
        BY Zenon, <1>7, <1>9, <2>1, <2>3, <4>1
    <3> QED
      BY <2>2, <3>1
  <2>4. CASE ~(j < k)
    <3>1. g[j] = f[j + 1] /\ u[j] = w[j + 1]
      BY <1>7, <1>9, <2>1, <2>4
    <3>2. g[j - 1] = f[j - 1] \/ g[j - 1] = f[j]
      BY <1>7, <2>1
    <3>3. PICK x \in Nat, y \in Nat, z \in Nat, v \in Nat, m \in Nat :
             x = f[j - 1] /\ y = f[j] /\ z = f[j + 1] /\ v = Missed(w[j]) /\ m = Missed(w[j + 1])
      BY Zenon, <2>2
    <3>4. x + v <= y /\ y + m <= z
      BY <2>2, <3>3
    <3>5. x + m <= z
      BY <3>4
    <3> QED
      BY Zenon, <3>1, <3>2, <3>3, <3>4, <3>5
  <2> QED
    BY <2>3, <2>4
<1>12. ASSUME NEW j \in 0..n
       PROVE  g[j] <= b
  <2>1. j \in 0..(n + 1) /\ j + 1 \in 0..(n + 1) /\ j \in Nat
    OBVIOUS
  <2>2. g[j] = f[j] \/ g[j] = f[j + 1]
    BY <1>7, <2>1
  <2> QED
    BY Zenon, <1>3, <2>1, <2>2
<1>13. Sums(nc, u, b, g)
  BY Zenon, <1>9, <1>10, <1>11, <1>12 DEF Sums
<1> QED
  BY Zenon, <1>8, <1>13 DEF Account

\* The first packet on the wire arrives, and is counted.
LEMMA AccountArrives ==
  ASSUME NEW nc \in Nat, NEW w \in Seq(Packet), NEW b \in Int, Account(nc, w, b), w # <<>>
  PROVE  nc + Missed(w[1]) <= b /\ Account(nc + Missed(w[1]), Take(w, 1), b)
<1>1. PICK n \in Nat : Len(w) = n + 1
  <2>1. PICK m \in Nat : m = Len(w) /\ m # 0
    OBVIOUS
  <2>2. m - 1 \in Nat /\ m = (m - 1) + 1
    BY <2>1
  <2> QED
    BY <2>1, <2>2
<1>2. PICK f \in [Nat -> Nat] : Sums(nc, w, b, f)
  BY Zenon DEF Account
<1>3. /\ nc <= f[0]
      /\ \A i \in 1..(n + 1) : f[i - 1] + Missed(w[i]) <= f[i]
      /\ \A i \in 0..(n + 1) : f[i] <= b
  BY <1>1, <1>2 DEF Sums
<1>4. Missed(w[1]) \in Nat
  <2>1. w[1] \in Packet
    BY <1>1
  <2> QED
    BY Zenon, <2>1, MissedType
<1>5. PICK x \in Nat : x = nc + Missed(w[1])
  BY <1>4
<1>6. x <= f[1] /\ x <= b
  <2>1. 1 \in 1..(n + 1) /\ 1 \in 0..(n + 1) /\ 1 - 1 = 0
    OBVIOUS
  <2>2. f[0] + Missed(w[1]) <= f[1] /\ f[1] <= b /\ f[0] \in Nat /\ f[1] \in Nat
    BY <1>3, <2>1
  <2>3. PICK m \in Nat, y \in Nat, z \in Nat : m = Missed(w[1]) /\ y = f[0] /\ z = f[1]
    BY <1>4, <2>2
  <2>4. nc <= y /\ y + m <= z /\ z <= b /\ x = nc + m
    BY <1>3, <1>5, <2>2, <2>3
  <2>5. x <= z /\ x <= b
    BY <2>4
  <2> QED
    BY <2>3, <2>5
<1>7. PICK g \in [Nat -> Nat] : g = [j \in Nat |-> f[j + 1]]
  <2>1. [j \in Nat |-> f[j + 1]] \in [Nat -> Nat]
    BY SMTT(20)
  <2> QED
    BY Zenon, <2>1
<1>8. \A j \in Nat : g[j] = f[j + 1]
  BY <1>7
<1>9. PICK u : u = Take(w, 1)
  OBVIOUS
<1>10. Len(u) = n /\ \A j \in 1..n : u[j] = w[j + 1]
  <2>1. Len(w) - 1 = n /\ 1 \in 1..Len(w)
    BY <1>1
  <2>2. \A j \in 1..n : ~(j < 1)
    OBVIOUS
  <2> QED
    BY Zenon, <1>9, <2>1, <2>2, TakeOne
<1>11. x <= g[0]
  BY <1>6, <1>7
<1>12. ASSUME NEW j \in 1..n
       PROVE  g[j - 1] + Missed(u[j]) <= g[j]
  <2>1. j + 1 \in 1..(n + 1) /\ (j + 1) - 1 = j /\ j \in Nat /\ j - 1 \in Nat /\ (j - 1) + 1 = j
    OBVIOUS
  <2>2. f[j] + Missed(w[j + 1]) <= f[j + 1]
    BY <1>3, <2>1
  <2>3. g[j - 1] = f[j] /\ g[j] = f[j + 1] /\ u[j] = w[j + 1]
    BY Zenon, <1>8, <1>10, <2>1
  <2> QED
    BY <2>2, <2>3
<1>13. ASSUME NEW j \in 0..n
       PROVE  g[j] <= b
  <2>1. j + 1 \in 0..(n + 1) /\ j \in Nat
    OBVIOUS
  <2> QED
    BY <1>3, <1>8, <2>1
<1>14. Sums(x, u, b, g)
  BY Zenon, <1>10, <1>11, <1>12, <1>13 DEF Sums
<1> QED
  BY Zenon, <1>5, <1>6, <1>9, <1>14 DEF Account

\* More packets are lost.
LEMMA AccountGrows ==
  ASSUME NEW nc \in Nat, NEW w \in Seq(Packet), NEW b \in Int, Account(nc, w, b),
         NEW e \in Int, b <= e
  PROVE  Account(nc, w, e) /\ nc <= e
<1>1. PICK f \in [Nat -> Nat] : Sums(nc, w, b, f)
  BY Zenon DEF Account
<1>2. ASSUME NEW i \in 0..Len(w)
      PROVE  f[i] <= e /\ f[i] \in Nat
  <2>1. f[i] <= b /\ f[i] \in Nat
    BY <1>1 DEF Sums
  <2> QED
    BY <2>1
<1>3. Sums(nc, w, e, f)
  BY <1>1, <1>2 DEF Sums
<1>4. nc <= f[0] /\ 0 \in 0..Len(w)
  BY <1>1 DEF Sums
<1>5. Account(nc, w, e)
  BY Zenon, <1>3 DEF Account
<1>6. nc <= e
  <2>1. f[0] <= e /\ f[0] \in Nat
    BY <1>2, <1>4
  <2> QED
    BY <1>4, <2>1
<1> QED
  BY <1>5, <1>6

-----------------------------------------------------------------------------
(* One link *)

\* The number of the last of t packets.
Last(t) == IF t = 0 THEN None ELSE Number(t)

\* Seq::inc.
Following(s) == Plus(IF s = None THEN 0 ELSE s, 1)

\* The number after the last is that of the next position (Seq::inc).
LEMMA LastFollows ==
  ASSUME NEW t \in Nat
  PROVE  /\ Following(Last(t)) = Number(t + 1) /\ Last(t + 1) = Number(t + 1)
         /\ Number(t + 1) \in Seq32 /\ (Last(t) = None => t = 0)
<1>1. Number(t) \in 0..(Modulus - 1) /\ Number(t + 1) \in 0..(Modulus - 1)
  BY DivMod
<1>2. Number(t) # None
  BY <1>1 DEF None
<1>3. Number(0) = 0
  BY DEF Number
<1>4. (IF Last(t) = None THEN 0 ELSE Last(t)) = Number(t)
  BY <1>2, <1>3 DEF Last
<1>5. Following(Last(t)) = Number(t + 1)
  BY <1>4, NextNumber DEF Following
<1>6. t + 1 # 0
  OBVIOUS
<1> QED
  BY <1>1, <1>2, <1>5, <1>6 DEF Last, Seq32

\* A stream of packets with what the other end has to say of it.  Of the t that
\* were numbered the first l were sent, and the r-th is the last that arrived.
\* The packets lost are those counted at the sender, those that Naks on their
\* way back tell of, those since the r-th, and others that nobody counts.
LinkedAt(tx, rx, wt, w, nc, back, lo, t, r, l) ==
  /\ tx = Last(t) /\ rx = Last(r)
  /\ wt \subseteq {Handshake(Number(t))} /\ l + Waits(wt) = t
  /\ Stream(w, r, l)
  /\ Account(nc, back, lo - ((l - r) - Len(w)))

Linked(tx, rx, wt, w, nc, back, lo) ==
  \E t, r, l \in Nat : LinkedAt(tx, rx, wt, w, nc, back, lo, t, r, l)

\* A packet is numbered and put on the wire.
LEMMA LinkSends ==
  ASSUME NEW tx, NEW rx, NEW w \in Seq(Packet), NEW nc \in Nat, NEW back \in Seq(Packet),
         NEW lo \in Nat, Linked(tx, rx, {}, w, nc, back, lo),
         NEW p \in Packet, p.s = Following(tx)
  PROVE  Linked(Following(tx), rx, {}, Append(w, p), nc, back, lo)
<1>1. PICK t \in Nat, r \in Nat, l \in Nat : LinkedAt(tx, rx, {}, w, nc, back, lo, t, r, l)
  BY DEF Linked
<1>2. /\ tx = Last(t) /\ rx = Last(r) /\ l + Waits({}) = t /\ Stream(w, r, l)
      /\ Account(nc, back, lo - ((l - r) - Len(w)))
  BY <1>1 DEF LinkedAt
<1>3. Waits({}) = 0
  BY DEF Waits
<1>4. l = t
  BY <1>2, <1>3
<1>5. Following(tx) = Number(t + 1) /\ Last(t + 1) = Number(t + 1)
  BY <1>2, LastFollows
<1>6. Stream(Append(w, p), r, l + 1)
  BY <1>2, <1>4, <1>5, StreamSends
<1>7. ((l + 1) - r) - Len(Append(w, p)) = (l - r) - Len(w)
  <2>1. PICK n \in Nat, m \in Nat : n = Len(w) /\ m = Len(Append(w, p)) /\ m = n + 1
    BY AppendOne
  <2> QED
    BY <2>1
<1>8. l + 1 \in Nat /\ t + 1 \in Nat /\ (l + 1) + Waits({}) = t + 1
  BY <1>3, <1>4
<1>9. LinkedAt(Following(tx), rx, {}, Append(w, p), nc, back, lo, t + 1, r, l + 1)
  BY <1>2, <1>5, <1>6, <1>7, <1>8 DEF LinkedAt
<1> QED
  BY <1>8, <1>9 DEF Linked

\* A handshake packet is numbered and waits.
LEMMA LinkWaits ==
  ASSUME NEW tx, NEW rx, NEW w \in Seq(Packet), NEW nc \in Nat, NEW back \in Seq(Packet),
         NEW lo \in Nat, Linked(tx, rx, {}, w, nc, back, lo)
  PROVE  Linked(Following(tx), rx, {Handshake(Following(tx))}, w, nc, back, lo)
<1>1. PICK t \in Nat, r \in Nat, l \in Nat : LinkedAt(tx, rx, {}, w, nc, back, lo, t, r, l)
  BY DEF Linked
<1>2. /\ tx = Last(t) /\ rx = Last(r) /\ l + Waits({}) = t /\ Stream(w, r, l)
      /\ Account(nc, back, lo - ((l - r) - Len(w)))
  BY <1>1 DEF LinkedAt
<1>3. Following(tx) = Number(t + 1) /\ Last(t + 1) = Number(t + 1)
  BY <1>2, LastFollows
<1>4. Waits({}) = 0 /\ Waits({Handshake(Following(tx))}) = 1
  BY DEF Waits
<1>5. t + 1 \in Nat /\ l + Waits({Handshake(Following(tx))}) = t + 1
  BY <1>2, <1>4
<1>6. LinkedAt(Following(tx), rx, {Handshake(Following(tx))}, w, nc, back, lo, t + 1, r, l)
  BY <1>2, <1>3, <1>5 DEF LinkedAt
<1> QED
  BY <1>5, <1>6 DEF Linked

\* The packet that waits is put on the wire.
LEMMA LinkDelayEnds ==
  ASSUME NEW tx, NEW rx, NEW wt, NEW w \in Seq(Packet), NEW nc \in Nat, NEW back \in Seq(Packet),
         NEW lo \in Nat, Linked(tx, rx, wt, w, nc, back, lo), NEW p \in Packet, p \in wt
  PROVE  Linked(tx, rx, wt \ {p}, Append(w, p), nc, back, lo)
<1>1. PICK t \in Nat, r \in Nat, l \in Nat : LinkedAt(tx, rx, wt, w, nc, back, lo, t, r, l)
  BY DEF Linked
<1>2. /\ tx = Last(t) /\ rx = Last(r) /\ Stream(w, r, l)
      /\ wt \subseteq {Handshake(Number(t))} /\ l + Waits(wt) = t
      /\ Account(nc, back, lo - ((l - r) - Len(w)))
  BY <1>1 DEF LinkedAt
<1>3. p = Handshake(Number(t)) /\ wt # {} /\ wt \ {p} = {}
  BY <1>2
<1>4. Waits(wt) = 1 /\ Waits(wt \ {p}) = 0
  BY <1>3 DEF Waits
<1>5. t = l + 1 /\ t + Waits(wt \ {p}) = t
  BY <1>2, <1>4
<1>6. p.s = Number(l + 1)
  BY <1>3, <1>5 DEF Handshake
<1>7. Stream(Append(w, p), r, t)
  BY <1>2, <1>5, <1>6, StreamSends
<1>8. (t - r) - Len(Append(w, p)) = (l - r) - Len(w)
  <2>1. PICK n \in Nat, m \in Nat : n = Len(w) /\ m = Len(Append(w, p)) /\ m = n + 1
    BY AppendOne
  <2> QED
    BY <1>5, <2>1
<1>9. LinkedAt(tx, rx, wt \ {p}, Append(w, p), nc, back, lo, t, r, t)
  BY <1>2, <1>3, <1>5, <1>7, <1>8 DEF LinkedAt
<1> QED
  BY <1>9 DEF Linked

\* A packet of the stream is lost.
LEMMA LinkLoses ==
  ASSUME NEW tx, NEW rx, NEW wt, NEW w \in Seq(Packet), NEW nc \in Nat, NEW back \in Seq(Packet),
         NEW lo \in Nat, Linked(tx, rx, wt, w, nc, back, lo), NEW k \in 1..Len(w)
  PROVE  Linked(tx, rx, wt, Take(w, k), nc, back, lo + 1)
<1>1. PICK t \in Nat, r \in Nat, l \in Nat : LinkedAt(tx, rx, wt, w, nc, back, lo, t, r, l)
  BY DEF Linked
<1>2. Stream(w, r, l) /\ Account(nc, back, lo - ((l - r) - Len(w)))
  BY <1>1 DEF LinkedAt
<1>3. Stream(Take(w, k), r, l)
  BY <1>2, StreamLoses
<1>4. (lo + 1) - ((l - r) - Len(Take(w, k))) = lo - ((l - r) - Len(w))
  <2>1. PICK n \in Nat, m \in Int : n = Len(w) /\ m = Len(Take(w, k)) /\ m = n - 1
    BY TakeOne
  <2> QED
    BY <2>1
<1>5. LinkedAt(tx, rx, wt, Take(w, k), nc, back, lo + 1, t, r, l)
  BY <1>1, <1>2, <1>3, <1>4 DEF LinkedAt
<1> QED
  BY <1>5 DEF Linked

\* A packet on the way back is lost.
LEMMA LinkLosesBack ==
  ASSUME NEW tx, NEW rx, NEW wt, NEW w \in Seq(Packet), NEW nc \in Nat, NEW back \in Seq(Packet),
         NEW lo \in Nat, Linked(tx, rx, wt, w, nc, back, lo), NEW k \in 1..Len(back)
  PROVE  Linked(tx, rx, wt, w, nc, Take(back, k), lo)
<1>1. PICK t \in Nat, r \in Nat, l \in Nat : LinkedAt(tx, rx, wt, w, nc, back, lo, t, r, l)
  BY DEF Linked
<1>2. PICK b \in Int : b = lo - ((l - r) - Len(w))
  <2>1. PICK n \in Nat : n = Len(w)
    OBVIOUS
  <2>2. lo - ((l - r) - n) \in Int
    OBVIOUS
  <2> QED
    BY Zenon, <2>1, <2>2
<1>3. Account(nc, back, b)
  BY <1>1, <1>2 DEF LinkedAt
<1>4. Account(nc, Take(back, k), b)
  BY <1>3, AccountLoses
<1>5. LinkedAt(tx, rx, wt, w, nc, Take(back, k), lo, t, r, l)
  BY <1>1, <1>2, <1>4 DEF LinkedAt
<1> QED
  BY <1>5 DEF Linked

\* A packet that tells of no loss is sent back.
LEMMA LinkSendsBack ==
  ASSUME NEW tx, NEW rx, NEW wt, NEW w \in Seq(Packet), NEW nc \in Nat, NEW back \in Seq(Packet),
         NEW lo \in Nat, Linked(tx, rx, wt, w, nc, back, lo), NEW p \in Packet, Missed(p) = 0
  PROVE  Linked(tx, rx, wt, w, nc, Append(back, p), lo)
<1>1. PICK t \in Nat, r \in Nat, l \in Nat : LinkedAt(tx, rx, wt, w, nc, back, lo, t, r, l)
  BY DEF Linked
<1>2. PICK b \in Int : b = lo - ((l - r) - Len(w))
  <2>1. PICK n \in Nat : n = Len(w)
    OBVIOUS
  <2>2. lo - ((l - r) - n) \in Int
    OBVIOUS
  <2> QED
    BY Zenon, <2>1, <2>2
<1>3. Account(nc, back, b)
  BY <1>1, <1>2 DEF LinkedAt
<1>4. b + Missed(p) <= b
  OBVIOUS
<1>5. Account(nc, Append(back, p), b)
  BY <1>3, <1>4, AccountSends
<1>6. LinkedAt(tx, rx, wt, w, nc, Append(back, p), lo, t, r, l)
  BY <1>1, <1>2, <1>5 DEF LinkedAt
<1> QED
  BY <1>6 DEF Linked

\* The first packet on the way back arrives, and what it tells is counted.
LEMMA LinkCounts ==
  ASSUME NEW tx, NEW rx, NEW wt, NEW w \in Seq(Packet), NEW nc \in Nat, NEW back \in Seq(Packet),
         NEW lo \in Nat, Linked(tx, rx, wt, w, nc, back, lo), back # <<>>
  PROVE  /\ nc + Missed(back[1]) <= lo
         /\ Linked(tx, rx, wt, w, nc + Missed(back[1]), Take(back, 1), lo)
<1>1. PICK t \in Nat, r \in Nat, l \in Nat : LinkedAt(tx, rx, wt, w, nc, back, lo, t, r, l)
  BY DEF Linked
<1>2. PICK b \in Int : b = lo - ((l - r) - Len(w))
  <2>1. PICK n \in Nat : n = Len(w)
    OBVIOUS
  <2>2. lo - ((l - r) - n) \in Int
    OBVIOUS
  <2> QED
    BY Zenon, <2>1, <2>2
<1>3. Account(nc, back, b) /\ Stream(w, r, l)
  BY <1>1, <1>2 DEF LinkedAt
<1>4. nc + Missed(back[1]) <= b /\ Account(nc + Missed(back[1]), Take(back, 1), b)
  BY <1>3, AccountArrives
<1>5. b <= lo
  <2>1. PICK n \in Nat : n = Len(w) /\ r + n <= l
    BY <1>3, StreamLength
  <2> QED
    BY <1>2, <2>1
<1>6. Missed(back[1]) \in Nat
  <2>1. back[1] \in Packet
    OBVIOUS
  <2> QED
    BY <2>1, MissedType
<1>7. LinkedAt(tx, rx, wt, w, nc + Missed(back[1]), Take(back, 1), lo, t, r, l)
  BY <1>1, <1>2, <1>4 DEF LinkedAt
<1>8. nc + Missed(back[1]) <= lo
  BY <1>4, <1>5, <1>6
<1> QED
  BY <1>7, <1>8 DEF Linked

\* No more is counted than was lost.
LEMMA LinkCounted ==
  ASSUME NEW tx, NEW rx, NEW wt, NEW w \in Seq(Packet), NEW nc \in Nat, NEW back \in Seq(Packet),
         NEW lo \in Nat, Linked(tx, rx, wt, w, nc, back, lo)
  PROVE  nc <= lo
<1>1. PICK t \in Nat, r \in Nat, l \in Nat : LinkedAt(tx, rx, wt, w, nc, back, lo, t, r, l)
  BY DEF Linked
<1>2. PICK b \in Int : b = lo - ((l - r) - Len(w))
  <2>1. PICK n \in Nat : n = Len(w)
    OBVIOUS
  <2>2. lo - ((l - r) - n) \in Int
    OBVIOUS
  <2> QED
    BY <2>1, <2>2
<1>3. Account(nc, back, b) /\ Stream(w, r, l)
  BY <1>1, <1>2 DEF LinkedAt
<1>4. b <= lo
  <2>1. PICK n \in Nat : n = Len(w) /\ r + n <= l
    BY <1>3, StreamLength
  <2> QED
    BY <1>2, <2>1
<1> QED
  BY <1>3, <1>4, AccountGrows

\* The first packet of the stream arrives.  If there was one before it, the
\* range of the Nak that answers it is that of the packets lost in between.
LEMMA LinkArrives ==
  ASSUME NEW tx, NEW rx, NEW wt, NEW w \in Seq(Packet), NEW nc \in Nat, NEW back \in Seq(Packet),
         NEW lo \in Nat, lo < Modulus, Linked(tx, rx, wt, w, nc, back, lo), w # <<>>
  PROVE  /\ Linked(tx, w[1].s, wt, Take(w, 1), nc, back, lo)
         /\ \A a \in Packet :
               rx # None /\ Missed(a) = Minus(w[1].s, Plus(rx, 1))
                 => Linked(tx, w[1].s, wt, Take(w, 1), nc, Append(back, a), lo)
<1>1. PICK t \in Nat, r \in Nat, l \in Nat : LinkedAt(tx, rx, wt, w, nc, back, lo, t, r, l)
  BY DEF Linked
<1>2. PICK b \in Int : b = lo - ((l - r) - Len(w))
  <2>1. PICK n \in Nat : n = Len(w)
    OBVIOUS
  <2>2. lo - ((l - r) - n) \in Int
    OBVIOUS
  <2> QED
    BY <2>1, <2>2
<1>3. /\ tx = Last(t) /\ rx = Last(r) /\ Stream(w, r, l) /\ Account(nc, back, b)
      /\ wt \subseteq {Handshake(Number(t))} /\ l + Waits(wt) = t
  BY <1>1, <1>2 DEF LinkedAt
<1>4. PICK q \in Nat : /\ r < q /\ q + Len(w) <= l + 1 /\ w[1].s = Number(q)
                       /\ Stream(Take(w, 1), q, l)
  BY <1>3, StreamArrives
<1>5. PICK n \in Nat, m \in Int : n = Len(w) /\ m = Len(Take(w, 1)) /\ m = n - 1
  <2>1. 1 \in 1..Len(w)
    OBVIOUS
  <2> QED
    BY <2>1, TakeOne
<1>6. PICK d \in Nat : d = (q - r) - 1
  <2>1. (q - r) - 1 \in Nat
    BY <1>4
  <2> QED
    BY <2>1
<1>7. PICK e \in Int : e = lo - ((l - q) - m)
  OBVIOUS
<1>8. e = b + d
  BY <1>2, <1>5, <1>6, <1>7
<1>9. nc <= b
  <2>1. b <= b
    OBVIOUS
  <2> QED
    BY <1>3, <2>1, AccountGrows
<1>10. d < Modulus
  <2>1. q + n <= l + 1
    BY <1>4, <1>5
  <2>2. b = lo - ((l - r) - n)
    BY <1>2, <1>5
  <2> QED
    BY <1>6, <1>9, <2>1, <2>2
<1>11. w[1].s = Last(q)
  <2>1. q # 0
    BY <1>4
  <2> QED
    BY <1>4, <2>1 DEF Last
<1>12. ASSUME NEW h, Account(nc, h, e)
       PROVE  Linked(tx, w[1].s, wt, Take(w, 1), nc, h, lo)
  <2>1. LinkedAt(tx, w[1].s, wt, Take(w, 1), nc, h, lo, t, q, l)
    BY Zenon, <1>3, <1>4, <1>5, <1>7, <1>11, <1>12 DEF LinkedAt
  <2> QED
    BY <2>1 DEF Linked
<1>13. Account(nc, back, e)
  <2>1. b <= e
    BY <1>8
  <2> QED
    BY <1>3, <2>1, AccountGrows
<1>14. ASSUME NEW a \in Packet, rx # None, Missed(a) = Minus(w[1].s, Plus(rx, 1))
       PROVE  Account(nc, Append(back, a), e)
  <2>1. r # 0 /\ rx = Number(r)
    BY <1>3, <1>14 DEF Last
  <2>2. Minus(Number(q), Plus(Number(r), 1)) = d
    <3>1. r < q /\ q - r - 1 < Modulus /\ d = q - r - 1
      BY <1>4, <1>6, <1>10
    <3> QED
      BY <3>1, NumbersBetween
  <2>3. Missed(a) = d
    BY <1>4, <1>14, <2>1, <2>2
  <2>4. b + Missed(a) <= e
    BY <1>8, <2>3
  <2> QED
    BY <1>3, <2>4, AccountSends
<1> QED
  BY <1>12, <1>13, <1>14

-----------------------------------------------------------------------------
(* Types, for packets that are sent *)

\* A link has two ends.
LEMMA EndTypes ==
  ASSUME NEW n \in End
  PROVE  Other(n) \in End /\ Other(Other(n)) = n /\ Other(n) # n
BY DEF End, Other

\* Numbers keep their width, and packets of them are packets.
LEMMA NumberTypes ==
  ASSUME TypeOK, NEW n \in End
  PROVE  /\ Inc(n) \in Seq32 /\ Message(Inc(n)) \in Packet /\ Handshake(Inc(n)) \in Packet
         /\ Inc(n) = Following(tx_sequences[n])
<1>1. tx_sequences[n] \in Seq32 \cup {None}
  BY DEF TypeOK
<1>2. PICK a \in Int : a = IF tx_sequences[n] = None THEN 0 ELSE tx_sequences[n]
  BY <1>1 DEF Seq32, None
<1>3. Plus(a, 1) \in Seq32
  BY Width
<1>4. Inc(n) \in Seq32 /\ Inc(n) = Following(tx_sequences[n])
  BY <1>2, <1>3 DEF Inc, Following
<1> QED
  BY <1>4 DEF Message, Handshake, Packet

\* Initially every variable has its type.
LEMMA InitTypes == Init => TypeOK
<1> SUFFICES ASSUME Init PROVE TypeOK
  OBVIOUS
<1>1. 0 \in Seq32
  BY DEF Seq32
<1>2. <<>> \in Seq(Packet)
  OBVIOUS
<1> QED
  BY <1>1, <1>2 DEF Init, TypeOK, None

\* send keeps the types, for a message.
LEMMA SendMessageTypes ==
  ASSUME TypeOK, NEW n \in End, SendMessage(n)
  PROVE  TypeOK'
<1>1. Inc(n) \in Seq32 /\ Message(Inc(n)) \in Packet
  BY NumberTypes
<1>2. tx_sequences' \in [End -> Seq32 \cup {None}]
  BY <1>1 DEF SendMessage, TypeOK
<1>3. wire' \in [End -> Seq(Packet)]
  BY <1>1 DEF SendMessage, TypeOK
<1>4. sent' \in [messages : 0..MaxMessages, handshakes : 0..MaxHandshakes]
  <2>1. sent \in [messages : 0..MaxMessages, handshakes : 0..MaxHandshakes]
    BY DEF TypeOK
  <2>2. PICK k \in 0..MaxMessages : k = sent.messages + 1
    BY <2>1 DEF SendMessage
  <2>3. sent' = [sent EXCEPT !.messages = k]
    BY <2>2 DEF SendMessage
  <2> QED
    BY <2>1, <2>3
<1> QED
  BY Zenon, <1>2, <1>3, <1>4 DEF SendMessage, TypeOK

\* send keeps the types, for a handshake packet that has to wait.
LEMMA SendHandshakeTypes ==
  ASSUME TypeOK, NEW n \in End, SendHandshake(n)
  PROVE  TypeOK'
<1>1. Inc(n) \in Seq32 /\ Handshake(Inc(n)) \in Packet
  BY NumberTypes
<1>2. tx_sequences' \in [End -> Seq32 \cup {None}]
  BY <1>1 DEF SendHandshake, TypeOK
<1>3. waiting' \in [End -> SUBSET Packet]
  BY <1>1 DEF SendHandshake, TypeOK
<1>4. sent' \in [messages : 0..MaxMessages, handshakes : 0..MaxHandshakes]
  <2>1. sent \in [messages : 0..MaxMessages, handshakes : 0..MaxHandshakes]
    BY DEF TypeOK
  <2>2. PICK k \in 0..MaxHandshakes : k = sent.handshakes + 1
    BY <2>1 DEF SendHandshake
  <2>3. sent' = [sent EXCEPT !.handshakes = k]
    BY <2>2 DEF SendHandshake
  <2> QED
    BY <2>1, <2>3
<1> QED
  BY Zenon, <1>2, <1>3, <1>4 DEF SendHandshake, TypeOK

\* The end of the wait keeps the types.
LEMMA DelayEndsTypes ==
  ASSUME TypeOK, NEW n \in End, DelayEnds(n)
  PROVE  TypeOK'
<1>1. PICK p \in waiting[n] : /\ waiting' = [waiting EXCEPT ![n] = @ \ {p}]
                              /\ wire' = [wire EXCEPT ![n] = Append(@, p)]
  BY Zenon DEF DelayEnds
<1>2. p \in Packet
  BY DEF TypeOK
<1>3. waiting' \in [End -> SUBSET Packet]
  BY <1>1 DEF TypeOK
<1>4. wire' \in [End -> Seq(Packet)]
  BY <1>1, <1>2 DEF TypeOK
<1> QED
  BY <1>3, <1>4 DEF DelayEnds, TypeOK

\* update_rate_control keeps the types.
LEMMA UpdateRateControlTypes ==
  ASSUME TypeOK, NEW n \in End, UpdateRateControl(n)
  PROVE  TypeOK'
<1>1. tx_delay[n] \in 0..MaxDelay \cup {None}
  BY DEF TypeOK
<1>2. PICK d : d = IF tx_delay[n] = None THEN DefaultDelay
                   ELSE IF tx_delay[n] > 1 THEN tx_delay[n] - 1 ELSE 0
  OBVIOUS
<1>3. d \in 0..MaxDelay
  BY <1>1, <1>2 DEF None
<1>4. tx_delay' = [tx_delay EXCEPT ![n] = d]
  BY <1>2 DEF UpdateRateControl
<1>5. tx_delay' \in [End -> 0..MaxDelay \cup {None}]
  BY <1>3, <1>4 DEF TypeOK
<1> QED
  BY <1>5 DEF UpdateRateControl, TypeOK
=============================================================================
