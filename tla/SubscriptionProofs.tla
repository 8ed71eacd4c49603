------------------------- MODULE SubscriptionProofs -------------------------
(***************************************************************************)
(* Theorems about a subscription, for any number of keys, any size of the  *)
(* mailbox and any number of faults.                                       *)
(***************************************************************************)
EXTENDS Subscription, TLAPS

\* While the Handshaker calls add_peer there is one Up in the mailbox, with the
\* keys of the handshake; at other times there is none.
OneCall ==
  /\ \A i \in DOMAIN mailbox : mailbox[i].type = "Up" =>
       /\ handshake # None
       /\ handshake.stage = "calling"
       /\ handshake.keys = mailbox[i].keys
  /\ \A i, j \in DOMAIN mailbox : mailbox[i].type = "Up" /\ mailbox[j].type = "Up" => i = j

\* A SubscriptionStarted that is under way or was taken comes from a bob that
\* has alice among his subscribers, until he is told that she is down.
AnswerFromServer ==
  faults.down = 0 /\ (subscribed \/ Waiting("SubscriptionStarted")
                        \/ \E p \in net : p.type = "SubscriptionStarted")
    => subscriber /\ broadcasting

\* The inductive invariant.
SubscriptionInv ==
  /\ TypeOK
  /\ OneCall
  /\ WatchdogGuardsSubscription
  /\ UnwatchedIsStray
  /\ AnswerFromServer

-----------------------------------------------------------------------------
(* The mailbox                                                             *)

\* Every message that is cast to the PeerManager is one it understands.
LEMMA Messages ==
  /\ \A k \in Key : [type |-> "Up", keys |-> k] \in Message
  /\ [type |-> "Down"] \in Message
  /\ [type |-> "SubscriptionStarted"] \in Message
  /\ [type |-> "Heartbeat"] \in Message
  /\ [type |-> "Reassign"] \in Message
BY DEF Message

\* What is appended goes to the end, and the rest keeps its place.
LEMMA AppendFacts ==
  ASSUME NEW S, NEW s \in Seq(S), NEW x \in S, NEW t, t = Append(s, x)
  PROVE  /\ t \in Seq(S)
         /\ Len(s) \in Nat /\ Len(t) = Len(s) + 1
         /\ \A i \in DOMAIN s : i \in DOMAIN t /\ t[i] = s[i]
         /\ \A i \in DOMAIN t : i \in DOMAIN s \/ i = Len(t)
         /\ Len(t) \in DOMAIN t /\ t[Len(t)] = x /\ Len(t) \notin DOMAIN s
<1>1. t \in Seq(S) /\ Len(s) \in Nat /\ Len(t) = Len(s) + 1
  OBVIOUS
<1>2. DOMAIN s = 1..Len(s) /\ DOMAIN t = 1..Len(t)
  BY <1>1
<1>3. \A i \in 1..Len(s) : t[i] = s[i]
  OBVIOUS
<1>4. t[Len(s) + 1] = x
  OBVIOUS
<1> QED BY <1>1, <1>2, <1>3, <1>4

\* What a cast does to the mailbox.
LEMMA CastFacts ==
  ASSUME TypeOK, NEW m \in Message, Cast(m)
  PROVE  /\ mailbox' \in Seq(Message) /\ Len(mailbox') <= MaxMailbox
         /\ \A i \in DOMAIN mailbox' : \/ i \in DOMAIN mailbox /\ mailbox'[i] = mailbox[i]
                                       \/ i = Len(mailbox') /\ mailbox'[i] = m
         /\ \A type : Waiting(type)' <=> Waiting(type) \/ m.type = type
<1>1. mailbox \in Seq(Message) /\ mailbox' = Append(mailbox, m) /\ Len(mailbox) < MaxMailbox
  BY Zenon DEF TypeOK, Cast
<1>2. /\ mailbox' \in Seq(Message)
      /\ Len(mailbox) \in Nat /\ Len(mailbox') = Len(mailbox) + 1
      /\ \A i \in DOMAIN mailbox : i \in DOMAIN mailbox' /\ mailbox'[i] = mailbox[i]
      /\ \A i \in DOMAIN mailbox' : i \in DOMAIN mailbox \/ i = Len(mailbox')
      /\ Len(mailbox') \in DOMAIN mailbox' /\ mailbox'[Len(mailbox')] = m
  BY <1>1, AppendFacts
<1>3. Len(mailbox') <= MaxMailbox
  BY <1>1, <1>2, SubscriptionAssumption
<1>4. ASSUME NEW type PROVE Waiting(type)' <=> Waiting(type) \/ m.type = type
  BY Zenon, <1>2 DEF Waiting
<1> QED BY Zenon, <1>2, <1>3, <1>4

\* What taking a message does to the mailbox.
LEMMA TakeFacts ==
  ASSUME TypeOK, mailbox # <<>>, mailbox' = Tail(mailbox)
  PROVE  /\ mailbox' \in Seq(Message) /\ Len(mailbox') <= MaxMailbox
         /\ Head(mailbox) \in Message
         /\ 1 \in DOMAIN mailbox /\ mailbox[1] = Head(mailbox)
         /\ \A i \in DOMAIN mailbox' :
              i \in Nat /\ i + 1 # 1 /\ i + 1 \in DOMAIN mailbox /\ mailbox'[i] = mailbox[i + 1]
         /\ \A type : /\ Waiting(type)' => Waiting(type)
                      /\ Waiting(type) => Waiting(type)' \/ Head(mailbox).type = type
                      /\ Head(mailbox).type = type => Waiting(type)
<1>1. mailbox \in Seq(Message) /\ Len(mailbox) <= MaxMailbox
  BY Zenon DEF TypeOK
<1>2. mailbox' \in Seq(Message) /\ Len(mailbox) \in Nat \ {0} /\ Len(mailbox') = Len(mailbox) - 1
  BY <1>1
<1>3. DOMAIN mailbox = 1..Len(mailbox) /\ DOMAIN mailbox' = 1..Len(mailbox')
  BY <1>1, <1>2
<1>4. \A i \in 1..(Len(mailbox) - 1) : mailbox'[i] = mailbox[i + 1]
  BY <1>1
<1>5. Head(mailbox) \in Message /\ 1 \in DOMAIN mailbox /\ mailbox[1] = Head(mailbox)
  BY <1>1, <1>2, <1>3
<1>6. Len(mailbox') <= MaxMailbox
  BY <1>1, <1>2, SubscriptionAssumption
<1>7. \A i \in DOMAIN mailbox' :
        i \in Nat /\ i + 1 # 1 /\ i + 1 \in DOMAIN mailbox /\ mailbox'[i] = mailbox[i + 1]
  BY <1>2, <1>3, <1>4
<1>8. ASSUME NEW i \in DOMAIN mailbox, i # 1
      PROVE  \E j \in DOMAIN mailbox' : mailbox'[j] = mailbox[i]
  <2>1. i - 1 \in DOMAIN mailbox' /\ mailbox'[i - 1] = mailbox[i]
    BY <1>2, <1>3, <1>4, <1>8
  <2> QED BY Zenon, <2>1
<1>9. ASSUME NEW type
      PROVE  /\ Waiting(type)' => Waiting(type)
             /\ Waiting(type) => Waiting(type)' \/ Head(mailbox).type = type
             /\ Head(mailbox).type = type => Waiting(type)
  <2>1. Waiting(type)' => Waiting(type)
    BY Zenon, <1>7 DEF Waiting
  <2>2. ASSUME NEW i \in DOMAIN mailbox, mailbox[i].type = type
        PROVE  Waiting(type)' \/ Head(mailbox).type = type
    <3>1. CASE i = 1
      BY Zenon, <1>5, <2>2, <3>1
    <3>2. CASE i # 1
      BY Zenon, <1>8, <2>2, <3>2 DEF Waiting
    <3> QED BY Zenon, <3>1, <3>2
  <2>3. Head(mailbox).type = type => Waiting(type)
    BY Zenon, <1>5 DEF Waiting
  <2> QED BY Zenon, <2>1, <2>2, <2>3 DEF Waiting
<1> QED BY Zenon, <1>2, <1>5, <1>6, <1>7, <1>9

-----------------------------------------------------------------------------
(* The call of add_peer                                                    *)

\* A cast of anything but an Up leaves the call as it is.
LEMMA CastOneCall ==
  ASSUME TypeOK, OneCall, NEW m \in Message, Cast(m), m.type # "Up", handshake' = handshake
  PROVE  OneCall'
<1>1. \A i \in DOMAIN mailbox' : \/ i \in DOMAIN mailbox /\ mailbox'[i] = mailbox[i]
                                 \/ mailbox'[i] = m
  BY Zenon, CastFacts
<1> QED BY Zenon, <1>1 DEF OneCall

\* Nor does taking anything but the Up.
LEMMA TakeOneCall ==
  ASSUME TypeOK, OneCall, mailbox # <<>>, mailbox' = Tail(mailbox), handshake' = handshake
  PROVE  OneCall'
<1>1. \A i \in DOMAIN mailbox' :
        i \in Nat /\ i + 1 \in DOMAIN mailbox /\ mailbox'[i] = mailbox[i + 1]
  BY Zenon, TakeFacts
<1>2. DOMAIN mailbox \subseteq Nat
  BY DEF TypeOK
<1> QED BY <1>1, <1>2 DEF OneCall

\* The call is answered when the Up is taken.
LEMMA AnswerOneCall ==
  ASSUME TypeOK, OneCall, mailbox # <<>>, mailbox' = Tail(mailbox), Head(mailbox).type = "Up"
  PROVE  OneCall'
<1>1. /\ 1 \in DOMAIN mailbox /\ mailbox[1] = Head(mailbox)
      /\ \A i \in DOMAIN mailbox' : i + 1 # 1 /\ i + 1 \in DOMAIN mailbox /\ mailbox'[i] = mailbox[i + 1]
  BY Zenon, TakeFacts
<1>2. \A i \in DOMAIN mailbox' : mailbox'[i].type # "Up"
  BY Zenon, <1>1 DEF OneCall
<1> QED BY Zenon, <1>2 DEF OneCall

\* The Handshaker calls when no other call is waiting.
LEMMA CallOneCall ==
  ASSUME TypeOK, OneCall, NEW k \in Key, Cast([type |-> "Up", keys |-> k]),
         handshake = None \/ handshake.stage # "calling",
         handshake' # None, handshake'.stage = "calling", handshake'.keys = k
  PROVE  OneCall'
<1> DEFINE m == [type |-> "Up", keys |-> k]
<1>1. m \in Message /\ m.type = "Up" /\ m.keys = k /\ Cast(m)
  BY Zenon, Messages
<1> HIDE DEF m
<1>2. \A i \in DOMAIN mailbox' : \/ i \in DOMAIN mailbox /\ mailbox'[i] = mailbox[i]
                                 \/ i = Len(mailbox') /\ mailbox'[i] = m
  BY Zenon, <1>1, CastFacts
<1>3. \A i \in DOMAIN mailbox : mailbox[i].type # "Up"
  BY Zenon DEF OneCall
<1> QED BY Zenon, <1>1, <1>2, <1>3 DEF OneCall

-----------------------------------------------------------------------------
(* The handlers of alice's PeerManager                                     *)

\* add_peer keeps the invariant: it answers the call of the Handshaker.
LEMMA AddPeerStep ==
  ASSUME SubscriptionInv, HandleMessage, AddPeer(Head(mailbox))
  PROVE  SubscriptionInv'
<1> DEFINE m == Head(mailbox)
<1>1. /\ mailbox # <<>> /\ mailbox' = Tail(mailbox) /\ m.type = "Up"
      /\ stray' = (stray \/ (m.type = "SubscriptionStarted" /\ keys["alice"] = None))
      /\ UNCHANGED <<bootstrap, subscriber, broadcasting, alive, faults, subscribed, watchdog, net>>
      /\ keys' = [keys EXCEPT !["alice"] = m.keys]
      /\ handshake' = IF handshake.initiator = "alice" THEN None ELSE [handshake EXCEPT !.stage = "goteam"]
      /\ StartReassignTimer(subscribed)
  BY Zenon DEF HandleMessage, AddPeer, bob
<1>2. TypeOK /\ OneCall
  BY Zenon DEF SubscriptionInv
<1>3. /\ mailbox' \in Seq(Message) /\ Len(mailbox') <= MaxMailbox
      /\ m \in Message /\ 1 \in DOMAIN mailbox /\ mailbox[1] = m
  BY Zenon, <1>1, <1>2, TakeFacts
<1>4. m.keys \in Key
  BY Zenon, <1>1, <1>3 DEF Message
<1>5. handshake \in Handshake
  BY Zenon, <1>1, <1>2, <1>3 DEF OneCall, TypeOK
<1>6. TypeOK'
  <2>1. keys' \in [Homie -> Key \cup {None}] /\ keys'["alice"] = m.keys
    BY Zenon, <1>1, <1>2, <1>4 DEF TypeOK, Homie
  <2>2. handshake' \in Handshake \cup {None}
    BY Zenon, <1>1, <1>5 DEF Handshake
  <2>3. reassign_timer' \in BOOLEAN
    BY Zenon, <1>1 DEF StartReassignTimer
  <2> QED BY Zenon, <1>1, <1>2, <1>3, <2>1, <2>2, <2>3 DEF TypeOK
<1>7. OneCall'
  BY Zenon, <1>1, <1>2, AnswerOneCall
<1>8. WatchdogGuardsSubscription'
  BY Zenon, <1>1, <1>2, <1>4, NoneAssumption
     DEF SubscriptionInv, WatchdogGuardsSubscription, TypeOK, Homie
<1>9. UnwatchedIsStray'
  BY Zenon, <1>1, <1>2, TakeFacts DEF SubscriptionInv, UnwatchedIsStray
<1>10. AnswerFromServer'
  BY Zenon, <1>1, <1>2, TakeFacts DEF SubscriptionInv, AnswerFromServer
<1> QED BY Zenon, <1>6, <1>7, <1>8, <1>9, <1>10 DEF SubscriptionInv

\* remove_peer keeps the invariant: subscription and watchdog go with the keys.
LEMMA RemovePeerStep ==
  ASSUME SubscriptionInv, HandleMessage, RemovePeer(Head(mailbox))
  PROVE  SubscriptionInv'
<1> DEFINE m == Head(mailbox)
<1>1. /\ mailbox # <<>> /\ mailbox' = Tail(mailbox) /\ m.type = "Down"
      /\ stray' = (stray \/ (m.type = "SubscriptionStarted" /\ keys["alice"] = None))
      /\ UNCHANGED <<bootstrap, subscriber, broadcasting, alive, faults, handshake>>
      /\ keys' = [keys EXCEPT !["alice"] = None]
      /\ subscribed' = FALSE /\ watchdog' = FALSE
      /\ StartReassignTimer(FALSE)
      /\ UNCHANGED net
  BY Zenon DEF HandleMessage, RemovePeer, bob
<1>2. TypeOK /\ OneCall
  BY Zenon DEF SubscriptionInv
<1>3. TypeOK'
  <2>1. keys' \in [Homie -> Key \cup {None}]
    BY Zenon, <1>1, <1>2 DEF TypeOK, Homie
  <2>2. reassign_timer' \in BOOLEAN
    BY Zenon, <1>1 DEF StartReassignTimer
  <2> QED BY Zenon, <1>1, <1>2, <2>1, <2>2, TakeFacts DEF TypeOK
<1>4. OneCall'
  BY Zenon, <1>1, <1>2, TakeOneCall
<1>5. WatchdogGuardsSubscription'
  BY Zenon, <1>1 DEF WatchdogGuardsSubscription
<1>6. UnwatchedIsStray'
  BY Zenon, <1>1 DEF UnwatchedIsStray
<1>7. AnswerFromServer'
  BY Zenon, <1>1, <1>2, TakeFacts DEF SubscriptionInv, AnswerFromServer
<1> QED BY Zenon, <1>3, <1>4, <1>5, <1>6, <1>7 DEF SubscriptionInv

\* subscription_started keeps the invariant: a subscription to an unknown bob is
\* a stray one, any other gets a watchdog.
LEMMA SubscriptionStartedStep ==
  ASSUME SubscriptionInv, HandleMessage, SubscriptionStarted(Head(mailbox))
  PROVE  SubscriptionInv'
<1> DEFINE m == Head(mailbox)
<1>1. /\ mailbox # <<>> /\ mailbox' = Tail(mailbox) /\ m.type = "SubscriptionStarted"
      /\ stray' = (stray \/ (m.type = "SubscriptionStarted" /\ keys["alice"] = None))
      /\ UNCHANGED <<bootstrap, subscriber, broadcasting, alive, faults, handshake>>
      /\ subscribed' = TRUE
      /\ watchdog' = (TRUE /\ keys["alice"] # None)
      /\ UNCHANGED <<keys, reassign_timer, net>>
  BY Zenon DEF HandleMessage, SubscriptionStarted, ResetWatchdog, bob
<1>2. TypeOK /\ OneCall
  BY Zenon DEF SubscriptionInv
<1>3. TypeOK'
  BY Zenon, <1>1, <1>2, TakeFacts DEF TypeOK
<1>4. OneCall'
  BY Zenon, <1>1, <1>2, TakeOneCall
<1>5. WatchdogGuardsSubscription'
  BY Zenon, <1>1 DEF WatchdogGuardsSubscription
<1>6. UnwatchedIsStray'
  BY Zenon, <1>1 DEF UnwatchedIsStray
<1>7. AnswerFromServer'
  BY Zenon, <1>1, <1>2, TakeFacts DEF SubscriptionInv, AnswerFromServer
<1> QED BY Zenon, <1>3, <1>4, <1>5, <1>6, <1>7 DEF SubscriptionInv

\* A heartbeat keeps the invariant: it arms the watchdog of a known bob only.
LEMMA HeartbeatStep ==
  ASSUME SubscriptionInv, HandleMessage, Heartbeat(Head(mailbox))
  PROVE  SubscriptionInv'
<1> DEFINE m == Head(mailbox)
<1>1. /\ mailbox # <<>> /\ mailbox' = Tail(mailbox) /\ m.type = "Heartbeat"
      /\ stray' = (stray \/ (m.type = "SubscriptionStarted" /\ keys["alice"] = None))
      /\ UNCHANGED <<bootstrap, subscriber, broadcasting, alive, faults, handshake>>
      /\ watchdog' = (subscribed /\ keys["alice"] # None)
      /\ UNCHANGED <<keys, subscribed, reassign_timer, net>>
  BY Zenon DEF HandleMessage, Heartbeat, ResetWatchdog, bob
<1>2. TypeOK /\ OneCall
  BY Zenon DEF SubscriptionInv
<1>3. TypeOK'
  BY Zenon, <1>1, <1>2, TakeFacts DEF TypeOK
<1>4. OneCall'
  BY Zenon, <1>1, <1>2, TakeOneCall
<1>5. WatchdogGuardsSubscription'
  BY Zenon, <1>1 DEF WatchdogGuardsSubscription
<1>6. UnwatchedIsStray'
  BY Zenon, <1>1, <1>2, TakeFacts DEF SubscriptionInv, UnwatchedIsStray, WatchdogGuardsSubscription
<1>7. AnswerFromServer'
  BY Zenon, <1>1, <1>2, TakeFacts DEF SubscriptionInv, AnswerFromServer
<1> QED BY Zenon, <1>3, <1>4, <1>5, <1>6, <1>7 DEF SubscriptionInv

\* reassign keeps the invariant: it drops the subscription to an unknown bob.
LEMMA ReassignStep ==
  ASSUME SubscriptionInv, HandleMessage, Reassign(Head(mailbox))
  PROVE  SubscriptionInv'
<1> DEFINE m == Head(mailbox)
<1>1. /\ mailbox # <<>> /\ mailbox' = Tail(mailbox) /\ m.type = "Reassign"
      /\ stray' = (stray \/ (m.type = "SubscriptionStarted" /\ keys["alice"] = None))
      /\ UNCHANGED <<bootstrap, subscriber, broadcasting, alive, faults, handshake>>
      /\ UNCHANGED <<keys, reassign_timer>>
      /\ \/ /\ keys["alice"] # None
            /\ net' = IF subscribed THEN net
                      ELSE net \cup {[type |-> "StartSubscription", keys |-> keys["alice"]]}
            /\ subscribed' = subscribed /\ watchdog' = watchdog
         \/ subscribed' = FALSE /\ watchdog' = FALSE /\ net' = net
  BY Zenon DEF HandleMessage, Reassign, bob
<1>2. TypeOK /\ OneCall
  BY Zenon DEF SubscriptionInv
<1>3. TypeOK'
  <2>1. keys["alice"] # None => [type |-> "StartSubscription", keys |-> keys["alice"]] \in Packet
    BY Zenon, <1>2 DEF TypeOK, Homie, Packet
  <2>2. net' \subseteq Packet /\ subscribed' \in BOOLEAN /\ watchdog' \in BOOLEAN
    BY Zenon, <1>1, <1>2, <2>1 DEF TypeOK
  <2> QED BY Zenon, <1>1, <1>2, <2>2, TakeFacts DEF TypeOK
<1>4. OneCall'
  BY Zenon, <1>1, <1>2, TakeOneCall
<1>5. WatchdogGuardsSubscription'
  <2>1. watchdog' => watchdog
    BY Zenon, <1>1
  <2>2. watchdog' => subscribed' = subscribed
    BY Zenon, <1>1
  <2>3. keys' = keys
    BY Zenon, <1>1
  <2> QED BY Zenon, <2>1, <2>2, <2>3 DEF SubscriptionInv, WatchdogGuardsSubscription
<1>6. UnwatchedIsStray'
  <2>1. subscribed' => subscribed /\ (watchdog => watchdog') /\ (stray => stray')
    BY Zenon, <1>1
  <2> QED BY Zenon, <1>1, <1>2, <2>1, TakeFacts DEF SubscriptionInv, UnwatchedIsStray
<1>7. AnswerFromServer'
  <2>1. \A p \in net' : p.type = "SubscriptionStarted" => p \in net
    BY <1>1
  <2>2. subscribed' => subscribed
    BY Zenon, <1>1
  <2> QED BY Zenon, <1>1, <1>2, <2>1, <2>2, TakeFacts DEF SubscriptionInv, AnswerFromServer
<1> QED BY Zenon, <1>3, <1>4, <1>5, <1>6, <1>7 DEF SubscriptionInv

-----------------------------------------------------------------------------
(* Casts to alice's PeerManager                                            *)

\* What is counted stays within its bound, and a Down is never forgotten.
LEMMA FaultsCounted ==
  ASSUME faults \in Faults
  PROVE  /\ faults.loss < MaxLoss =>
              LET f == [faults EXCEPT !.loss = @ + 1] IN f \in Faults /\ f.down = faults.down
         /\ faults.late < MaxLate =>
              LET f == [faults EXCEPT !.late = @ + 1] IN f \in Faults /\ f.down = faults.down
         /\ faults.greeting < MaxGreeting =>
              LET f == [faults EXCEPT !.greeting = @ + 1] IN f \in Faults /\ f.down = faults.down
         /\ faults.down < MaxDown =>
              LET f == [faults EXCEPT !.down = @ + 1] IN f \in Faults /\ f.down # 0
<1>1. /\ MaxLoss \in Nat /\ MaxLate \in Nat /\ MaxDown \in Nat /\ MaxGreeting \in Nat
      /\ faults \in [loss : 0..MaxLoss, late : 0..MaxLate, down : 0..MaxDown, greeting : 0..MaxGreeting]
  BY Zenon, SubscriptionAssumption DEF Faults
<1>2. ASSUME faults.loss < MaxLoss
      PROVE  LET f == [faults EXCEPT !.loss = @ + 1] IN f \in Faults /\ f.down = faults.down
  BY <1>1, <1>2 DEF Faults
<1>3. ASSUME faults.late < MaxLate
      PROVE  LET f == [faults EXCEPT !.late = @ + 1] IN f \in Faults /\ f.down = faults.down
  BY <1>1, <1>3 DEF Faults
<1>4. ASSUME faults.greeting < MaxGreeting
      PROVE  LET f == [faults EXCEPT !.greeting = @ + 1] IN f \in Faults /\ f.down = faults.down
  BY <1>1, <1>4 DEF Faults
<1>5. ASSUME faults.down < MaxDown
      PROVE  LET f == [faults EXCEPT !.down = @ + 1] IN f \in Faults /\ f.down # 0
  BY <1>1, <1>5 DEF Faults
<1> QED BY Zenon, <1>2, <1>3, <1>4, <1>5

\* What has gone wrong is counted: a step either counts no Down, or one.
Counts == faults' \in Faults /\ (faults'.down = 0 => faults.down = 0)

\* A cast of a heartbeat, a Reassign or a Down keeps the invariant, and the
\* watchdog may stop if it casts a Down.
LEMMA CastStep ==
  ASSUME SubscriptionInv, NEW m \in Message, Cast(m),
         m.type # "Up", m.type # "SubscriptionStarted",
         UNCHANGED <<keys, subscribed, bootstrap, subscriber, broadcasting, alive,
                     handshake, net, stray>>,
         reassign_timer' \in BOOLEAN,
         watchdog' = watchdog \/ (watchdog' = FALSE /\ m.type = "Down"),
         Counts
  PROVE  SubscriptionInv'
<1>1. TypeOK /\ OneCall
  BY Zenon DEF SubscriptionInv
<1>2. TypeOK'
  <2>1. watchdog' \in BOOLEAN
    BY Zenon, <1>1 DEF TypeOK
  <2> QED BY Zenon, <1>1, <2>1, CastFacts DEF TypeOK, Counts
<1>3. OneCall'
  BY Zenon, <1>1, CastOneCall
<1>4. WatchdogGuardsSubscription'
  <2>1. watchdog' => watchdog
    BY Zenon
  <2> QED BY Zenon, <2>1 DEF SubscriptionInv, WatchdogGuardsSubscription
<1>5. UnwatchedIsStray'
  <2>1. watchdog => watchdog' \/ Waiting("Down")'
    BY Zenon, <1>1, CastFacts
  <2> QED BY Zenon, <1>1, <2>1, CastFacts DEF SubscriptionInv, UnwatchedIsStray
<1>6. AnswerFromServer'
  BY Zenon, <1>1, CastFacts DEF SubscriptionInv, AnswerFromServer, Counts
<1> QED BY Zenon, <1>2, <1>3, <1>4, <1>5, <1>6 DEF SubscriptionInv

\* The timers and the arrivals that cast to alice's PeerManager keep the invariant.
LEMMA TimersStep ==
  ASSUME SubscriptionInv,
         ReassignTimerFires \/ HeartbeatArrives \/ WatchdogFires \/ DownArrives
  PROVE  SubscriptionInv'
<1>1. TypeOK /\ faults \in Faults /\ reassign_timer \in BOOLEAN
  BY Zenon DEF SubscriptionInv, TypeOK
<1>2. CASE ReassignTimerFires
  <2> DEFINE m == [type |-> "Reassign"]
  <2>1. m \in Message /\ m.type = "Reassign"
    BY Zenon, Messages
  <2>2. Counts
    BY Zenon, <1>1, <1>2 DEF ReassignTimerFires, Counts
  <2>3. /\ Cast(m) /\ reassign_timer' = FALSE /\ watchdog' = watchdog
        /\ UNCHANGED <<keys, subscribed, bootstrap, subscriber, broadcasting, alive,
                       handshake, net, stray>>
    BY Zenon, <1>2 DEF ReassignTimerFires, bob
  <2> QED BY Zenon, <2>1, <2>2, <2>3, CastStep
<1>3. CASE HeartbeatArrives
  <2> DEFINE m == [type |-> "Heartbeat"]
  <2>1. m \in Message /\ m.type = "Heartbeat"
    BY Zenon, Messages
  <2>2. Counts
    BY Zenon, <1>1, <1>3 DEF HeartbeatArrives, Counts
  <2>3. /\ Cast(m) /\ reassign_timer' = reassign_timer /\ watchdog' = watchdog
        /\ UNCHANGED <<keys, subscribed, bootstrap, subscriber, broadcasting, alive,
                       handshake, net, stray>>
    BY Zenon, <1>3 DEF HeartbeatArrives, bob
  <2> QED BY Zenon, <1>1, <2>1, <2>2, <2>3, CastStep
<1>4. CASE WatchdogFires
  <2> DEFINE m == [type |-> "Down"]
  <2>1. m \in Message /\ m.type = "Down"
    BY Zenon, Messages
  <2>2. Counts
    BY Zenon, <1>1, <1>4, FaultsCounted DEF WatchdogFires, Counts
  <2>3. /\ Cast(m) /\ reassign_timer' = reassign_timer /\ watchdog' = FALSE
        /\ UNCHANGED <<keys, subscribed, bootstrap, subscriber, broadcasting, alive,
                       handshake, net, stray>>
    BY Zenon, <1>4 DEF WatchdogFires, bob
  <2> QED BY Zenon, <1>1, <2>1, <2>2, <2>3, CastStep
<1>5. CASE DownArrives
  <2> DEFINE m == [type |-> "Down"]
  <2>1. m \in Message /\ m.type = "Down"
    BY Zenon, Messages
  <2>2. Counts
    BY Zenon, <1>1, <1>5, FaultsCounted DEF DownArrives, Counts
  <2>3. /\ Cast(m) /\ reassign_timer' = reassign_timer /\ watchdog' = watchdog
        /\ UNCHANGED <<keys, subscribed, bootstrap, subscriber, broadcasting, alive,
                       handshake, net, stray>>
    BY Zenon, <1>5 DEF DownArrives, bob
  <2> QED BY Zenon, <1>1, <2>1, <2>2, <2>3, CastStep
<1> QED BY Zenon, <1>2, <1>3, <1>4, <1>5

-----------------------------------------------------------------------------
(* Steps in which alice's PeerManager takes no part                        *)

\* Such a step keeps the invariant, if the handshake it changes is not waiting
\* for add_peer and if bob goes on to serve whom he has answered.
LEMMA OutsideStep ==
  ASSUME SubscriptionInv,
         UNCHANGED <<subscribed, watchdog, reassign_timer, mailbox, stray>>,
         {bootstrap', subscriber', broadcasting', alive'} \subseteq BOOLEAN,
         keys' \in [Homie -> Key \cup {None}], keys'["alice"] = keys["alice"],
         handshake' \in Handshake \cup {None},
         handshake' = handshake \/ handshake = None \/ handshake.stage # "calling",
         net' \subseteq Packet,
         Counts,
         faults'.down = 0 =>
           /\ subscriber /\ broadcasting => subscriber' /\ broadcasting'
           /\ \A p \in net' : p.type = "SubscriptionStarted" =>
                p \in net \/ (subscriber' /\ broadcasting')
  PROVE  SubscriptionInv'
<1>1. TypeOK /\ OneCall
  BY Zenon DEF SubscriptionInv
<1>2. TypeOK'
  BY Zenon, <1>1 DEF TypeOK, Counts
<1>3. OneCall'
  BY Zenon, <1>1 DEF OneCall
<1>4. WatchdogGuardsSubscription'
  BY Zenon DEF SubscriptionInv, WatchdogGuardsSubscription
<1>5. UnwatchedIsStray'
  BY Zenon DEF SubscriptionInv, UnwatchedIsStray, Waiting
<1>6. AnswerFromServer'
  BY Zenon DEF SubscriptionInv, AnswerFromServer, Counts, Waiting
<1> QED BY Zenon, <1>2, <1>3, <1>4, <1>5, <1>6 DEF SubscriptionInv

\* Greeting, alice's heartbeat and a failed handshake keep the invariant.
LEMMA GreetingStep ==
  ASSUME SubscriptionInv, SendHeartbeat \/ Bootstraps \/ BobGreets \/ HandshakeFails
  PROVE  SubscriptionInv'
<1>1. /\ faults \in Faults /\ net \subseteq Packet
      /\ {bootstrap, subscriber, broadcasting, alive} \subseteq BOOLEAN
      /\ keys \in [Homie -> Key \cup {None}]
      /\ handshake \in Handshake \cup {None}
  BY Zenon DEF SubscriptionInv, TypeOK
<1>2. ASSUME NEW n \in Homie, Greet(n)
      PROVE  /\ handshake = None /\ handshake' \in Handshake
             /\ UNCHANGED <<keys, subscribed, watchdog, reassign_timer, mailbox, subscriber,
                            broadcasting, alive, net, stray>>
  <2>1. (CHOOSE k \in Unused : TRUE) \in Key
    BY Zenon, <1>2 DEF Greet, Unused
  <2> QED BY Zenon, <1>2, <2>1 DEF Greet, Handshake, bob
<1>3. CASE SendHeartbeat
  <2>1. Counts
    BY Zenon, <1>1, <1>3, FaultsCounted DEF SendHeartbeat, Tick, Counts
  <2>2. /\ bootstrap' = TRUE
        /\ UNCHANGED <<keys, subscribed, watchdog, reassign_timer, mailbox, subscriber,
                       broadcasting, alive, handshake, net, stray>>
    BY Zenon, <1>3 DEF SendHeartbeat, Tick, bob
  <2> QED BY Zenon, <1>1, <2>1, <2>2, OutsideStep
<1>4. CASE Bootstraps
  <2>1. Counts /\ bootstrap' = FALSE /\ Greet("alice")
    BY Zenon, <1>1, <1>4 DEF Bootstraps, Counts
  <2>2. "alice" \in Homie
    BY Zenon DEF Homie
  <2> QED BY Zenon, <1>1, <1>2, <2>1, <2>2, OutsideStep
<1>5. CASE BobGreets
  <2>1. Counts /\ bootstrap' = bootstrap /\ Greet("bob")
    BY Zenon, <1>1, <1>5, FaultsCounted DEF BobGreets, Counts
  <2>2. "bob" \in Homie
    BY Zenon DEF Homie
  <2> QED BY Zenon, <1>1, <1>2, <2>1, <2>2, OutsideStep
<1>6. CASE HandshakeFails
  <2>1. Counts
    BY Zenon, <1>1, <1>6, FaultsCounted DEF HandshakeFails, Counts
  <2>2. /\ handshake.stage # "calling" /\ handshake' = None
        /\ UNCHANGED <<keys, subscribed, watchdog, reassign_timer, bootstrap, mailbox, subscriber,
                       broadcasting, alive, net, stray>>
    BY Zenon, <1>6 DEF HandshakeFails, alice, bob
  <2> QED BY Zenon, <1>1, <2>1, <2>2, OutsideStep
<1> QED BY Zenon, <1>3, <1>4, <1>5, <1>6

\* What happens to bob keeps the invariant: only a counted Down takes alice from
\* his subscribers.
LEMMA BobStep ==
  ASSUME SubscriptionInv, BobRemovesAlice \/ Crash
  PROVE  SubscriptionInv'
<1>1. /\ faults \in Faults /\ net \subseteq Packet
      /\ {bootstrap, subscriber, broadcasting, alive} \subseteq BOOLEAN
      /\ keys \in [Homie -> Key \cup {None}]
      /\ handshake \in Handshake \cup {None}
  BY Zenon DEF SubscriptionInv, TypeOK
<1>2. CASE BobRemovesAlice
  <2>1. Counts /\ faults'.down # 0
    BY Zenon, <1>1, <1>2, FaultsCounted DEF BobRemovesAlice, Counts
  <2>2. /\ broadcasting' = subscriber /\ subscriber' = FALSE
        /\ keys' = [keys EXCEPT !["bob"] = None]
        /\ UNCHANGED <<subscribed, watchdog, reassign_timer, bootstrap, mailbox, alive, handshake,
                       net, stray>>
    BY Zenon, <1>2 DEF BobRemovesAlice, alice
  <2>3. keys' \in [Homie -> Key \cup {None}] /\ keys'["alice"] = keys["alice"]
    BY <1>1, <2>2 DEF Homie
  <2> QED BY Zenon, <1>1, <2>1, <2>2, <2>3, OutsideStep
<1>3. CASE Crash
  <2>1. Counts
    BY Zenon, <1>1, <1>3 DEF Crash, Counts
  <2>2. /\ alive' = FALSE
        /\ UNCHANGED <<keys, subscribed, watchdog, reassign_timer, bootstrap, mailbox, subscriber,
                       broadcasting, handshake, net, stray>>
    BY Zenon, <1>3 DEF Crash, alice
  <2> QED BY Zenon, <1>1, <2>1, <2>2, OutsideStep
<1> QED BY Zenon, <1>2, <1>3

\* The packets of the subscription keep the invariant: bob answers when alice is
\* among the subscribers of both of his servers.
LEMMA PacketStep ==
  ASSUME SubscriptionInv, NEW p \in net,
         StartSubscriptionArrives(p) \/ SubscriptionStartedArrives(p) \/ Lose(p)
  PROVE  SubscriptionInv'
<1>1. /\ TypeOK /\ OneCall /\ faults \in Faults /\ net \subseteq Packet
      /\ {subscribed, watchdog, reassign_timer, bootstrap, stray} \subseteq BOOLEAN
      /\ {subscriber, broadcasting, alive} \subseteq BOOLEAN
      /\ keys \in [Homie -> Key \cup {None}]
      /\ handshake \in Handshake \cup {None}
  BY Zenon DEF SubscriptionInv, TypeOK
<1>2. CASE StartSubscriptionArrives(p)
  <2> DEFINE q == [type |-> "SubscriptionStarted", keys |-> p.keys]
  <2>1. q \in Packet
    BY Zenon, <1>1 DEF Packet
  <2>2. /\ UNCHANGED <<keys, subscribed, watchdog, reassign_timer, bootstrap, mailbox, stray, alive,
                       handshake, faults>>
        /\ \/ subscriber' = TRUE /\ broadcasting' = TRUE /\ net' = (net \ {p}) \cup {q}
           \/ subscriber' = subscriber /\ broadcasting' = broadcasting /\ net' = net \ {p}
    BY Zenon, <1>2 DEF StartSubscriptionArrives, alice
  <2>3. Counts
    BY Zenon, <1>1, <2>2 DEF Counts
  <2> HIDE DEF q
  <2>4. net' \subseteq Packet /\ {subscriber', broadcasting'} \subseteq BOOLEAN
    BY Zenon, <1>1, <2>1, <2>2
  <2>5. subscriber /\ broadcasting => subscriber' /\ broadcasting'
    BY Zenon, <2>2
  <2>6. \A r \in net' : r \in net \/ (subscriber' /\ broadcasting')
    BY Zenon, <2>2
  <2>7. /\ keys' \in [Homie -> Key \cup {None}] /\ keys'["alice"] = keys["alice"]
        /\ handshake' \in Handshake \cup {None} /\ handshake' = handshake
        /\ {bootstrap', subscriber', broadcasting', alive'} \subseteq BOOLEAN
        /\ UNCHANGED <<subscribed, watchdog, reassign_timer, mailbox, stray>>
    BY Zenon, <1>1, <2>2, <2>4
  <2> QED BY Zenon, <2>3, <2>4, <2>5, <2>6, <2>7, OutsideStep
<1>3. CASE SubscriptionStartedArrives(p)
  <2>1. /\ p.type = "SubscriptionStarted" /\ net' = net \ {p}
        /\ UNCHANGED <<keys, subscribed, watchdog, reassign_timer, bootstrap, subscriber,
                       broadcasting, alive, handshake, faults, stray>>
        /\ Cast([type |-> "SubscriptionStarted"]) \/ mailbox' = mailbox
    BY Zenon, <1>3 DEF SubscriptionStartedArrives, bob
  <2>2. Counts /\ net' \subseteq Packet
    BY Zenon, <1>1, <2>1 DEF Counts
  <2>3. CASE mailbox' = mailbox
    BY Zenon, <1>1, <2>1, <2>2, <2>3, OutsideStep
  <2>4. CASE Cast([type |-> "SubscriptionStarted"])
    <3> DEFINE m == [type |-> "SubscriptionStarted"]
    <3>1. m \in Message /\ m.type = "SubscriptionStarted" /\ Cast(m)
      BY Zenon, <2>4, Messages
    <3> HIDE DEF m
    <3>2. TypeOK'
      BY Zenon, <1>1, <2>1, <2>2, <3>1, CastFacts DEF TypeOK
    <3>3. OneCall'
      BY Zenon, <1>1, <2>1, <3>1, CastOneCall
    <3>4. WatchdogGuardsSubscription'
      BY Zenon, <2>1 DEF SubscriptionInv, WatchdogGuardsSubscription
    <3>5. UnwatchedIsStray'
      BY Zenon, <1>1, <2>1, <3>1, CastFacts DEF SubscriptionInv, UnwatchedIsStray
    <3>6. AnswerFromServer'
      BY Zenon, <1>1, <2>1, <3>1, CastFacts DEF SubscriptionInv, AnswerFromServer
    <3> QED BY Zenon, <3>2, <3>3, <3>4, <3>5, <3>6 DEF SubscriptionInv
  <2> QED BY Zenon, <2>1, <2>3, <2>4
<1>4. CASE Lose(p)
  <2>1. Counts
    BY Zenon, <1>1, <1>4, FaultsCounted DEF Lose, Counts
  <2>2. /\ net' = net \ {p}
        /\ UNCHANGED <<keys, subscribed, watchdog, reassign_timer, bootstrap, mailbox, stray,
                       subscriber, broadcasting, alive, handshake>>
    BY Zenon, <1>4 DEF Lose, alice, bob
  <2>3. net' \subseteq Packet
    BY Zenon, <1>1, <2>2
  <2> QED BY Zenon, <1>1, <2>1, <2>2, <2>3, OutsideStep
<1> QED BY Zenon, <1>2, <1>3, <1>4

\* Taking the keys of a handshake keeps the invariant: alice's Handshaker makes
\* the only call, bob's entry changes at once.
LEMMA TakeKeysStep ==
  ASSUME SubscriptionInv, handshake # None, handshake.stage # "calling",
         NEW n \in Homie, TakeKeys(n),
         UNCHANGED <<subscribed, watchdog, reassign_timer, bootstrap, subscriber, broadcasting,
                     alive, net, faults, stray>>
  PROVE  SubscriptionInv'
<1>1. /\ TypeOK /\ OneCall /\ faults \in Faults /\ net \subseteq Packet
      /\ {bootstrap, subscriber, broadcasting, alive} \subseteq BOOLEAN
      /\ keys \in [Homie -> Key \cup {None}]
      /\ handshake \in Handshake
  BY Zenon DEF SubscriptionInv, TypeOK
<1>2. handshake.keys \in Key /\ Counts
  BY Zenon, <1>1 DEF Handshake, Counts
<1>3. CASE n = "alice"
  <2> DEFINE m == [type |-> "Up", keys |-> handshake.keys]
  <2>1. /\ Cast(m) /\ keys' = keys
        /\ handshake' = [handshake EXCEPT !.stage = "calling"]
    BY Zenon, <1>3 DEF TakeKeys
  <2>2. /\ handshake' \in Handshake /\ handshake'.stage = "calling"
        /\ handshake'.keys = handshake.keys
    BY <1>1, <2>1 DEF Handshake
  <2>3. OneCall'
    BY Zenon, <1>1, <1>2, <2>1, <2>2, NoneAssumption, CallOneCall
  <2>4. m \in Message /\ m.type = "Up"
    BY Zenon, <1>2, Messages
  <2> HIDE DEF m
  <2>5. TypeOK'
    BY Zenon, <1>1, <2>1, <2>2, <2>4, CastFacts DEF TypeOK
  <2>6. WatchdogGuardsSubscription'
    BY Zenon, <2>1 DEF SubscriptionInv, WatchdogGuardsSubscription
  <2>7. UnwatchedIsStray'
    BY Zenon, <1>1, <2>1, <2>4, CastFacts DEF SubscriptionInv, UnwatchedIsStray
  <2>8. AnswerFromServer'
    BY Zenon, <1>1, <2>1, <2>4, CastFacts DEF SubscriptionInv, AnswerFromServer
  <2> QED BY Zenon, <2>3, <2>5, <2>6, <2>7, <2>8 DEF SubscriptionInv
<1>4. CASE n = "bob"
  <2>1. /\ keys' = [keys EXCEPT !["bob"] = handshake.keys] /\ mailbox' = mailbox
        /\ handshake' = IF handshake.initiator = "bob" THEN None
                                                       ELSE [handshake EXCEPT !.stage = "goteam"]
    BY Zenon, <1>4 DEF TakeKeys
  <2>2. keys' \in [Homie -> Key \cup {None}] /\ keys'["alice"] = keys["alice"]
    BY <1>1, <1>2, <2>1 DEF Homie
  <2>3. handshake' \in Handshake \cup {None}
    BY Zenon, <1>1, <2>1 DEF Handshake
  <2> QED BY Zenon, <1>1, <1>2, <2>1, <2>2, <2>3, OutsideStep
<1> QED BY Zenon, <1>3, <1>4 DEF Homie

-----------------------------------------------------------------------------
(* The theorems                                                            *)

\* The invariant holds at the start.
LEMMA SubscriptionInit == Init => SubscriptionInv
<1> SUFFICES ASSUME Init PROVE SubscriptionInv
  BY Zenon
<1>1. mailbox \in Seq(Message) /\ Len(mailbox) <= MaxMailbox /\ DOMAIN mailbox = {}
  BY SubscriptionAssumption DEF Init
<1>2. faults \in Faults
  BY SubscriptionAssumption DEF Init, Faults
<1>3. TypeOK
  BY Zenon, <1>1, <1>2 DEF Init, TypeOK
<1>4. OneCall /\ WatchdogGuardsSubscription /\ UnwatchedIsStray /\ AnswerFromServer
  BY Zenon, <1>1 DEF Init, OneCall, WatchdogGuardsSubscription, UnwatchedIsStray, AnswerFromServer,
                     Waiting
<1> QED BY Zenon, <1>3, <1>4 DEF SubscriptionInv

\* Every step keeps the invariant.
LEMMA SubscriptionStep == SubscriptionInv /\ [Next]_vars => SubscriptionInv'
<1> SUFFICES ASSUME SubscriptionInv, [Next]_vars PROVE SubscriptionInv'
  BY Zenon
<1>1. CASE HandleMessage
  BY Zenon, <1>1, AddPeerStep, RemovePeerStep, SubscriptionStartedStep, HeartbeatStep, ReassignStep
     DEF HandleMessage
<1>2. CASE OkBossArrives \/ GoTeamArrives
  <2>1. /\ handshake # None /\ handshake.stage # "calling"
        /\ TakeKeys(Other(handshake.initiator)) \/ TakeKeys(handshake.initiator)
        /\ UNCHANGED <<subscribed, watchdog, reassign_timer, bootstrap, subscriber, broadcasting,
                       alive, net, faults, stray>>
    BY Zenon, <1>2 DEF OkBossArrives, GoTeamArrives, bob
  <2>2. handshake.initiator \in Homie
    BY Zenon, <2>1 DEF SubscriptionInv, TypeOK, Handshake
  <2>3. Other(handshake.initiator) \in Homie
    BY Zenon, <2>2 DEF Other, Homie
  <2> QED BY Zenon, <2>1, <2>2, <2>3, TakeKeysStep
<1>3. CASE UNCHANGED vars
  BY Zenon, <1>3 DEF vars, alice, bob, SubscriptionInv, TypeOK, OneCall, WatchdogGuardsSubscription,
                     UnwatchedIsStray, AnswerFromServer, Waiting
<1> QED BY Zenon, <1>1, <1>2, <1>3, TimersStep, GreetingStep, PacketStep, BobStep DEF Next

\* The invariant holds in every state of every behaviour.
THEOREM SubscriptionInvariant == Spec => []SubscriptionInv
BY SubscriptionInit, SubscriptionStep, PTL DEF Spec

\* The variables of both nodes keep their types, whatever arrives in whatever
\* order, and the mailbox of alice's PeerManager its bound.
THEOREM SubscriptionTypes == Spec => []TypeOK
<1>1. SubscriptionInv => TypeOK
  BY Zenon DEF SubscriptionInv
<1> QED BY <1>1, SubscriptionInvariant, PTL

\* A watchdog runs only for a bob that alice knows and is subscribed to.
THEOREM WatchdogGuards == Spec => []WatchdogGuardsSubscription
<1>1. SubscriptionInv => WatchdogGuardsSubscription
  BY Zenon DEF SubscriptionInv
<1> QED BY <1>1, SubscriptionInvariant, PTL

\* A subscription is watched, or its Down is on its way to remove_peer, or it
\* was started by a SubscriptionStarted of a bob alice did not know.
THEOREM NothingElseUnwatched == Spec => []UnwatchedIsStray
<1>1. SubscriptionInv => UnwatchedIsStray
  BY Zenon DEF SubscriptionInv
<1> QED BY <1>1, SubscriptionInvariant, PTL

\* Without wrong Downs, whoever takes itself for subscribed is broadcast to.
THEOREM SubscribedMeansServed == Spec => []SubscribedIsServed
<1>1. SubscriptionInv => SubscribedIsServed
  BY Zenon DEF SubscriptionInv, AnswerFromServer, SubscribedIsServed
<1> QED BY <1>1, SubscriptionInvariant, PTL
=============================================================================
