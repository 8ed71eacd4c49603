-------------------------- MODULE HandshakeWindow --------------------------
(***************************************************************************)
(* The handshake in time (src/handshake.rs): alice greets bob, again and   *)
(* again, and only one handshake is under way at a time.  What is in the   *)
(* packets is the subject of Handshake; here is how old they are.  The     *)
(* unit of time is 10 milliseconds.                                        *)
(*                                                                         *)
(* Time is kept as ages, counted up to the age at which a handshake        *)
(* expires; alice's clock is the true one and bob's differs by skew.       *)
(***************************************************************************)
EXTENDS Integers

CONSTANTS
  Window,      \* the difference of timestamps that is_valid_timestamp_for refuses
  MinDelay,    \* HANDSHAKE_BOOTSTRAP_DELAY_MILLIS_MIN
  MaxDelay,    \* HANDSHAKE_BOOTSTRAP_DELAY_MILLIS_MAX, which is excluded
  Timeout,     \* HANDSHAKE_TIMEOUT_MILLIS, or less: nothing happens any more before
  MaxLatency,  \* bound: the time a packet takes
  MaxSkew      \* bound: the difference of the clocks

None    == "none"
NoDelay == -1

VARIABLES
  skew,      \* how far bob's clock is ahead of alice's
  alice,     \* alice's handshake: hellos, then okboss, then done
  bob,       \* bob's handshake: ohais, then done
  age,       \* the time since alice has stamped the handshake
  inflight,  \* bob: is alice's address in inflight?
  delay,     \* bob: the time until his Ohai leaves, or NoDelay
  packet,    \* the packet under way
  latency,   \* the time it has been under way
  refused    \* has a packet been refused for its timestamp?

vars == <<skew, alice, bob, age, inflight, delay, packet, latency, refused>>

IsValidTimestampFor(difference) == -Window < difference /\ difference < Window

SendPacket(step) == packet' = step /\ latency' = 0
NoPacket         == packet' = None /\ latency' = 0

-----------------------------------------------------------------------------
\* send_hello
SendHello ==
  /\ alice = None /\ bob = None
  /\ alice' = "hellos"
  /\ age' = 0
  /\ SendPacket("Hello")
  /\ UNCHANGED <<skew, bob, inflight, delay, refused>>

\* A Hello: the Ohai to an address in inflight waits.
RecvHello ==
  /\ packet = "Hello"
  /\ NoPacket
  /\ IF IsValidTimestampFor(age + skew)
     THEN /\ bob' = "ohais"
          /\ delay' \in IF inflight THEN MinDelay..(MaxDelay - 1) ELSE {0}
          /\ inflight' = TRUE
          /\ UNCHANGED refused
     ELSE /\ refused' = TRUE
          /\ UNCHANGED <<bob, delay, inflight>>
  /\ UNCHANGED <<skew, alice, age>>

\* The task of send_ohai has waited.
SendOhai ==
  /\ bob = "ohais" /\ delay = 0
  /\ delay' = NoDelay
  /\ SendPacket("Ohai")
  /\ UNCHANGED <<skew, alice, bob, age, inflight, refused>>

\* An Ohai: alice compares with the timestamp of her Hello.
RecvOhai ==
  /\ packet = "Ohai"
  /\ IF alice = "hellos" /\ IsValidTimestampFor(age)
     THEN /\ alice' = "okboss"
          /\ SendPacket("OkBoss")
          /\ UNCHANGED refused
     ELSE /\ alice' = None
          /\ refused' = (refused \/ alice = "hellos")
          /\ NoPacket
  /\ UNCHANGED <<skew, bob, age, inflight, delay>>

\* An OkBoss: the handshake ends at bob, with its timer.
RecvOkBoss ==
  /\ packet = "OkBoss" /\ bob = "ohais"
  /\ bob' = "done"
  /\ SendPacket("GoTeam")
  /\ UNCHANGED <<skew, alice, age, inflight, delay, refused>>

RecvGoTeam ==
  /\ packet = "GoTeam" /\ alice = "okboss"
  /\ alice' = "done"
  /\ NoPacket
  /\ UNCHANGED <<skew, bob, age, inflight, delay, refused>>

\* Dead: the timers of a handshake that has not ended fire.
RecvDead ==
  /\ age = Timeout /\ {alice, bob} \cap {"hellos", "ohais"} # {}
  /\ alice' = None /\ bob' = None
  /\ inflight' = (inflight /\ bob # "ohais")
  /\ UNCHANGED <<skew, age, delay, packet, latency, refused>>

\* Alice has lost bob, and will greet him again.
Lost ==
  /\ alice = "done" /\ bob = "done"
  /\ alice' = None /\ bob' = None
  /\ UNCHANGED <<skew, age, inflight, delay, packet, latency, refused>>

\* Time goes by, but no packet takes longer than MaxLatency.
Tick ==
  /\ latency < MaxLatency \/ packet = None
  /\ delay # 0
  /\ age < Timeout
  /\ age' = age + 1
  /\ latency' = IF packet = None THEN 0 ELSE latency + 1
  /\ delay' = IF delay > 0 THEN delay - 1 ELSE delay
  /\ UNCHANGED <<skew, alice, bob, inflight, packet, refused>>

Init ==
  /\ skew \in -MaxSkew..MaxSkew
  /\ alice = None /\ bob = None
  /\ age = 0
  /\ inflight = FALSE
  /\ delay = NoDelay
  /\ packet = None /\ latency = 0
  /\ refused = FALSE

Next ==
  \/ SendHello \/ RecvHello \/ SendOhai \/ RecvOhai \/ RecvOkBoss \/ RecvGoTeam
  \/ RecvDead \/ Lost \/ Tick

Spec == Init /\ [][Next]_vars

-----------------------------------------------------------------------------
\* "HMACs are valid for +/- 60 seconds from the time they were created"
\* (docs/PROTOCOL.md:83-84): no packet is refused for its timestamp between
\* homies whose clocks agree and whose packets take hundredths of a second.
NoneRefused == ~refused

=============================================================================
