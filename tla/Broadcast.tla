------------------------------ MODULE Broadcast ------------------------------
(***************************************************************************)
(* What gwyh promises an application: at-most-once broadcast.              *)
(*                                                                         *)
(* A message that was broadcast is handed to the handler of any other node *)
(* at most once, or never.  A node that has forgotten a message (its ids   *)
(* are kept in a cache of limited size) takes it for new, also when it is  *)
(* a message of its own.                                                   *)
(***************************************************************************)
EXTENDS Integers

CONSTANTS Node, Id

VARIABLES
  published,   \* Gwyh::broadcast: the node each message comes from
  delivered,   \* handle_broadcast: how often each node got it, counted to 2
  forgotten    \* the messages each node has forgotten

vars == <<published, delivered, forgotten>>

\* A node may forget any messages while it does something else.
Forgets ==
  /\ forgotten' \in [Node -> SUBSET Id]
  /\ \A n \in Node : forgotten[n] \subseteq forgotten'[n]

\* The application of n broadcasts a message.
Publish(n, id) ==
  /\ id \notin DOMAIN published
  /\ published' = [i \in DOMAIN published \cup {id} |-> IF i = id THEN n ELSE published[i]]
  /\ Forgets
  /\ UNCHANGED delivered

\* The handler of n gets a message: it is new to n, or n has forgotten it.
Deliver(n, id) ==
  /\ id \in DOMAIN published
  /\ id \in forgotten[n] \/ (delivered[n][id] = 0 /\ published[id] # n)
  /\ delivered' = [delivered EXCEPT ![n][id] = IF @ < 2 THEN @ + 1 ELSE @]
  /\ Forgets
  /\ UNCHANGED published

\* Nothing the application can see, except that messages may be forgotten.
Other == Forgets /\ UNCHANGED <<published, delivered>>

Init ==
  /\ published = [id \in {} |-> 0]
  /\ delivered = [n \in Node |-> [id \in Id |-> 0]]
  /\ forgotten = [n \in Node |-> {}]

Next == Other \/ \E n \in Node, id \in Id : Publish(n, id) \/ Deliver(n, id)

Spec == Init /\ [][Next]_vars
=============================================================================
