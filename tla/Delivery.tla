------------------------------ MODULE Delivery ------------------------------
(***************************************************************************)
(* What the networking library promises the application that sends through *)
(* Server::send (lib/networking/include/Server.h): the texts posted to one *)
(* connection reach its socket in the order they were posted, none lost,   *)
(* duplicated or invented, for as long as the connection is a member; and  *)
(* a responsive member is never left with undelivered text: either the     *)
(* text is delivered or the connection ceases to be a member.              *)
(*                                                                         *)
(* A connection identifier may be reused once its connection is gone, so   *)
(* the two logs of an identifier start afresh with every Open.             *)
(***************************************************************************)
EXTENDS Naturals, Sequences

CONSTANTS
    Connection,     \* the identifiers a connection can have
    Text,           \* what may be posted (never the empty text)
    Responsive      \* the connections whose peer keeps reading

VARIABLES
    members,        \* the connections the application has been told of
    posted,         \* per connection: the texts posted to it, in order
    delivered       \* per connection: the texts its socket has taken, in order

vars == <<members, posted, delivered>>

Init ==
    /\ members = {}
    /\ posted = [c \in Connection |-> <<>>]
    /\ delivered = [c \in Connection |-> <<>>]

Pending(c) == Len(delivered[c]) < Len(posted[c])

\* A new connection takes an identifier that is not a member's.
Open(c) ==
    /\ c \notin members
    /\ posted' = [posted EXCEPT ![c] = <<>>]
    /\ delivered' = [delivered EXCEPT ![c] = <<>>]
    /\ UNCHANGED members

Join(c) ==
    /\ c \notin members
    /\ members' = members \cup {c}
    /\ UNCHANGED <<posted, delivered>>

Post(c, t) ==
    /\ c \in members
    /\ posted' = [posted EXCEPT ![c] = Append(@, t)]
    /\ UNCHANGED <<members, delivered>>

\* The write under way when a connection leaves may still succeed, so delivery
\* does not need membership.
Deliver(c) ==
    /\ Pending(c)
    /\ delivered' = [delivered EXCEPT ![c] = Append(@, posted[c][Len(@) + 1])]
    /\ UNCHANGED <<members, posted>>

Leave(c) ==
    /\ c \in members
    /\ members' = members \ {c}
    /\ UNCHANGED <<posted, delivered>>

\* The server is destroyed and every connection with it.
Close ==
    /\ members' = {}
    /\ UNCHANGED <<posted, delivered>>

Next ==
    \/ \E c \in Connection : Open(c) \/ Join(c) \/ Deliver(c) \/ Leave(c)
    \/ \E c \in Connection, t \in Text : Post(c, t)
    \/ Close

SafeSpec == Init /\ [][Next]_vars

DeliverOrLeave(c) == /\ c \in members
                     /\ Pending(c)
                     /\ Deliver(c) \/ Leave(c)

Spec == SafeSpec /\ \A c \in Responsive : WF_vars(DeliverOrLeave(c))
=============================================================================
