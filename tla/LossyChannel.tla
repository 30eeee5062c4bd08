---------------------------- MODULE LossyChannel ----------------------------
(***************************************************************************)
(* What a gossip socket promises to the server tasks at its two ends: each *)
(* connection is a queue that may lose messages, any number at any time,   *)
(* and neither repeats, reorders nor invents any.  Nothing is promised     *)
(* across connections.                                                     *)
(***************************************************************************)
EXTENDS Integers, Sequences

CONSTANTS Link

VARIABLES
    sent,       \* messages are numbered: how many have been sent
    in_transit, \* in_transit[c]: the messages of connection c on their way
    received    \* messages that were received, each with its connection

channelVars == <<sent, in_transit, received>>

ChannelInit ==
    /\ sent = 0
    /\ in_transit = [c \in Link |-> {}]
    /\ received = <<>>

\* Nothing is added to the connections in C.
MayLose(C) == \A c \in C : in_transit'[c] \subseteq in_transit[c]

\* A message is sent on some connection, or on none.
Send ==
    /\ sent' = sent + 1
    /\ \/ MayLose(Link)
       \/ \E c \in Link : /\ in_transit'[c] \subseteq in_transit[c] \cup {sent + 1}
                          /\ MayLose(Link \ {c})
    /\ UNCHANGED received

Lose ==
    /\ MayLose(Link)
    /\ UNCHANGED <<sent, received>>

\* A message is received; those that were sent before it on its connection, and
\* have not been received, are lost.
ReceiveFrom(c) ==
    /\ \E m \in in_transit[c] :
          /\ received' = Append(received, [link |-> c, message |-> m])
          /\ in_transit'[c] \subseteq {x \in in_transit[c] : x > m}
    /\ MayLose(Link \ {c})
    /\ UNCHANGED sent

ChannelNext == Send \/ Lose \/ \E c \in Link : ReceiveFrom(c)

ChannelSpec == ChannelInit /\ [][ChannelNext]_channelVars
=============================================================================
