---------------------------------- MODULE Fifo ----------------------------------
(* What the tunnel promises of its stream: messages are received once, whole, *)
(* and in the order in which they were sent.                                  *)
EXTENDS Naturals, Sequences

CONSTANT Message

VARIABLES sent, received

Init == sent = <<>> /\ received = <<>>

Send == \E m \in Message : sent' = Append(sent, m) /\ UNCHANGED received

Receive == /\ Len(received) < Len(sent)
           /\ received' = Append(received, sent[Len(received) + 1])
           /\ UNCHANGED sent

Next == Send \/ Receive

Spec == Init /\ [][Next]_<<sent, received>>
=============================================================================
