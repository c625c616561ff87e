------------------------------ MODULE MCChatRoom ------------------------------
(* Instances of ChatRoom for TLC.                                          *)
EXTENDS ChatDelivery, TLC

(* No operator chooses a socket or a handler: they are interchangeable.    *)
Symmetry == Permutations(Socket) \cup Permutations(Request)

=============================================================================
