----------------------------- MODULE MCChatClient -----------------------------
(* Instances of ChatClient for TLC.                                        *)
EXTENDS ChatClient, TLC

(* No operator chooses a socket or a handler: they are interchangeable.    *)
Symmetry == Permutations(Socket) \cup Permutations(Request)

=============================================================================
