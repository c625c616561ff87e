------------------------------- MODULE MCBrowser -------------------------------
(* Browser for TLC.                                                        *)
EXTENDS Browser

CONSTANTS a, b

(* Two administrators who use the same computer.                           *)
Everything == [x \in {a, b} |-> Page]

=============================================================================
