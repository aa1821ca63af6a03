------------------------------ MODULE MCQueue ------------------------------
(* Instances of EventQueue for TLC. *)
EXTENDS EventQueue

CONSTANTS assoc, eap, none

AssocAndEap == {assoc, eap}

\* NumItem has no bound once the ring is harmed.
Bounded == NumItem \in -1 .. MaxItem + 1
=============================================================================
