--------------------------- MODULE MCSealedChannel ---------------------------
(* Two bodies, lengths 0 and 2, two messages per direction, with sequence    *)
(* numbers of two bits: enough for a message to be overtaken, repeated, and   *)
(* damaged before, between and after the genuine ones.                       *)
EXTENDS SealedChannel

CONSTANTS b1, b2

MCBodies == {b1, b2}
MCLens   == {0, 2}
MCMax    == [d \in Dirs |-> 2]

=============================================================================
