--------------------------- MODULE InOrderChannel ---------------------------
(***************************************************************************)
(* What a sealed session promises in one direction: the bodies the receiver *)
(* accepts are those the sender sealed, unaltered, in order and once each.  *)
(***************************************************************************)
EXTENDS Sequences, Naturals

CONSTANT Bodies

VARIABLES sealed,       \* bodies handed to the sender, oldest first
          accepted      \* bodies the receiver returned, oldest first

chanVars == <<sealed, accepted>>

Init == sealed = <<>> /\ accepted = <<>>

Send(b) == sealed' = Append(sealed, b) /\ UNCHANGED accepted

Accept ==
    /\ Len(accepted) < Len(sealed)
    /\ accepted' = Append(accepted, sealed[Len(accepted) + 1])
    /\ UNCHANGED sealed

Next == Accept \/ \E b \in Bodies : Send(b)

Spec == Init /\ [][Next]_chanVars
=============================================================================
