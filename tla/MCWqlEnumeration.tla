--------------------------- MODULE MCWqlEnumeration ---------------------------
(* Instances of WqlEnumeration.                                               *)
EXTENDS WqlEnumeration

\* Texts with reserved characters: of a query, a context, a namespace.
Reserved == {"WHERE a < b", "<1>", "root/a&b"}

Configuration ==
    [endpoint |-> Plain("http://host:5985/wsman"), session |-> "session", timeout |-> 60,
     maxEnvelope |-> 153600]

AnyNamespace == {None, "root/other", "root/a&b"}

\* A context for an enumeration, one for each answer, one with reserved characters.
Fixed    == <<[n \in 1..9 |-> "1"], [n \in 1..9 |-> "2"]>>
Rotating == <<<<"11", "12", "13", "14", "15", "16">>, <<"21", "22", "23", "24", "25", "26">>>>
Marked   == <<[n \in 1..9 |-> "<1>"], [n \in 1..9 |-> "<1>"]>>
AnyContext == {Fixed, Rotating, Marked}

FourNames  == <<"i1", "i2", "i3", "i4">>
AnyOddity  == {"nothing", "EndOfSequence", "Fault"}
SomeCaps   == {None, 1, 3}

=============================================================================
