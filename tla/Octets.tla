-------------------------------- MODULE Octets --------------------------------
(***************************************************************************)
(* Byte strings with what the messages of NTLM and CredSSP put into them.     *)
(* One is a sequence of atoms, each a number of bytes that belong together:   *)
(* <<size, sort, content>>.  A single byte is an atom whose value counts; of  *)
(* a longer one only what it stands for does.  Atoms of a sort have contents  *)
(* of a kind.                                                                *)
(***************************************************************************)
EXTENDS Integers, Sequences

CONSTANT None

Byte(n) == <<1, "byte", n>>

IsByte(atom) == atom[2] = "byte"

\* The sum of the first k numbers in a row.
Total(numbers, k) ==
    LET sum[i \in 0 .. k] == IF i = 0 THEN 0 ELSE sum[i - 1] + numbers[i] IN sum[k]

\* Where the k-th atom ends.
End(octets, k) == Total([i \in DOMAIN octets |-> octets[i][1]], k)
Size(octets)   == End(octets, Len(octets))

\* How many atoms the first n bytes are; no number, if they end inside one.
Cuts(octets, n) == {k \in 0 .. Len(octets) : End(octets, k) = n}
Cut(octets, n)  == CHOOSE k \in Cuts(octets, n) : TRUE

\* Bytes that have lost the limits of what stands in them.
Torn(size) == <<<<size, "torn", "torn">>>>

\* octets[from .. from + len], which must be within.
Slice(octets, from, len) ==
    IF len = 0 THEN <<>>
    ELSE IF Cuts(octets, from) # {} /\ Cuts(octets, from + len) # {}
    THEN SubSeq(octets, Cut(octets, from) + 1, Cut(octets, from + len))
    ELSE Torn(len)

=============================================================================
