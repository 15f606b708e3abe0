-------------------------- MODULE MCPsrpReassembler --------------------------
(* Three messages: one of three fragments, one of two and one of a single      *)
(* fragment, mixed in every order; blobs of one or two bytes behind a header    *)
(* of two, so that pieces end inside headers and inside blobs.                 *)
EXTENDS PsrpReassembler

CONSTANTS o1, o2, o3

MCObjects == {o1, o2, o3}
MCPayload == [o \in MCObjects |-> CASE o = o1 -> <<"a", "b", "c", "d", "e">>
                                    [] o = o2 -> <<"p", "q", "r", "s">>
                                    [] o = o3 -> <<"x">>]
MCBytes   == {"a", "b", "c", "d", "e", "p", "q", "r", "s", "x"}
MCBad     == {o2}

=============================================================================
