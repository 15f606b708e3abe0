--------------------------- MODULE MCNtlmHandshake ---------------------------
(* Instances of NtlmHandshake.  The target infos make the tokens, and the DER  *)
(* around them, pass 127, 255 and 65535 bytes.                                *)
EXTENDS NtlmHandshake

TextLengths ==
    [t \in {"", "user", "longest", "CORP", "HOST", "secret", "other", "http/host", "now"} |->
        CASE t = "" -> 0
          [] t \in {"user", "CORP", "HOST"} -> 4
          [] t \in {"secret", "other", "http/host", "now"} -> 6
          [] t = "longest" -> 32768]

SomePersons ==
    {[user |-> "user", domain |-> "", password |-> "secret"],
     [user |-> "user", domain |-> "CORP", password |-> "secret"],
     [user |-> "longest", domain |-> "", password |-> "secret"]}

Filled(n, time) ==
    <<Av("NB_DOMAIN_NAME", n, <<"domain">>)>>
    \o (IF time THEN <<Av("TIMESTAMP", 8, "then")>> ELSE <<>>) \o <<EndOfList>>

Fillers  == 1 .. 45 \cup {65160 + 10 * k : k \in 0 .. 7}
\* A time that is none.
Shortened == <<Av("TIMESTAMP", 4, "then"), EndOfList>>
AllInfos  == {None, <<EndOfList>>, Filled(8, FALSE), Shortened} \cup {Filled(n, TRUE) : n \in Fillers}

=============================================================================
