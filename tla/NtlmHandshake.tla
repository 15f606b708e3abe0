----------------------------- MODULE NtlmHandshake -----------------------------
(***************************************************************************)
(* A login: the messages of NtlmMessages as they go between a client and a    *)
(* server, bare in HTTP headers (NtlmAuth::do_handshake of src/auth/ntlm.rs)  *)
(* or, for CredSSP, in the DER of src/asn1.rs (src/auth/credssp.rs), where    *)
(* the server's proof and the credentials follow.  The server is external.    *)
(***************************************************************************)
EXTENDS NtlmMessages, Der

CONSTANTS Persons,    \* who logs in: user, domain and password
          Infos,      \* target infos a server may send; None is a server without one
          MaxAltered  \* bound: messages changed on their way

Spn == "http/host"

\* The server compares with a password that is nobody's.
ASSUME HandshakeAssumption ==
    /\ MaxAltered \in Nat
    /\ Spn \in DOMAIN Lengths /\ 2 * Lengths[Spn] + 72 < Word
    /\ \A p \in Persons : /\ {p.user, p.domain, p.password} \subseteq DOMAIN Lengths
                          /\ p.password # "other"

\* A target info is a list of pairs with its end, only a client says that a
\* message has a MIC, and the response that repeats the list with the name of
\* the service fits a Word.
ASSUME InfosAssumption ==
    \A info \in Infos \ {None} :
       /\ info \in Seq({info[i] : i \in DOMAIN info})
       /\ info # <<>> /\ info[Len(info)] = EndOfList
       /\ \A i \in 1 .. Len(info) - 1 :
             info[i][2] = "av" /\ info[i][1] \in Nat \ 0 .. 3 /\ info[i] # EndOfList
       /\ AvValue(info, "FLAGS") # <<"MIC">>
       /\ Size(info) + 2 * Lengths[Spn] + 72 < Word

VARIABLES person, server, path,
          step,     \* whose turn it is, or how the client's login ended
          wire,     \* the octets under way, or None
          client,   \* what the client keeps: its messages, the challenge, the key, the proof
          reader,   \* what the server makes of them
          altered

vars == <<person, server, path, step, wire, client, reader, altered>>

\* Over TLS the client may have captured the certificate or not.
Paths == {"http", "tls", "tlsUncaptured", "credssp"}
Cert  == "certificate"

Random == [challenge |-> "client challenge", key |-> <<"random", "key">>]

\* knows: the password of the account is the person's; strict: wants channel
\* bindings on TLS; version: of CredSSP.
Servers == [knows : BOOLEAN, strict : BOOLEAN, version : {2, 6}, info : Infos]

Init ==
    /\ person \in Persons /\ server \in Servers /\ path \in Paths
    /\ path # "credssp" => server.version = 6
    /\ step = "negotiate" /\ wire = None
    /\ client = [type1 |-> None, challenge |-> None, key |-> None]
    /\ reader = [type1 |-> None, type2 |-> None, key |-> None, person |-> None]
    /\ altered = 0

Delegated == path = "credssp"

\* What the server's hash is of, and the client's.
PubKeyAuth(whose) == <<<<32, "binding hash", whose>>>>

\* NtlmSession::sign and seal, by key, direction and number.
Signature(key, number, octets) == <<<<16, "signature", <<key, "client", number, octets>>>>>>
Sealed(key, whose, number, octets) ==
    <<<<16 + Size(octets), "sealed", <<key, whose, number, octets>>>>>>

-----------------------------------------------------------------------------
(* The client.                                                               *)

Negotiate ==
    /\ step = "negotiate"
    /\ LET type1 == NegotiateMessage(IF Delegated THEN TYPE1_FLAGS_CREDSSP ELSE TYPE1_FLAGS)
       IN /\ client' = [client EXCEPT !.type1 = type1]
          /\ wire' = IF Delegated
                     THEN EncodeTsRequest(6, EncodeSpnegoInit(type1), None, None, None) ELSE type1
    /\ step' = "challenge"
    /\ UNCHANGED <<person, server, path, reader, altered>>

Fail(error) == step' = error /\ wire' = None /\ UNCHANGED client

\* The NTLM message inside a request of CredSSP.
TokenIn(ts) == IF ts = None \/ ts.negoToken = None THEN None ELSE DecodeSpnegoToken(ts.negoToken)

Refuses(ts) == ts # None /\ ts.errorCode # None

\* The Type 2 in an answer of CredSSP that holds no error.
Accepted(ts) == IF Refuses(ts) THEN None ELSE TokenIn(ts)

\* Type 2 in an answer, or None.
Challenge(answer) ==
    IF answer = None THEN None
    ELSE IF Delegated THEN Accepted(DecodeTsRequest(answer)) ELSE answer

\* Type 3 with the channel's bindings, with a MIC, or with both its own number
\* of the session and a MIC over the mechanisms.
Type3(type2, challenge) ==
    CASE path = "tls" ->
            AuthenticateWithCbt(challenge, person, ChannelBindings(Cert), Random, "now")
      [] path \in {"http", "tlsUncaptured"} ->
            AuthenticateWithMic(challenge, person, client.type1, type2, Spn, Random, "now")
      [] path = "credssp" ->
            AuthenticateCredSsp(challenge, person, client.type1, type2, Spn, Random, "now")

\* What answers the challenge in a Type 2.
Response(type2, challenge) ==
    IF challenge = None THEN Fail("error")
    ELSE /\ client' = [client EXCEPT !.challenge = challenge, !.key = Random.key]
         /\ LET type3 == Type3(type2, challenge)
            IN wire' = IF ~Delegated THEN type3
                       ELSE EncodeTsRequest(6,
                              EncodeSpnegoResponse(type3, Signature(Random.key, 0, MechTypeList)),
                              Sealed(Random.key, "client", 1, PubKeyAuth("client")), None,
                              <<<<32, "nonce", "nonce">>>>)
         /\ step' = "decide"

Answer(type2) == Response(type2, IF type2 = None THEN None ELSE ParseChallenge(type2))

Authenticate ==
    /\ step = "authenticate" /\ Answer(Challenge(wire))
    /\ UNCHANGED <<person, server, path, reader, altered>>

\* The credentials go out after the server's proof.
Delegate(ts) ==
    IF \/ ts = None \/ Refuses(ts)
       \/ ts.pubKeyAuth # Sealed(client.key, "server", 0, PubKeyAuth("server"))
    THEN Fail("error")
    ELSE LET creds == EncodeTsCredentials(Utf16(person.domain), Utf16(person.user),
                                          Utf16(person.password))
         IN /\ wire' = EncodeTsRequest(6, None, None, Sealed(client.key, "client", 2, creds), None)
            /\ step' = "receive" /\ UNCHANGED client

\* The answer to Type 3.
Conclude ==
    /\ step = "conclude"
    /\ IF ~Delegated
       THEN /\ step' = IF wire = None THEN "error" ELSE "ok"
            /\ wire' = None /\ UNCHANGED client
       ELSE Delegate(IF wire = None THEN None ELSE DecodeTsRequest(wire))
    /\ UNCHANGED <<person, server, path, reader, altered>>

-----------------------------------------------------------------------------
(* The server.                                                               *)

ServerUnchanged == UNCHANGED <<person, server, path, client, altered>>

\* The message of a request.
Received(octets) == IF Delegated THEN TokenIn(DecodeTsRequest(octets)) ELSE octets

Type2(flags) ==
    LET name == Utf16("HOST")
    IN IF server.info = None
       THEN <<<<32, "type2", [serverChallenge |-> "server challenge", flags |-> flags,
                              targetInfo |-> SecurityBuffer(0, 0)]>>>>
       ELSE <<<<56, "type2", [serverChallenge |-> "server challenge", flags |-> flags,
                              targetInfo |-> SecurityBuffer(Size(server.info), 56 + Size(name))]>>>>
            \o name \o server.info

NegTokenResp(token) ==
    EncodeContextTag(1, EncodeSequence(
        EncodeContextTag(0, <<Byte(10), Byte(1), Byte(1)>>) \o EncodeContextTag(1, NtlmOid)
        \o Field(2, token)))

ServerError ==
    EncodeSequence(EncodeContextTag(0, EncodeIntegerValue(server.version))
                   \o EncodeContextTag(4, EncodeIntegerValue(1326)))

\* A server that will not go on says so, or says nothing.
Refusal == IF Delegated THEN {ServerError, None} ELSE {None}

Challenged(type1) ==
    /\ type1 # None
    /\ LET type2 == Type2(type1[1][3].flags \cap TYPE1_FLAGS)
       IN /\ reader' = [reader EXCEPT !.type1 = type1, !.type2 = type2]
          /\ wire' = IF ~Delegated THEN type2
                     ELSE EncodeTsRequest(server.version, NegTokenResp(type2), None, None, None)

SendChallenge ==
    /\ step = "challenge"
    /\ \/ wire' \in Refusal /\ UNCHANGED reader
       \/ Challenged(Received(wire))
    /\ step' = "authenticate" /\ ServerUnchanged

At(msg, sb) == Slice(msg, sb.offset, sb.len)

\* The session key the server finds in a Type 3 whose proof is by this password
\* and these names.
KeyBy(type3, pass, names, nt, sealed) ==
    LET h      == type3[1][3]
        hash   == Ntlmv2Hash(pass, names[1], names[2])
        key    == sealed[1][3][2]
        pairs  == SubSeq(nt, 3, Len(nt))
        signed == AvValue(pairs, "FLAGS") = <<"MIC">>
        bound  == AvValue(pairs, "CHANNEL_BINDINGS") = <<ChannelBindings(Cert)>>
        plain  == <<<<type3[1][1], "type3", [h EXCEPT !.mic = <<>>]>>>> \o Tail(type3)
    IN IF /\ Len(sealed) = 1 /\ sealed[1] = Encrypted(<<"session", hash, nt[1]>>, key)
          /\ signed => h.mic = <<Hmac(key, reader.type1 \o reader.type2 \o plain)>>
          /\ server.strict /\ path \in {"tls", "tlsUncaptured"} => bound
       THEN key ELSE None

Proof(pass, names, nt) ==
    Hmac(Ntlmv2Hash(pass, names[1], names[2]),
         <<<<8, "challenge", "server challenge">>>> \o Tail(nt))

\* The key of a Type 3 that proves the password, or None.
KeyOf(type3) ==
    LET h     == type3[1][3]
        nt    == At(type3, h.nt)
        pass  == IF server.knows THEN person.password ELSE "other"
        names == {n \in (DOMAIN Lengths) \X (DOMAIN Lengths) :
                     /\ Utf16(n[1]) = At(type3, h.user) /\ Utf16(n[2]) = At(type3, h.domain)
                     /\ nt[1] = Proof(pass, n, nt)}
    IN IF names = {} THEN None
       ELSE KeyBy(type3, pass, CHOOSE n \in names : TRUE, nt, At(type3, h.key))

\* What CredSSP sends beside Type 3 is by the session of this key.
Accompanied(ts, key) ==
    /\ Signature(key, 0, MechTypeList) =
           DecodeOctetString(Within(Inside(Inside(ts.negoToken)), 3))
    /\ ts.pubKeyAuth = Sealed(key, "client", 1, PubKeyAuth("client"))
    /\ ts.clientNonce = <<<<32, "nonce", "nonce">>>>

\* The server takes the login whose session has this key, or refuses it.
Taken(key) ==
    IF key # None /\ (Delegated => Accompanied(DecodeTsRequest(wire), key))
    THEN /\ reader' = [reader EXCEPT !.key = key]
         /\ wire' = IF ~Delegated THEN <<>>
                    ELSE EncodeTsRequest(server.version, None,
                                         Sealed(key, "server", 0, PubKeyAuth("server")), None, None)
    ELSE wire' \in Refusal /\ UNCHANGED reader

Judged(type3) == Taken(IF type3 = None THEN None ELSE KeyOf(type3))

Decide ==
    /\ step = "decide" /\ Judged(Received(wire))
    /\ step' = "conclude" /\ ServerUnchanged

Text(octets) == IF octets = None THEN <<>> ELSE octets

\* The texts in TSCredentials.
Credentials(octets) ==
    LET inner == Inside(DecodeOctetString(Within(Inside(octets), 1)))
    IN [i \in 1 .. 3 |-> Text(DecodeOctetString(Within(inner, i - 1)))]

Opened(sealed) ==
    IF sealed # None /\ sealed = Sealed(reader.key, "client", 2, sealed[1][3][4])
    THEN reader' = [reader EXCEPT !.person = Credentials(sealed[1][3][4])] /\ step' = "ok"
    ELSE UNCHANGED reader /\ step' = "error"

Receive ==
    /\ step = "receive" /\ Opened(DecodeTsRequest(wire).authInfo)
    /\ wire' = None /\ ServerUnchanged

\* A message of a plain connection reaches the other side without one of its
\* flags.
Alter ==
    /\ path = "http" /\ step \in {"challenge", "authenticate", "decide"}
    /\ wire # None /\ altered < MaxAltered
    /\ \E flag \in {"SEAL", "128"} \cap wire[1][3].flags :
          wire' = <<<<wire[1][1], wire[1][2], [wire[1][3] EXCEPT !.flags = @ \ {flag}]>>>> \o Tail(wire)
    /\ altered' = altered + 1
    /\ UNCHANGED <<person, server, path, step, client, reader>>

Next == Negotiate \/ Authenticate \/ Conclude \/ SendChallenge \/ Decide \/ Receive \/ Alter

Spec == Init /\ [][Next]_vars

-----------------------------------------------------------------------------
(* Properties.                                                               *)

\* The client's header fields hold the number of bytes a text takes.
Fits == \A f \in {"user", "domain"} : 2 * Lengths[person[f]] < Word

\* A login fails only for a reason.  Over a connection that changes nothing, a
\* server that knows the password and has sent its challenge takes the login of
\* the client, whatever the lengths of what the messages hold, unless a name is
\* too long for its field, the server wants the channel bindings the client
\* could not compute, or the domain that CredSSP leaves out of Type 3 went
\* into the hash (create_authenticate_message_full, encode_ts_request,
\* decode_ts_request, decode_spnego_token, parse_challenge).
GoodLoginIsTaken ==
    (step \in {"conclude", "ok", "error"} /\ reader.type2 # None /\ altered = 0 /\ server.knows /\ Fits)
        => \/ reader.key # None
           \/ path = "credssp" /\ person.domain # ""
           \/ path = "tlsUncaptured" /\ server.strict

\* When a login is taken both sides hold one key and the server one that knows
\* the password, and, for CredSSP, the credentials it reads are the person's;
\* the client was given the challenge and the time the server sent.
BothSidesAgree ==
    /\ reader.key # None => reader.key = client.key /\ server.knows
    /\ client.challenge # None /\ server.info # None =>
          /\ client.challenge.targetInfo = server.info
          /\ client.challenge.timestamp = AvValue(server.info, "TIMESTAMP")
    /\ step = "ok" /\ Delegated =>
          reader.person = <<Utf16(person.domain), Utf16(person.user), Utf16(person.password)>>

\* A login with a MIC is taken only when each side received what the other
\* sent (create_authenticate_message_full; messages.rs: the MIC ensures that the
\* handshake has not been tampered with).
TakenIsUnaltered == reader.key # None /\ path = "http" => altered = 0

=============================================================================
