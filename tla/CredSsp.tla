-------------------------------- MODULE CredSsp --------------------------------
(***************************************************************************)
(* One request over CredSSP (src/auth/credssp.rs, CredSspAuth): on one        *)
(* connection, the rounds of the inner TLS handshake, then three TSRequests   *)
(* (negotiate, authenticate, credentials), each a POST that carries the SOAP  *)
(* body and reads one answer.  Inner TLS, DER and SPNEGO are abstracted to    *)
(* what the client looks for in them; the sealed fields are messages of       *)
(* NtlmSession.  The server, external, is known by how it answers.            *)
(***************************************************************************)
EXTENDS NtlmSession

CONSTANTS MaxTlsRounds,  \* 10: rounds of the inner TLS handshake
          Flights,       \* answers the server's TLS may need, 0 for no end of them
          MaxFaults,     \* bound: answers that are not what the protocol asks for
          MaxBreaks,     \* bound: connections that break
          None

ASSUME CredSspAssumption ==
    /\ MaxTlsRounds \in Nat /\ Flights \subseteq Nat
    /\ MaxFaults \in Nat /\ MaxBreaks \in Nat

VARIABLES step, round,
          starved,     \* the inner TLS waits for bytes and has none to send
          session,     \* the client's NtlmSession
          wire,        \* the request or the response under way
          junk,        \* bytes of an earlier answer not yet read
          result,
          server,      \* what the server is like
          flight,      \* server: TLS answers sent
          context,     \* server: its NtlmSession
          handed,      \* server: it has the credentials
          executed,    \* server: times the SOAP body was run
          budget,
          status,      \* history: of the last answer
          unframed     \* history: an answer had no Content-Length

serverVars == <<server, flight, context, handed, executed>>
vars == <<step, round, starved, session, wire, junk, result, serverVars,
          budget, status, unframed>>

TlsKey   == "tls"      \* SubjectPublicKey of the inner certificate
Session  == "exported" \* the exported session key Type 3 carries
HashLen  == 32
CredsLen == 64

ClientHash(key) == <<"client-to-server", key>>
ServerHash(key) == <<"server-to-client", key>>

\* Nothing is under way; a TSRequest without pubKeyAuth.
Silence == [dir |-> "none"]
NoProof == [version |-> 0]

\* modern: speaks version 5 or 6; strict: compares the client's hash; key: the
\* public key it takes for that of the inner channel; good: knows the user.
Servers == [modern : BOOLEAN, strict : BOOLEAN, key : {TlsKey, "other"}, good : BOOLEAN,
            flights : Flights]

Init ==
    /\ step = "connect" /\ round = 0 /\ starved = FALSE /\ session = None
    /\ wire = Silence /\ junk = FALSE /\ result = "none"
    /\ server \in Servers /\ flight = 0 /\ context = None /\ handed = FALSE /\ executed = 0
    /\ budget = [faults |-> MaxFaults, breaks |-> MaxBreaks]
    /\ status = "none" /\ unframed = FALSE

-----------------------------------------------------------------------------
(* The connection.                                                           *)

Return(r) == step' = "returned" /\ result' = r /\ wire' = Silence

Request(msg) == wire' = [dir |-> "request", msg |-> msg]

Asked(at) == step = at /\ wire.dir = "request"

Answered(at) == step = at /\ wire.dir = "response"

\* A token: an answer of the inner TLS or a TSRequest.
Token(kind) == [kind |-> kind, error |-> FALSE, nego |-> "none", proof |-> NoProof]

\* An answer without Content-Length reads as one without a body; what of the
\* body came later than the head is still to be read.
Answer(s, token) ==
    \E chunked \in BOOLEAN :
        /\ wire' = [dir |-> "response", status |-> s, token |-> token, chunked |-> chunked]
        /\ status' = s /\ unframed' = (unframed \/ chunked)

ClientUnchanged == UNCHANGED <<step, round, starved, session, junk, result>>

\* The stream's position after an answer was read.
ReadOn == junk' \in IF wire.chunked THEN BOOLEAN ELSE {FALSE}

Connect ==
    /\ step = "connect"
    /\ (step' = "tls" /\ UNCHANGED <<result, wire>>) \/ Return("auth")
    /\ UNCHANGED <<round, starved, session, junk, serverVars, budget, status, unframed>>

\* Any error of the socket is an AuthFailed, before or after the server ran.
Breaks ==
    /\ wire # Silence /\ budget.breaks > 0
    /\ budget' = [budget EXCEPT !.breaks = @ - 1]
    /\ Return("auth")
    /\ UNCHANGED <<round, starved, session, junk, serverVars, status, unframed>>

\* post() takes what is left of an earlier answer for the head of this one;
\* the handshake wants a 401 with a token.
NoToken == junk \/ wire.status # "401" \/ wire.token.kind = "none"

Refused ==
    /\ step \in {"tls", "negotiate", "authenticate"} /\ Answered(step) /\ NoToken
    /\ Return("auth")
    /\ UNCHANGED <<round, starved, session, junk, serverVars, budget, status, unframed>>

-----------------------------------------------------------------------------
(* The inner TLS.                                                            *)

\* Mutant of CountRound: the loop has no limit.
RoundUncounted == UNCHANGED round

CountRound == round' = round + 1

RoundsOver == round >= MaxTlsRounds

\* Starved, the loop comes round without a request until its rounds are over.
TlsRound ==
    /\ step = "tls" /\ wire = Silence
    /\ IF starved \/ RoundsOver
       THEN Return("auth") /\ UNCHANGED round
       ELSE CountRound /\ Request("tls") /\ UNCHANGED <<step, result>>
    /\ UNCHANGED <<starved, session, junk, serverVars, budget, status, unframed>>

ServerTls ==
    /\ Asked("tls")
    /\ flight' = IF server.flights = 0 THEN 0 ELSE flight + 1
    /\ Answer("401", Token(IF flight' = server.flights /\ server.flights # 0
                           THEN "last" ELSE "more"))
    /\ UNCHANGED <<server, context, handed, executed, budget>> /\ ClientUnchanged

TlsReceived ==
    /\ Answered("tls") /\ ~NoToken /\ ReadOn
    /\ \/ wire.token.kind = "garbage" /\ Return("auth") /\ UNCHANGED starved
       \/ /\ wire.token.kind \in {"part", "more"}
          /\ starved' = (wire.token.kind = "part")
          /\ wire' = Silence /\ UNCHANGED <<step, result>>
       \/ /\ wire.token.kind = "last"
          /\ wire' = Silence /\ step' = "negotiate" /\ UNCHANGED <<result, starved>>
    /\ UNCHANGED <<round, session, serverVars, budget, status, unframed>>

-----------------------------------------------------------------------------
(* The TSRequests.                                                           *)

Negotiate ==
    /\ step = "negotiate" /\ wire = Silence
    /\ Request("type1")
    /\ UNCHANGED <<step, round, starved, session, junk, result, serverVars,
                   budget, status, unframed>>

ServerChallenges ==
    /\ Asked("negotiate")
    /\ Answer("401", [Token("ts") EXCEPT !.nego = "type2"])
    /\ UNCHANGED <<serverVars, budget>> /\ ClientUnchanged

\* The checks in the order of the code, and the error each gives.
NegotiateReceived ==
    /\ Answered("negotiate") /\ ~NoToken /\ ReadOn
    /\ LET t == wire.token
       IN \/ t.kind = "garbage" /\ (Return("auth") \/ Return("credssp"))
          \/ t.kind = "ts" /\ t.error /\ Return("credssp")
          \/ t.kind = "ts" /\ ~t.error /\ t.nego = "none" /\ Return("auth")
          \/ t.kind = "ts" /\ ~t.error /\ t.nego = "bad" /\ (Return("credssp") \/ Return("ntlm"))
          \/ /\ t.kind = "ts" /\ ~t.error /\ t.nego = "type2"
             /\ wire' = Silence /\ step' = "authenticate" /\ UNCHANGED result
    /\ UNCHANGED <<round, starved, session, serverVars, budget, status, unframed>>

\* Mutant of Authentication: pubKeyAuth is sealed before the MIC is signed.
SealedFirst(s) ==
    LET sealed == AfterSeal(s, HashLen)
    IN [mic |-> Sign(sealed, "mechTypes"), pubKeyAuth |-> Seal(s, ClientHash(TlsKey), HashLen),
        session |-> AfterSign(sealed)]

\* Type 3 with mechListMIC, then pubKeyAuth, over a session derived from it.
Authentication(s) ==
    LET signed == AfterSign(s)
    IN [mic |-> Sign(s, "mechTypes"), pubKeyAuth |-> Seal(signed, ClientHash(TlsKey), HashLen),
        session |-> AfterSeal(signed, HashLen)]

Authenticate ==
    /\ step = "authenticate" /\ wire = Silence
    /\ LET a == Authentication(FromAuth(Session))
       IN Request(a) /\ session' = a.session
    /\ UNCHANGED <<step, round, starved, junk, result, serverVars, budget, status, unframed>>

\* A server that finds nothing wrong seals its proof; one of an older version,
\* which knows no hashes, seals the key as it always did.
ServerAuthenticates ==
    /\ Asked("authenticate")
    /\ LET m        == wire.msg
           signed   == Mirror(FromAuth(Session))
           hashed   == AfterUnseal(signed, m.mic)
           opened   == AfterUnseal(hashed, m.pubKeyAuth)
           accepted == /\ server.good
                       /\ Opens(signed, m.mic) /\ Opens(hashed, m.pubKeyAuth)
                       /\ server.strict => /\ server.modern
                                           /\ m.pubKeyAuth.body = ClientHash(server.key)
           proof    == IF server.modern THEN ServerHash(server.key) ELSE <<"key", server.key>>
       IN IF accepted
          THEN /\ Answer("401", [Token("ts") EXCEPT !.proof = Seal(opened, proof, HashLen)])
               /\ context' = AfterSeal(opened, HashLen)
          ELSE /\ Answer("401", [Token("ts") EXCEPT !.error = TRUE]) \/ Answer("401", Token("none"))
               /\ UNCHANGED context
    /\ UNCHANGED <<server, flight, handed, executed, budget>> /\ ClientUnchanged

\* Mutant of Proves: the unsealed hash is not compared.
ProvesByOpening(m) == Opens(session, m)

Proves(m) == Opens(session, m) /\ m.body = ServerHash(TlsKey)

ProofReceived ==
    /\ Answered("authenticate") /\ ~NoToken /\ ReadOn
    /\ LET t == wire.token
           m == t.proof
       IN \/ /\ t.kind = "garbage" /\ (Return("auth") \/ Return("credssp"))
             /\ UNCHANGED session
          \/ t.kind = "ts" /\ t.error /\ Return("credssp") /\ UNCHANGED session
          \/ t.kind = "ts" /\ ~t.error /\ m = NoProof /\ Return("auth") /\ UNCHANGED session
          \/ /\ t.kind = "ts" /\ ~t.error /\ m # NoProof
             /\ session' = AfterUnseal(session, m)
             /\ \/ Proves(m) /\ wire' = Silence /\ step' = "credentials" /\ UNCHANGED result
                \/ ~Proves(m) /\ Opens(session, m) /\ Return("credssp")
                \/ ~Proves(m) /\ ~Opens(session, m) /\ Return("ntlm")
    /\ UNCHANGED <<round, starved, serverVars, budget, status, unframed>>

Delegate ==
    /\ step = "credentials" /\ wire = Silence
    /\ Request(Seal(session, "credentials", CredsLen)) /\ session' = AfterSeal(session, CredsLen)
    /\ UNCHANGED <<step, round, starved, junk, result, serverVars, budget, status, unframed>>

\* The server opens the credentials, runs the SOAP body and answers with its
\* result or with its SOAP fault.
ServerRuns ==
    /\ Asked("credentials")
    /\ IF Opens(context, wire.msg)
       THEN /\ \E s \in {"200", "500"} : Answer(s, Token("none"))
            /\ handed' = TRUE /\ executed' = executed + 1
            /\ context' = AfterUnseal(context, wire.msg)
       ELSE Answer("401", Token("none")) /\ UNCHANGED <<context, handed, executed>>
    /\ UNCHANGED <<server, flight, budget>> /\ ClientUnchanged

Succeeds(s) == s = "200"

ReplyReceived ==
    /\ Answered("credentials") /\ ReadOn
    /\ IF junk \/ ~Succeeds(wire.status) THEN Return("auth") ELSE Return("ok")
    /\ UNCHANGED <<round, starved, session, serverVars, budget, status, unframed>>

\* Instead of what the protocol asks for: another status, no token, one that
\* does not decode or lacks the field, a TLS flight in more than one answer.
ServerFaults ==
    /\ wire.dir = "request" /\ budget.faults > 0
    /\ budget' = [budget EXCEPT !.faults = @ - 1]
    /\ \/ Answer("503", Token("none")) \/ Answer("401", Token("none"))
       \/ step # "credentials" /\ Answer("401", Token("garbage"))
       \/ step = "tls" /\ Answer("401", Token("part"))
       \/ step \in {"negotiate", "authenticate"} /\ Answer("401", Token("ts"))
       \/ step = "negotiate" /\ (\/ Answer("401", [Token("ts") EXCEPT !.nego = "bad"])
                                 \/ Answer("401", [Token("ts") EXCEPT !.error = TRUE]))
    /\ UNCHANGED serverVars /\ ClientUnchanged

ClientStep ==
    \/ Connect \/ Refused \/ TlsRound \/ TlsReceived \/ Negotiate \/ NegotiateReceived
    \/ Authenticate \/ ProofReceived \/ Delegate \/ ReplyReceived

ServerStep == ServerTls \/ ServerChallenges \/ ServerAuthenticates \/ ServerRuns

Next == ClientStep \/ ServerStep \/ ServerFaults \/ Breaks

Spec == Init /\ [][Next]_vars

\* The request is polled.  Nothing is assumed of the server.
FairSpec == Spec /\ WF_vars(ClientStep)

-----------------------------------------------------------------------------
Undisturbed == budget = [faults |-> MaxFaults, breaks |-> MaxBreaks] /\ ~unframed

\* The credentials leave the client only for a server that proved, by the hash
\* of version 5 and later, that the inner channel ends in it.
CredentialsNeedProof == handed => server.modern /\ server.key = TlsKey /\ server.good

\* Both ends of the session count the MIC, pubKeyAuth, the server's proof and
\* the credentials alike: an exchange in which nothing goes wrong, with a
\* server that knows the user, runs the body.  Ok is returned only when the
\* server ran it and answered so, and always then, as long as the connection
\* held and every answer had its Content-Length.  (A SOAP fault is the
\* exception: its status makes it an AuthFailed.)
GoodLoginSucceeds ==
    /\ (/\ step = "returned" /\ Undisturbed /\ round > 0
        /\ server.modern /\ server.good /\ server.key = TlsKey
        /\ server.flights \in 1..MaxTlsRounds)
           => executed = 1
    /\ result = "ok" => executed = 1 /\ status = "200"
    /\ (step = "returned" /\ Undisturbed /\ executed = 1 /\ status = "200") => result = "ok"

\* The request returns, however long the server's TLS goes on, unless the
\* server leaves a POST unanswered: this transport has no timeout.
Returns == <>(step = "returned") \/ <>[](wire.dir = "request")

=============================================================================
