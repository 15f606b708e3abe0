---------------------------- MODULE CredSspProofs ----------------------------
(***************************************************************************)
(* That CredSSP credentials go only to a server that proved to be the end of *)
(* the inner channel, for any server, any number of TLS rounds, faults and   *)
(* breaks, and any modulus of the sequence numbers; and that a login in which *)
(* nothing goes wrong succeeds.                                              *)
(***************************************************************************)
EXTENDS CredSsp, Sequences, TLAPS

\* What the client wants to know of the server before it delegates.
Proven == server.modern /\ server.key = TlsKey /\ server.good

\* An answer whose proof is the expected hash comes from such a server.
ProofIsGenuine ==
    (/\ wire.dir = "response" /\ wire.token.proof # NoProof
     /\ wire.token.proof.body = ServerHash(TlsKey)) => Proven

\* The inductive invariant: the last round is reached, and the credentials are
\* handed over, only with a proven server.
IInv ==
    /\ server \in Servers
    /\ ProofIsGenuine
    /\ step = "credentials" => Proven
    /\ handed => Proven

\* An answer that carries no proof, or a request, keeps ProofIsGenuine.
LEMMA NothingProven ==
    ASSUME \/ wire' = Silence
           \/ \E msg : Request(msg)
           \/ \E s, t : t.proof = NoProof /\ Answer(s, t)
    PROVE  ProofIsGenuine'
  BY DEF ProofIsGenuine, Silence, Request, Answer

\* What a server without a proof to show puts into its answers.
LEMMA TokensWithoutProof ==
    /\ \A kind : Token(kind).proof = NoProof
    /\ \A n : [Token("ts") EXCEPT !.nego = n].proof = NoProof
    /\ [Token("ts") EXCEPT !.error = TRUE].proof = NoProof
  BY DEF Token

LEMMA InitInvariant == Init => IInv
  <1> SUFFICES ASSUME Init PROVE IInv
    OBVIOUS
  <1> QED
    BY DEF Init, IInv, ProofIsGenuine, Silence

\* The steps of the client.
LEMMA ClientInvariant == IInv /\ (ClientStep \/ Breaks) => IInv'
  <1> SUFFICES ASSUME IInv, ClientStep \/ Breaks PROVE IInv'
    OBVIOUS
  <1> USE DEF IInv, serverVars
  <1>1. server' = server /\ handed' = handed /\ (Proven' <=> Proven)
    BY DEF ClientStep, Breaks, Connect, Refused, TlsRound, TlsReceived, Negotiate,
           NegotiateReceived, Authenticate, ProofReceived, Delegate, ReplyReceived, Proven
  <1>2. CASE Connect
    BY <1>1, <1>2, NothingProven DEF Connect, Return, ProofIsGenuine
  <1>3. CASE Refused \/ Breaks \/ ReplyReceived
    BY <1>1, <1>3, NothingProven DEF Refused, Breaks, ReplyReceived, Return
  <1>4. CASE TlsRound
    BY <1>1, <1>4, NothingProven DEF TlsRound, Return
  <1>5. CASE TlsReceived
    BY <1>1, <1>5, NothingProven DEF TlsReceived, Return, Answered
  <1>6. CASE Negotiate \/ Authenticate \/ Delegate
    BY <1>1, <1>6, NothingProven DEF Negotiate, Authenticate, Delegate
  <1>7. CASE NegotiateReceived
    BY <1>1, <1>7, NothingProven DEF NegotiateReceived, Return, Answered
  <1>8. CASE ProofReceived
    <2>1. wire' = Silence
      BY <1>8 DEF ProofReceived, Return
    <2>2. step' = "credentials" => Proven
      BY <1>8 DEF ProofReceived, Return, Answered, NoToken, Proves, ProofIsGenuine
    <2> QED
      BY <1>1, <2>1, <2>2, NothingProven
  <1> QED
    BY <1>2, <1>3, <1>4, <1>5, <1>6, <1>7, <1>8 DEF ClientStep

\* The steps of the server.
LEMMA ServerInvariant == IInv /\ (ServerStep \/ ServerFaults) => IInv'
  <1> SUFFICES ASSUME IInv, ServerStep \/ ServerFaults PROVE IInv'
    OBVIOUS
  <1> USE DEF IInv, serverVars, ClientUnchanged
  <1>1. server' = server /\ step' = step /\ (Proven' <=> Proven)
    BY DEF ServerStep, ServerTls, ServerChallenges, ServerAuthenticates, ServerRuns,
           ServerFaults, Proven
  <1>2. CASE ServerTls
    BY <1>1, <1>2, NothingProven, TokensWithoutProof DEF ServerTls
  <1>3. CASE ServerChallenges
    BY <1>1, <1>3, NothingProven, TokensWithoutProof DEF ServerChallenges
  <1>4. CASE ServerAuthenticates
    <2>1. handed' = handed
      BY <1>4 DEF ServerAuthenticates
    <2>2. ProofIsGenuine'
      <3>1. CASE \E s, m, opened :
                    /\ server.good
                    /\ Answer(s, [Token("ts") EXCEPT !.proof =
                           Seal(opened, IF server.modern THEN ServerHash(server.key)
                                        ELSE <<"key", server.key>>, HashLen)])
        BY <1>1, <3>1 DEF Answer, Token, Seal, ProofIsGenuine, Proven, ServerHash, Servers
      <3>2. CASE \E s : Answer(s, [Token("ts") EXCEPT !.error = TRUE]) \/ Answer(s, Token("none"))
        BY <3>2, NothingProven, TokensWithoutProof
      <3> QED
        BY <1>4, <3>1, <3>2 DEF ServerAuthenticates
    <2> QED
      BY <1>1, <2>1, <2>2
  <1>5. CASE ServerRuns
    BY <1>1, <1>5, NothingProven, TokensWithoutProof DEF ServerRuns, Asked
  <1>6. CASE ServerFaults
    BY <1>1, <1>6, NothingProven, TokensWithoutProof DEF ServerFaults
  <1> QED
    BY <1>2, <1>3, <1>4, <1>5, <1>6 DEF ServerStep

\* The credentials leave the client only for a server that proved, by the hash
\* of version 5 and later, that the inner channel ends in it.
THEOREM CredentialsNeedProofAlways == Spec => []CredentialsNeedProof
  <1>1. IInv /\ [Next]_vars => IInv'
    <2> SUFFICES ASSUME IInv, [Next]_vars PROVE IInv'
      OBVIOUS
    <2>1. CASE UNCHANGED vars
      BY <2>1 DEF IInv, ProofIsGenuine, Proven, vars, serverVars
    <2> QED
      BY <2>1, ClientInvariant, ServerInvariant DEF Next
  <1>2. IInv => CredentialsNeedProof
    BY DEF IInv, Proven, CredentialsNeedProof
  <1> QED
    BY InitInvariant, <1>1, <1>2, PTL DEF Spec

-----------------------------------------------------------------------------
(* A login in which nothing goes wrong succeeds.  What the protocol does to the *)
(* session, end by end, and where the login stands.                            *)
\* The two ends of the session after each message of a login.
Started   == FromAuth(Session)
Asking    == AfterSeal(AfterSign(Started), HashLen)
Answering == AfterSeal(Mirror(Asking), HashLen)
Challenge == [Token("ts") EXCEPT !.nego = "type2"]
Proof     == [Token("ts") EXCEPT !.proof = Seal(Mirror(Asking), ServerHash(TlsKey), HashLen)]

\* The counters and flags, and the body being run at most once.
Plain ==
    /\ budget \in [faults : 0 .. MaxFaults, breaks : 0 .. MaxBreaks]
    /\ server \in Servers /\ round \in Nat /\ flight \in Nat
    /\ step = "connect" => wire = Silence /\ round = 0 /\ flight = 0 /\ starved = FALSE
    /\ step = "returned" => wire = Silence
    /\ step # "returned" => result # "ok"
    /\ step \in {"connect", "tls", "negotiate", "authenticate", "credentials", "returned"}

Run ==
    /\ executed = 0 \/ (executed = 1 /\ (step = "returned" \/ Answered("credentials")))
    /\ wire.dir = "response" =>
           /\ wire.status = status
           /\ status = "200" => executed = 1 /\ step = "credentials"
    /\ result = "ok" => executed = 1 /\ status = "200"

\* Without Content-Length missing, the stream is read to the end of each answer.
Framed == ~unframed => ~junk /\ (wire.dir = "response" => ~wire.chunked)

Honest == server.modern /\ server.good /\ server.key = TlsKey /\ server.flights \in 1 .. MaxTlsRounds

\* Where a login stands in which nothing went wrong.
InTls ==
    /\ starved = FALSE
    /\ \/ wire = Silence /\ flight = round /\ round < server.flights
       \/ wire.dir = "request" /\ round = flight + 1 /\ round <= server.flights
       \/ /\ wire.dir = "response" /\ wire.status = "401" /\ flight = round /\ round <= server.flights
          /\ wire.token = Token(IF flight = server.flights THEN "last" ELSE "more")
InNegotiate ==
    \/ wire = Silence \/ wire.dir = "request"
    \/ wire.dir = "response" /\ wire.status = "401" /\ wire.token = Challenge
InAuthenticate ==
    \/ wire = Silence
    \/ wire = [dir |-> "request", msg |-> Authentication(Started)] /\ session = Asking
    \/ /\ wire.dir = "response" /\ wire.status = "401" /\ wire.token = Proof
       /\ session = Asking /\ context = Answering
InCredentials ==
    \/ wire = Silence /\ session = Mirror(Answering) /\ context = Answering
    \/ /\ wire = [dir |-> "request", msg |-> Seal(Mirror(Answering), "credentials", CredsLen)]
       /\ context = Answering
    \/ wire.dir = "response" /\ executed = 1

OnTheWay ==
    /\ step = "tls" => InTls
    /\ step = "negotiate" => InNegotiate
    /\ step = "authenticate" => InAuthenticate
    /\ step = "credentials" => InCredentials
    /\ step = "returned" /\ round > 0 => executed = 1

\* What is promised as long as nothing went wrong.
Smooth ==
    Undisturbed =>
        /\ Honest => OnTheWay
        /\ step = "returned" /\ executed = 1 /\ status = "200" => result = "ok"

LoginInv == Plain /\ Run /\ Framed /\ Smooth

-----------------------------------------------------------------------------
(* The two ends of an NtlmSession: what one seals the other opens.           *)

\* A session as NtlmSession makes them.
Record(a, b, c, d, e, f) == [sealKey |-> a, clientSeq |-> b, clientPos |-> c,
                             openKey |-> d, serverSeq |-> e, serverPos |-> f]
IsRecord(s) == \E a, b, c, d, e, f : s = Record(a, b, c, d, e, f)

Sent(s, pos, seq)  == [s EXCEPT !.clientPos = pos, !.clientSeq = seq]
Taken(s, pos, seq) == [s EXCEPT !.serverPos = pos, !.serverSeq = seq]

LEMMA SendingMoves ==
    ASSUME NEW a, NEW b, NEW c, NEW d, NEW e, NEW f, NEW x, NEW y
    PROVE  Sent(Record(a, b, c, d, e, f), x, y) = Record(a, y, x, d, e, f)
<1>. DEFINE s == Record(a, b, c, d, e, f)
            t == [s EXCEPT !.clientPos = x]
<1>1. t = Record(a, b, x, d, e, f)
  BY SMT DEF Record
<1>2. [Record(a, b, x, d, e, f) EXCEPT !.clientSeq = y] = Record(a, y, x, d, e, f)
  BY SMT DEF Record
<1>3. [s EXCEPT !.clientPos = x, !.clientSeq = y] = [t EXCEPT !.clientSeq = y]
  OBVIOUS
<1>. QED  BY <1>1, <1>2, <1>3 DEF Sent

LEMMA ReceivingMoves ==
    ASSUME NEW a, NEW b, NEW c, NEW d, NEW e, NEW f, NEW x, NEW y
    PROVE  Taken(Record(a, b, c, d, e, f), x, y) = Record(a, b, c, d, y, x)
<1>. DEFINE s == Record(a, b, c, d, e, f)
            t == [s EXCEPT !.serverPos = x]
<1>1. t = Record(a, b, c, d, e, x)
  BY SMT DEF Record
<1>2. [Record(a, b, c, d, e, x) EXCEPT !.serverSeq = y] = Record(a, b, c, d, y, x)
  BY SMT DEF Record
<1>3. [s EXCEPT !.serverPos = x, !.serverSeq = y] = [t EXCEPT !.serverSeq = y]
  OBVIOUS
<1>. QED  BY <1>1, <1>2, <1>3 DEF Taken

LEMMA RecordFields ==
    ASSUME NEW a, NEW b, NEW c, NEW d, NEW e, NEW f
    PROVE  LET s == Record(a, b, c, d, e, f)
           IN /\ s.sealKey = a /\ s.clientSeq = b /\ s.clientPos = c
              /\ s.openKey = d /\ s.serverSeq = e /\ s.serverPos = f
  BY Zenon DEF Record

LEMMA SealKeepsRecord ==
    ASSUME NEW s, IsRecord(s), NEW len
    PROVE  /\ AfterSeal(s, len) = Record(s.sealKey, (s.clientSeq + 1) % SeqModulus,
                                         s.clientPos + len + ChecksumLen,
                                         s.openKey, s.serverSeq, s.serverPos)
           /\ IsRecord(AfterSeal(s, len))
<1>1. PICK a, b, c, d, e, f : s = Record(a, b, c, d, e, f)
  BY DEF IsRecord
<1>2. /\ s.sealKey = a /\ s.clientSeq = b /\ s.clientPos = c
      /\ s.openKey = d /\ s.serverSeq = e /\ s.serverPos = f
  BY <1>1, RecordFields
<1>3. AfterSeal(s, len) = Record(a, (b + 1) % SeqModulus, c + len + ChecksumLen, d, e, f)
  <2>1. PICK x, y : x = s.clientPos + len + ChecksumLen /\ y = (s.clientSeq + 1) % SeqModulus
    OBVIOUS
  <2>2. AfterSeal(s, len) = Sent(s, x, y)
    BY <2>1, SMT DEF AfterSeal, Sent
  <2>3. Sent(Record(a, b, c, d, e, f), x, y) = Record(a, y, x, d, e, f)
    BY SendingMoves
  <2>. QED  BY <1>1, <1>2, <2>1, <2>2, <2>3, Zenon
<1>. QED  BY <1>2, <1>3 DEF IsRecord

LEMMA MirrorIsRecord ==
    ASSUME NEW s
    PROVE  /\ Mirror(s) = Record(s.openKey, s.serverSeq, s.serverPos,
                                 s.sealKey, s.clientSeq, s.clientPos)
           /\ IsRecord(Mirror(s))
  BY Zenon DEF Mirror, Record, IsRecord

LEMMA MirrorTwice ==
    ASSUME NEW s, IsRecord(s)
    PROVE  Mirror(Mirror(s)) = s
<1>1. PICK a, b, c, d, e, f : s = Record(a, b, c, d, e, f)
  BY DEF IsRecord
<1>2. Mirror(s) = Record(d, e, f, a, b, c)
  BY <1>1, MirrorIsRecord, RecordFields
<1>. QED  BY <1>1, <1>2, MirrorIsRecord, RecordFields

\* What one end seals, the other opens, and both then stand where they should.
LEMMA PeerOpens ==
    ASSUME NEW s, IsRecord(s), NEW body, NEW len
    PROVE  /\ Opens(Mirror(s), Seal(s, body, len))
           /\ AfterUnseal(Mirror(s), Seal(s, body, len)) = Mirror(AfterSeal(s, len))
<1>. DEFINE m == Seal(s, body, len)
            p == Mirror(s)
<1>1. /\ p.sealKey = s.openKey /\ p.clientSeq = s.serverSeq /\ p.clientPos = s.serverPos
      /\ p.openKey = s.sealKey /\ p.serverSeq = s.clientSeq /\ p.serverPos = s.clientPos
  BY Zenon DEF Mirror
<1>2. m.version = 1 /\ m.seq = s.clientSeq /\ m.len = len
      /\ m.sum = Checksum(s.sealKey, s.clientSeq, s.clientPos, TRUE)
  BY Zenon DEF Seal
<1>3. HeaderOk(p, m) /\ ChecksumOk(p, m)
  BY <1>1, <1>2 DEF HeaderOk, ChecksumOk
<1>. PICK x, y : x = s.clientPos + len + ChecksumLen /\ y = (s.clientSeq + 1) % SeqModulus
  OBVIOUS
<1>4. AfterUnseal(p, m) = Taken(p, x, y)
  BY <1>1, <1>2, <1>3, SMT DEF AfterUnseal, Taken
<1>5. p = Record(s.openKey, s.serverSeq, s.serverPos, s.sealKey, s.clientSeq, s.clientPos)
  BY MirrorIsRecord
<1>6. AfterUnseal(p, m) = Record(s.openKey, s.serverSeq, s.serverPos, s.sealKey,
                                 (s.clientSeq + 1) % SeqModulus, s.clientPos + len + ChecksumLen)
  <2>1. Taken(Record(s.openKey, s.serverSeq, s.serverPos, s.sealKey, s.clientSeq, s.clientPos), x, y)
            = Record(s.openKey, s.serverSeq, s.serverPos, s.sealKey, y, x)
    BY ReceivingMoves
  <2>. QED  BY <1>4, <1>5, <2>1, Zenon
<1>7. Mirror(AfterSeal(s, len)) =
          Record(s.openKey, s.serverSeq, s.serverPos, s.sealKey,
                 (s.clientSeq + 1) % SeqModulus, s.clientPos + len + ChecksumLen)
  BY SealKeepsRecord, MirrorIsRecord, RecordFields
<1>. QED  BY <1>3, <1>6, <1>7 DEF Opens

-----------------------------------------------------------------------------
(* A login in which nothing goes wrong.                                      *)

LEMMA Records ==
    IsRecord(Started) /\ IsRecord(AfterSign(Started)) /\ IsRecord(Asking) /\ IsRecord(Answering)
<1>1. IsRecord(Started)
  BY Zenon DEF Started, FromAuth, Record, IsRecord
<1>. QED  BY <1>1, SealKeepsRecord, MirrorIsRecord DEF AfterSign, Asking, Answering

\* The server finds the MIC and pubKeyAuth in order, and stands opposite.
LEMMA ServerFollows ==
    LET m      == Authentication(Started)
        signed == Mirror(Started)
        hashed == AfterUnseal(signed, m.mic)
    IN /\ Opens(signed, m.mic) /\ Opens(hashed, m.pubKeyAuth)
       /\ AfterUnseal(hashed, m.pubKeyAuth) = Mirror(Asking)
       /\ m.pubKeyAuth.body = ClientHash(TlsKey) /\ m.session = Asking
<1>. DEFINE m      == Authentication(Started)
            signed == Mirror(Started)
            hashed == AfterUnseal(signed, m.mic)
<1>1. /\ m.mic = Seal(Started, "mechTypes", 0) /\ m.session = Asking
      /\ m.pubKeyAuth = Seal(AfterSign(Started), ClientHash(TlsKey), HashLen)
  BY Zenon DEF Authentication, Sign, Asking
<1>2. Opens(signed, m.mic) /\ hashed = Mirror(AfterSign(Started))
  BY <1>1, Records, PeerOpens DEF AfterSign
<1>. HIDE DEF m, hashed
<1>3. Opens(hashed, m.pubKeyAuth) /\ AfterUnseal(hashed, m.pubKeyAuth) = Mirror(Asking)
  BY <1>1, <1>2, Records, PeerOpens DEF Asking
<1>4. m.pubKeyAuth.body = ClientHash(TlsKey)
  <2>1. Seal(AfterSign(Started), ClientHash(TlsKey), HashLen).body = ClientHash(TlsKey)
    BY Zenon DEF Seal
  <2>. QED  BY <1>1, <2>1
<1>. QED  BY <1>1, <1>2, <1>3, <1>4 DEF m, hashed

\* The client finds the server's proof in order.
LEMMA ClientFollows ==
    ASSUME NEW body
    PROVE  /\ Opens(Asking, Seal(Mirror(Asking), body, HashLen))
           /\ AfterUnseal(Asking, Seal(Mirror(Asking), body, HashLen)) = Mirror(Answering)
<1>1. IsRecord(Mirror(Asking)) /\ Mirror(Mirror(Asking)) = Asking
  BY Records, MirrorIsRecord, MirrorTwice
<1>. QED  BY <1>1, PeerOpens DEF Answering

\* The server opens the credentials.
LEMMA CredentialsOpen ==
    Opens(Answering, Seal(Mirror(Answering), "credentials", CredsLen))
<1>1. IsRecord(Mirror(Answering)) /\ Mirror(Mirror(Answering)) = Answering
  BY Records, MirrorIsRecord, MirrorTwice
<1>. QED  BY <1>1, PeerOpens

-----------------------------------------------------------------------------
(* The steps of a login.                                                     *)

LEMMA LoginInit == Init => LoginInv
<1>. SUFFICES ASSUME Init PROVE LoginInv
  OBVIOUS
<1>1. /\ step = "connect" /\ round = 0 /\ flight = 0 /\ starved = FALSE /\ wire = Silence
      /\ executed = 0 /\ result = "none" /\ junk = FALSE /\ server \in Servers /\ wire.dir = "none"
  BY DEF Init, Silence
<1>2. budget \in [faults : 0 .. MaxFaults, breaks : 0 .. MaxBreaks]
  BY CredSspAssumption, SMT DEF Init
<1>. QED  BY <1>1, <1>2 DEF LoginInv, Plain, Run, Framed, Smooth, OnTheWay, Answered

\* A fault or a break ends what is promised.
LEMMA SpentIsNoticed ==
    ASSUME Plain,
           \/ budget.faults > 0 /\ budget' = [budget EXCEPT !.faults = @ - 1]
           \/ budget.breaks > 0 /\ budget' = [budget EXCEPT !.breaks = @ - 1]
    PROVE  /\ budget' \in [faults : 0 .. MaxFaults, breaks : 0 .. MaxBreaks]
           /\ budget' # [faults |-> MaxFaults, breaks |-> MaxBreaks]
  BY CredSspAssumption, SMT DEF Plain

LEMMA StillUndisturbed ==
    ASSUME UNCHANGED <<budget, unframed>> PROVE Undisturbed' <=> Undisturbed
  BY Zenon DEF Undisturbed

\* What a client's step that reads an answer leaves unread.
LEMMA ReadToTheEnd ==
    ASSUME LoginInv, \/ UNCHANGED junk
                     \/ ReadOn /\ wire.dir = "response"
    PROVE  ~unframed => ~junk'
  BY DEF LoginInv, Framed, ReadOn

\* An attempt that ends, without Ok, before the body was run.
LEMMA EndsEarly ==
    ASSUME LoginInv, NEW r, r # "ok", Return(r), ~Answered("credentials"), step # "returned",
           UNCHANGED <<serverVars, status, unframed>>,
           budget' \in [faults : 0 .. MaxFaults, breaks : 0 .. MaxBreaks],
           round' \in Nat, ~unframed => ~junk',
           Undisturbed' => Undisturbed /\ (Honest => round' = 0)
    PROVE  LoginInv'
<1>1. executed = 0 /\ executed' = 0 /\ wire' = Silence /\ wire'.dir = "none"
      /\ step' = "returned" /\ result' = r /\ status' = status /\ unframed' = unframed
  BY DEF LoginInv, Run, Return, serverVars, Silence
<1>2. Plain'
  BY <1>1 DEF LoginInv, Plain, serverVars
<1>3. Run'
  BY <1>1 DEF Run
<1>4. Framed'
  BY <1>1 DEF Framed
<1>5. Smooth'
  <2>1. Honest' => Honest
    BY DEF Honest, serverVars
  <2>2. Undisturbed' /\ Honest' => round' = 0
    BY <2>1
  <2>. QED  BY <1>1, <2>2 DEF Smooth, OnTheWay
<1>. QED  BY <1>2, <1>3, <1>4, <1>5 DEF LoginInv

\* A step that leaves the login under way, and the body not run.
LEMMA GoesOn ==
    ASSUME LoginInv, ~Answered("credentials"), step # "returned",
           step' \in {"tls", "negotiate", "authenticate", "credentials"},
           UNCHANGED <<server, handed, executed, status, unframed, budget, result>>,
           wire' = Silence \/ wire'.dir = "request",
           round' \in Nat, flight' \in Nat,
           ~unframed => ~junk',
           Undisturbed /\ Honest => OnTheWay'
    PROVE  LoginInv'
<1>1. executed = 0 /\ executed' = 0 /\ result # "ok" /\ wire'.dir # "response" /\ step' # "returned"
  BY DEF LoginInv, Run, Plain, Silence
<1>2. Plain'
  BY <1>1 DEF LoginInv, Plain
<1>3. Run'
  BY <1>1 DEF Run
<1>4. Framed'
  BY <1>1 DEF Framed
<1>5. Smooth'
  <2>1. Undisturbed' => Undisturbed
    BY StillUndisturbed
  <2>2. Honest' => Honest
    BY DEF Honest
  <2>. QED  BY <1>1, <2>1, <2>2 DEF Smooth
<1>. QED  BY <1>2, <1>3, <1>4, <1>5 DEF LoginInv

\* An answer of the server.
LEMMA Answers ==
    ASSUME LoginInv, step \notin {"connect", "returned"}, NEW s, NEW token, Answer(s, token),
           ClientUnchanged, UNCHANGED server,
           budget' \in [faults : 0 .. MaxFaults, breaks : 0 .. MaxBreaks], flight' \in Nat,
           \/ s # "200" /\ executed' = executed /\ executed = 0
           \/ step = "credentials" /\ executed' = 1,
           Undisturbed' => budget' = budget /\
               (Undisturbed /\ Honest /\ wire'.dir = "response" /\ wire'.status = s /\ wire'.token = token
                    => OnTheWay')
    PROVE  LoginInv'
<1>1. PICK chunked \in BOOLEAN :
          /\ wire' = [dir |-> "response", status |-> s, token |-> token, chunked |-> chunked]
          /\ status' = s /\ unframed' = (unframed \/ chunked)
  BY DEF Answer
<1>2. wire'.dir = "response" /\ wire'.status = s /\ wire'.token = token /\ wire'.chunked = chunked
  BY <1>1
<1>3. UNCHANGED <<step, round, starved, session, junk, result>> /\ result # "ok"
  BY DEF ClientUnchanged, LoginInv, Plain
<1>4. wire' # Silence
  BY <1>2 DEF Silence
<1>5. Plain'
  BY <1>3, <1>4 DEF LoginInv, Plain
<1>6. Run'
  BY <1>1, <1>2, <1>3 DEF LoginInv, Run, Answered
<1>7. ~unframed' => ~unframed /\ ~chunked
  BY <1>1, Zenon
<1>8. Framed'
  BY <1>2, <1>3, <1>7 DEF LoginInv, Framed
<1>9. ASSUME Undisturbed' PROVE Undisturbed
  BY <1>1, <1>9, Zenon DEF Undisturbed
<1>10. Smooth'
  <2>1. Honest' => Honest
    BY DEF Honest
  <2>. QED  BY <1>2, <1>3, <1>9, <2>1 DEF Smooth
<1>. QED  BY <1>5, <1>6, <1>8, <1>10 DEF LoginInv

LEMMA ConnectLogin == ASSUME LoginInv, Connect PROVE LoginInv'
<1>1. /\ step = "connect" /\ UNCHANGED <<round, starved, session, junk, serverVars, budget, status, unframed>>
      /\ wire = Silence /\ round = 0 /\ flight = 0 /\ starved = FALSE
      /\ budget \in [faults : 0 .. MaxFaults, breaks : 0 .. MaxBreaks]
  BY DEF Connect, LoginInv, Plain
<1>2. ~Answered("credentials") /\ (Undisturbed' <=> Undisturbed)
  BY <1>1, StillUndisturbed DEF Answered
<1>3. ~unframed => ~junk'
  BY <1>1, ReadToTheEnd
<1>4. CASE Return("auth")
  BY <1>1, <1>2, <1>3, <1>4, EndsEarly
<1>5. CASE step' = "tls" /\ UNCHANGED <<result, wire>>
  <2>1. Honest => OnTheWay'
    <3>1. ASSUME Honest PROVE InTls'
      <4>1. 0 < server.flights
        BY <3>1, SMT DEF Honest
      <4>. QED  BY <1>1, <1>5, <4>1 DEF InTls, serverVars
    <3>. QED  BY <1>5, <3>1 DEF OnTheWay
  <2>. QED  BY <1>1, <1>2, <1>3, <1>5, <2>1, GoesOn DEF serverVars
<1>. QED  BY <1>4, <1>5 DEF Connect

LEMMA TlsRoundLogin == ASSUME LoginInv, TlsRound PROVE LoginInv'
<1>1. /\ step = "tls" /\ wire = Silence
      /\ UNCHANGED <<starved, session, junk, serverVars, budget, status, unframed>>
      /\ round \in Nat /\ flight \in Nat
      /\ budget \in [faults : 0 .. MaxFaults, breaks : 0 .. MaxBreaks]
  BY DEF TlsRound, LoginInv, Plain
<1>2. ~Answered("credentials") /\ (Undisturbed' <=> Undisturbed)
  BY <1>1, StillUndisturbed DEF Answered
<1>3. ~unframed => ~junk'
  BY <1>1, ReadToTheEnd
<1>4. ASSUME Undisturbed, Honest
      PROVE  starved = FALSE /\ flight = round /\ round < server.flights
  <2>1. InTls
    BY <1>1, <1>4 DEF LoginInv, Smooth, OnTheWay
  <2>. QED  BY <1>1, <2>1 DEF InTls, Silence
<1>5. CASE Return("auth") /\ UNCHANGED round /\ (starved \/ RoundsOver)
  <2>1. ~(Undisturbed /\ Honest)
    <3>1. SUFFICES ASSUME Undisturbed, Honest PROVE FALSE
      OBVIOUS
    <3>2. RoundsOver
      BY <1>4, <1>5, <3>1, Zenon
    <3>3. server.flights \in Nat /\ server.flights <= MaxTlsRounds
      BY <3>1, CredSspAssumption, SMT DEF Honest
    <3>. QED  BY <1>1, <1>4, <3>1, <3>2, <3>3, CredSspAssumption, SMT DEF RoundsOver
  <2>. QED  BY <1>1, <1>2, <1>3, <1>5, <2>1, EndsEarly
<1>6. CASE CountRound /\ Request("tls") /\ UNCHANGED <<step, result>>
  <2>1. wire'.dir = "request" /\ round' = round + 1 /\ round' \in Nat
    BY <1>1, <1>6 DEF CountRound, Request
  <2>2. Undisturbed /\ Honest => OnTheWay'
    <3>1. ASSUME Undisturbed, Honest PROVE InTls'
      <4>1. server.flights \in Nat
        BY <3>1, CredSspAssumption, SMT DEF Honest
      <4>2. round' = flight' + 1 /\ round' <= server'.flights /\ starved' = FALSE
        BY <1>1, <1>4, <2>1, <3>1, <4>1, SMT DEF serverVars
      <4>. QED  BY <2>1, <4>2 DEF InTls
    <3>. QED  BY <1>1, <1>6, <3>1 DEF OnTheWay
  <2>. QED  BY <1>1, <1>2, <1>3, <1>6, <2>1, <2>2, GoesOn DEF serverVars
<1>. QED  BY <1>5, <1>6, Zenon DEF TlsRound

LEMMA ServerTlsLogin == ASSUME LoginInv, ServerTls PROVE LoginInv'
<1>. DEFINE token == Token(IF flight' = server.flights /\ server.flights # 0 THEN "last" ELSE "more")
<1>1. /\ step = "tls" /\ wire.dir = "request" /\ Answer("401", token) /\ ClientUnchanged
      /\ UNCHANGED <<server, context, handed, executed, budget>>
      /\ flight' = IF server.flights = 0 THEN 0 ELSE flight + 1
      /\ budget \in [faults : 0 .. MaxFaults, breaks : 0 .. MaxBreaks]
  BY Zenon DEF ServerTls, Asked, LoginInv, Plain
<1>2. flight' \in Nat /\ executed = 0
  BY <1>1 DEF LoginInv, Plain, Run, Answered
<1>3. ASSUME Undisturbed, Honest, wire'.dir = "response", wire'.status = "401", wire'.token = token
      PROVE  OnTheWay'
  <2>1. InTls
    BY <1>1, <1>3 DEF LoginInv, Smooth, OnTheWay
  <2>2. starved = FALSE /\ round = flight + 1 /\ round <= server.flights /\ server.flights \in Nat
        /\ server.flights # 0
    <3>1. server.flights \in Nat /\ server.flights # 0
      BY <1>3, CredSspAssumption, SMT DEF Honest
    <3>. QED  BY <1>1, <2>1, <3>1 DEF InTls, Silence
  <2>3. flight' = round' /\ round' <= server'.flights /\ starved' = FALSE /\ step' = "tls"
    BY <1>1, <2>2 DEF ClientUnchanged
  <2>4. wire'.token = Token(IF flight' = server'.flights THEN "last" ELSE "more")
    BY <1>1, <1>3, <2>2
  <2>. QED  BY <1>3, <2>3, <2>4 DEF OnTheWay, InTls
<1>. HIDE DEF token
<1>. QED  BY <1>1, <1>2, <1>3, Answers

LEMMA TlsReceivedLogin == ASSUME LoginInv, TlsReceived PROVE LoginInv'
<1>1. /\ step = "tls" /\ wire.dir = "response" /\ ReadOn
      /\ UNCHANGED <<round, session, serverVars, budget, status, unframed>>
      /\ round \in Nat /\ flight \in Nat
      /\ budget \in [faults : 0 .. MaxFaults, breaks : 0 .. MaxBreaks]
  BY DEF TlsReceived, Answered, LoginInv, Plain
<1>2. ~Answered("credentials") /\ (Undisturbed' <=> Undisturbed)
  BY <1>1, StillUndisturbed DEF Answered
<1>3. ~unframed => ~junk'
  BY <1>1, ReadToTheEnd
<1>4. ASSUME Undisturbed, Honest
      PROVE  /\ starved = FALSE /\ flight = round /\ round <= server.flights
             /\ server.flights \in Nat
             /\ wire.token.kind = IF flight = server.flights THEN "last" ELSE "more"
  <2>1. InTls
    BY <1>1, <1>4 DEF LoginInv, Smooth, OnTheWay
  <2>2. \A k : Token(k).kind = k
    BY Zenon DEF Token
  <2>3. server.flights \in Nat
    BY <1>4, CredSspAssumption, SMT DEF Honest
  <2>. QED  BY <1>1, <2>1, <2>2, <2>3 DEF InTls, Silence
<1>5. CASE wire.token.kind = "garbage" /\ Return("auth") /\ UNCHANGED starved
  <2>1. ~(Undisturbed /\ Honest)
    BY <1>4, <1>5
  <2>. QED  BY <1>1, <1>2, <1>3, <1>5, <2>1, EndsEarly
<1>6. CASE /\ wire.token.kind \in {"part", "more"} /\ starved' = (wire.token.kind = "part")
           /\ wire' = Silence /\ UNCHANGED <<step, result>>
  <2>1. Undisturbed /\ Honest => OnTheWay'
    <3>1. ASSUME Undisturbed, Honest PROVE InTls'
      <4>1. starved' = FALSE /\ flight # server.flights
        BY <1>4, <1>6, <3>1
      <4>2. round' < server'.flights /\ flight' = round'
        BY <1>1, <1>4, <3>1, <4>1, SMT DEF serverVars
      <4>. QED  BY <1>6, <4>1, <4>2 DEF InTls
    <3>. QED  BY <1>1, <1>6, <3>1 DEF OnTheWay
  <2>. QED  BY <1>1, <1>2, <1>3, <1>6, <2>1, GoesOn DEF serverVars
<1>7. CASE /\ wire.token.kind = "last" /\ wire' = Silence /\ step' = "negotiate"
           /\ UNCHANGED <<result, starved>>
  <2>1. OnTheWay'
    BY <1>7 DEF OnTheWay, InNegotiate
  <2>. QED  BY <1>1, <1>2, <1>3, <1>7, <2>1, GoesOn DEF serverVars
<1>. QED  BY <1>5, <1>6, <1>7, Zenon DEF TlsReceived

\* NoToken never holds on the way, before the credentials.
LEMMA RefusedLogin == ASSUME LoginInv, Refused PROVE LoginInv'
<1>1. /\ step \in {"tls", "negotiate", "authenticate"} /\ wire.dir = "response" /\ NoToken
      /\ Return("auth")
      /\ UNCHANGED <<round, starved, session, junk, serverVars, budget, status, unframed>>
      /\ round \in Nat /\ budget \in [faults : 0 .. MaxFaults, breaks : 0 .. MaxBreaks]
  BY DEF Refused, Answered, LoginInv, Plain
<1>2. ~Answered("credentials") /\ (Undisturbed' <=> Undisturbed)
  BY <1>1, StillUndisturbed DEF Answered
<1>3. ~unframed => ~junk'
  BY <1>1, ReadToTheEnd
<1>4. ASSUME Undisturbed, Honest PROVE FALSE
  <2>1. ~junk
    BY <1>1, <1>3, <1>4 DEF Undisturbed, LoginInv, Framed
  <2>2. \A k : Token(k).kind = k
    BY Zenon DEF Token
  <2>3. Challenge.kind = "ts" /\ Proof.kind = "ts"
    BY Zenon DEF Token, Challenge, Proof
  <2>4. CASE step = "tls"
    BY <1>1, <1>4, <2>1, <2>2, <2>4 DEF LoginInv, Smooth, OnTheWay, InTls, Silence, NoToken
  <2>5. CASE step = "negotiate"
    BY <1>1, <1>4, <2>1, <2>3, <2>5 DEF LoginInv, Smooth, OnTheWay, InNegotiate, Silence, NoToken
  <2>6. CASE step = "authenticate"
    BY <1>1, <1>4, <2>1, <2>3, <2>6 DEF LoginInv, Smooth, OnTheWay, InAuthenticate, Silence, NoToken
  <2>. QED  BY <1>1, <2>4, <2>5, <2>6
<1>. QED  BY <1>1, <1>2, <1>3, <1>4, EndsEarly

LEMMA NegotiateLogin == ASSUME LoginInv, Negotiate PROVE LoginInv'
<1>1. /\ step = "negotiate" /\ wire = Silence /\ wire'.dir = "request"
      /\ UNCHANGED <<step, round, starved, session, junk, result, serverVars, budget, status, unframed>>
      /\ round \in Nat /\ flight \in Nat
  BY DEF Negotiate, Request, LoginInv, Plain
<1>2. ~Answered("credentials")
  BY <1>1 DEF Answered
<1>3. ~unframed => ~junk'
  BY <1>1, ReadToTheEnd
<1>4. OnTheWay'
  BY <1>1 DEF OnTheWay, InNegotiate
<1>. QED  BY <1>1, <1>2, <1>3, <1>4, GoesOn DEF serverVars

LEMMA ServerChallengesLogin == ASSUME LoginInv, ServerChallenges PROVE LoginInv'
<1>1. /\ step = "negotiate" /\ Answer("401", Challenge) /\ ClientUnchanged
      /\ UNCHANGED <<serverVars, budget>> /\ flight \in Nat /\ executed = 0
      /\ budget \in [faults : 0 .. MaxFaults, breaks : 0 .. MaxBreaks]
  BY DEF ServerChallenges, Challenge, Asked, LoginInv, Plain, Run, Answered
<1>2. ASSUME wire'.dir = "response", wire'.status = "401", wire'.token = Challenge
      PROVE  OnTheWay'
  <2>1. Challenge' = Challenge
    BY DEF Challenge, Token
  <2>. QED  BY <1>1, <1>2, <2>1 DEF OnTheWay, InNegotiate, ClientUnchanged
<1>. QED  BY <1>1, <1>2, Answers DEF serverVars

LEMMA NegotiateReceivedLogin == ASSUME LoginInv, NegotiateReceived PROVE LoginInv'
<1>1. /\ step = "negotiate" /\ wire.dir = "response" /\ ReadOn
      /\ UNCHANGED <<round, starved, session, serverVars, budget, status, unframed>>
      /\ round \in Nat /\ flight \in Nat
      /\ budget \in [faults : 0 .. MaxFaults, breaks : 0 .. MaxBreaks]
  BY DEF NegotiateReceived, Answered, LoginInv, Plain
<1>2. ~Answered("credentials") /\ (Undisturbed' <=> Undisturbed)
  BY <1>1, StillUndisturbed DEF Answered
<1>3. ~unframed => ~junk'
  BY <1>1, ReadToTheEnd
<1>4. ASSUME Undisturbed, Honest
      PROVE  wire.token.kind = "ts" /\ ~wire.token.error /\ wire.token.nego = "type2"
  <2>1. wire.token = Challenge
    BY <1>1, <1>4 DEF LoginInv, Smooth, OnTheWay, InNegotiate, Silence
  <2>2. Challenge.kind = "ts" /\ ~Challenge.error /\ Challenge.nego = "type2"
    BY Zenon DEF Challenge, Token
  <2>. QED  BY <2>1, <2>2, Zenon
<1>5. ASSUME NEW r \in {"auth", "credssp", "ntlm"}, Return(r), ~(Undisturbed /\ Honest)
      PROVE  LoginInv'
  BY <1>1, <1>2, <1>3, <1>5, EndsEarly
<1>6. CASE wire' = Silence /\ step' = "authenticate" /\ UNCHANGED result
  <2>1. OnTheWay'
    BY <1>6 DEF OnTheWay, InAuthenticate
  <2>. QED  BY <1>1, <1>2, <1>3, <1>6, <2>1, GoesOn DEF serverVars
<1>7. \/ wire' = Silence /\ step' = "authenticate" /\ UNCHANGED result
      \/ /\ \E r \in {"auth", "credssp", "ntlm"} : Return(r)
         /\ wire.token.kind # "ts" \/ wire.token.error \/ wire.token.nego # "type2"
  BY Zenon DEF NegotiateReceived
<1>. QED  BY <1>4, <1>5, <1>6, <1>7, Zenon

LEMMA AuthenticateLogin == ASSUME LoginInv, Authenticate PROVE LoginInv'
<1>1. /\ step = "authenticate" /\ Request(Authentication(Started)) /\ session' = Authentication(Started).session
      /\ UNCHANGED <<step, round, starved, junk, result, serverVars, budget, status, unframed>>
      /\ round \in Nat /\ flight \in Nat
  BY DEF Authenticate, Started, LoginInv, Plain
<1>2. ~Answered("credentials") /\ wire'.dir = "request"
  BY <1>1 DEF Answered, Request, LoginInv, Plain
<1>3. ~unframed => ~junk'
  BY <1>1, ReadToTheEnd
<1>4. wire' = [dir |-> "request", msg |-> Authentication(Started)] /\ session' = Asking
  BY <1>1, ServerFollows DEF Request
<1>5. OnTheWay'
  <2>1. Authentication(Started)' = Authentication(Started) /\ Asking' = Asking
    BY Zenon DEF Asking, Started
  <2>. QED  BY <1>1, <1>4, <2>1 DEF OnTheWay, InAuthenticate
<1>. QED  BY <1>1, <1>2, <1>3, <1>5, GoesOn DEF serverVars

\* A good server accepts a login in which nothing went wrong.
LEMMA ServerAuthenticatesLogin == ASSUME LoginInv, ServerAuthenticates PROVE LoginInv'
<1>. DEFINE m        == wire.msg
            signed   == Mirror(Started)
            hashed   == AfterUnseal(signed, m.mic)
            opened   == AfterUnseal(hashed, m.pubKeyAuth)
            accepted == /\ server.good
                        /\ Opens(signed, m.mic) /\ Opens(hashed, m.pubKeyAuth)
                        /\ server.strict => /\ server.modern
                                            /\ m.pubKeyAuth.body = ClientHash(server.key)
            proof    == IF server.modern THEN ServerHash(server.key) ELSE <<"key", server.key>>
            shown    == [Token("ts") EXCEPT !.proof = Seal(opened, proof, HashLen)]
<1>1. /\ step = "authenticate" /\ wire.dir = "request" /\ ClientUnchanged
      /\ UNCHANGED <<server, flight, handed, executed, budget>> /\ flight \in Nat
      /\ budget \in [faults : 0 .. MaxFaults, breaks : 0 .. MaxBreaks]
  BY DEF ServerAuthenticates, Asked, LoginInv, Plain
<1>2. executed = 0
  BY <1>1 DEF LoginInv, Run, Answered
<1>3. \/ accepted /\ Answer("401", shown) /\ context' = AfterSeal(opened, HashLen)
      \/ ~accepted /\ \E t : Answer("401", t)
  BY Zenon DEF ServerAuthenticates, Started
<1>4. ASSUME Undisturbed, Honest
      PROVE  accepted /\ opened = Mirror(Asking) /\ shown = Proof /\ session = Asking
  <2>1. wire = [dir |-> "request", msg |-> Authentication(Started)] /\ session = Asking
    BY <1>1, <1>4 DEF LoginInv, Smooth, OnTheWay, InAuthenticate, Silence
  <2>2. m = Authentication(Started)
    BY <2>1
  <2>3. server.good /\ server.modern /\ server.key = TlsKey
    BY <1>4 DEF Honest
  <2>4. /\ Opens(signed, m.mic) /\ Opens(hashed, m.pubKeyAuth) /\ opened = Mirror(Asking)
        /\ m.pubKeyAuth.body = ClientHash(TlsKey)
    BY <2>2, ServerFollows, Zenon
  <2>5. proof = ServerHash(TlsKey)
    BY <2>3, Zenon
  <2>. HIDE DEF m, hashed, opened, proof
  <2>6. shown = Proof
    BY <2>4, <2>5, Zenon DEF Proof
  <2>. QED  BY <2>1, <2>3, <2>4, <2>6, Zenon
<1>. HIDE DEF m, signed, hashed, opened, accepted, proof, shown
<1>5. CASE Answer("401", shown) /\ context' = AfterSeal(opened, HashLen)
  <2>1. PICK t : t = shown
    OBVIOUS
  <2>2. ASSUME Undisturbed, Honest, wire'.dir = "response", wire'.status = "401", wire'.token = t
        PROVE  OnTheWay'
    <3>1. t = Proof /\ session = Asking /\ context' = Answering
      BY <1>4, <1>5, <2>1, <2>2 DEF Answering
    <3>2. Proof' = Proof /\ Asking' = Asking /\ Answering' = Answering
      BY Zenon DEF Proof, Asking, Answering, Started
    <3>. QED  BY <1>1, <2>2, <3>1, <3>2 DEF OnTheWay, InAuthenticate, ClientUnchanged
  <2>3. Answer("401", t)
    BY <1>5, <2>1
  <2>. QED  BY <1>1, <1>2, <2>2, <2>3, Answers
<1>6. CASE ~accepted /\ \E t : Answer("401", t)
  <2>1. PICK t : Answer("401", t)
    BY <1>6
  <2>2. ~(Undisturbed /\ Honest)
    BY <1>4, <1>6
  <2>. QED  BY <1>1, <1>2, <2>1, <2>2, Answers
<1>. QED  BY <1>3, <1>5, <1>6

\* The client finds a good server's proof in order.
LEMMA ProofReceivedLogin == ASSUME LoginInv, ProofReceived PROVE LoginInv'
<1>1. /\ step = "authenticate" /\ wire.dir = "response" /\ ReadOn
      /\ UNCHANGED <<round, starved, serverVars, budget, status, unframed>>
      /\ round \in Nat /\ flight \in Nat
      /\ budget \in [faults : 0 .. MaxFaults, breaks : 0 .. MaxBreaks]
  BY DEF ProofReceived, Answered, LoginInv, Plain
<1>2. ~Answered("credentials") /\ (Undisturbed' <=> Undisturbed)
  BY <1>1, StillUndisturbed DEF Answered
<1>3. ~unframed => ~junk'
  BY <1>1, ReadToTheEnd
<1>4. ASSUME Undisturbed, Honest
      PROVE  /\ wire.token.kind = "ts" /\ ~wire.token.error /\ wire.token.proof # NoProof
             /\ Proves(wire.token.proof) /\ context = Answering
             /\ AfterUnseal(session, wire.token.proof) = Mirror(Answering)
  <2>1. wire.token = Proof /\ session = Asking /\ context = Answering
    BY <1>1, <1>4 DEF LoginInv, Smooth, OnTheWay, InAuthenticate, Silence
  <2>2. /\ Proof.kind = "ts" /\ ~Proof.error
        /\ Proof.proof = Seal(Mirror(Asking), ServerHash(TlsKey), HashLen)
    BY Zenon DEF Proof, Token
  <2>3. /\ Seal(Mirror(Asking), ServerHash(TlsKey), HashLen).version = 1
        /\ Seal(Mirror(Asking), ServerHash(TlsKey), HashLen).body = ServerHash(TlsKey)
    BY Zenon DEF Seal
  <2>4. NoProof.version = 0
    BY DEF NoProof
  <2>5. Proof.proof # NoProof
    BY <2>2, <2>3, <2>4
  <2>6. Proves(Proof.proof)
    BY <2>1, <2>2, <2>3, ClientFollows DEF Proves
  <2>. QED  BY <2>1, <2>2, <2>5, <2>6, ClientFollows
<1>5. ASSUME NEW r \in {"auth", "credssp", "ntlm"}, Return(r), ~(Undisturbed /\ Honest)
      PROVE  LoginInv'
  BY <1>1, <1>2, <1>3, <1>5, EndsEarly
<1>6. CASE /\ wire' = Silence /\ step' = "credentials" /\ UNCHANGED result
           /\ session' = AfterUnseal(session, wire.token.proof)
  <2>1. ASSUME Undisturbed, Honest PROVE OnTheWay'
    <3>1. session' = Mirror(Answering) /\ context' = Answering
      BY <1>1, <1>4, <1>6, <2>1 DEF serverVars
    <3>2. Mirror(Answering)' = Mirror(Answering) /\ Answering' = Answering
      BY Zenon DEF Asking, Answering, Started
    <3>. QED  BY <1>6, <3>1, <3>2 DEF OnTheWay, InCredentials
  <2>. QED  BY <1>1, <1>2, <1>3, <1>6, <2>1, GoesOn DEF serverVars
<1>7. \/ /\ wire' = Silence /\ step' = "credentials" /\ UNCHANGED result
         /\ session' = AfterUnseal(session, wire.token.proof)
      \/ /\ \E r \in {"auth", "credssp", "ntlm"} : Return(r)
         /\ \/ wire.token.kind # "ts" \/ wire.token.error \/ wire.token.proof = NoProof
            \/ ~Proves(wire.token.proof)
  BY Zenon DEF ProofReceived
<1>. QED  BY <1>4, <1>5, <1>6, <1>7, Zenon

LEMMA DelegateLogin == ASSUME LoginInv, Delegate PROVE LoginInv'
<1>1. /\ step = "credentials" /\ wire = Silence
      /\ wire' = [dir |-> "request", msg |-> Seal(session, "credentials", CredsLen)]
      /\ UNCHANGED <<step, round, starved, junk, result, serverVars, budget, status, unframed>>
      /\ round \in Nat /\ flight \in Nat
  BY DEF Delegate, Request, LoginInv, Plain
<1>2. ~Answered("credentials") /\ wire'.dir = "request"
  BY <1>1 DEF Answered, Silence
<1>3. ~unframed => ~junk'
  BY <1>1, ReadToTheEnd
<1>4. ASSUME Undisturbed, Honest PROVE OnTheWay'
  <2>1. session = Mirror(Answering) /\ context = Answering
    BY <1>1, <1>4 DEF LoginInv, Smooth, OnTheWay, InCredentials, Silence
  <2>2. Mirror(Answering)' = Mirror(Answering) /\ Answering' = Answering
    BY Zenon DEF Asking, Answering, Started
  <2>3. Seal(Mirror(Answering), "credentials", CredsLen)' = Seal(Mirror(Answering), "credentials", CredsLen)
    BY <2>2, Zenon
  <2>4. wire' = [dir |-> "request", msg |-> Seal(Mirror(Answering), "credentials", CredsLen)']
    BY <1>1, <2>1, <2>3, Zenon
  <2>. QED  BY <1>1, <2>1, <2>2, <2>4 DEF OnTheWay, InCredentials, serverVars
<1>. QED  BY <1>1, <1>2, <1>3, <1>4, GoesOn DEF serverVars

LEMMA ServerRunsLogin == ASSUME LoginInv, ServerRuns PROVE LoginInv'
<1>1. /\ step = "credentials" /\ wire.dir = "request" /\ ClientUnchanged
      /\ UNCHANGED <<server, flight, budget>> /\ flight \in Nat
      /\ budget \in [faults : 0 .. MaxFaults, breaks : 0 .. MaxBreaks]
  BY DEF ServerRuns, Asked, LoginInv, Plain
<1>2. executed = 0
  BY <1>1 DEF LoginInv, Run, Answered
<1>3. CASE Opens(context, wire.msg)
  <2>1. PICK s \in {"200", "500"} : Answer(s, Token("none"))
    BY <1>3, Zenon DEF ServerRuns
  <2>2. executed' = 1
    BY <1>2, <1>3 DEF ServerRuns
  <2>3. ASSUME wire'.dir = "response" PROVE OnTheWay'
    BY <1>1, <2>2, <2>3 DEF OnTheWay, InCredentials, ClientUnchanged
  <2>. QED  BY <1>1, <2>1, <2>2, <2>3, Answers
<1>4. CASE ~Opens(context, wire.msg)
  <2>1. Answer("401", Token("none")) /\ executed' = executed
    BY <1>4, Zenon DEF ServerRuns
  <2>2. ~(Undisturbed /\ Honest)
    <3>1. SUFFICES ASSUME Undisturbed, Honest PROVE FALSE
      OBVIOUS
    <3>2. wire.msg = Seal(Mirror(Answering), "credentials", CredsLen) /\ context = Answering
      BY <1>1, <3>1 DEF LoginInv, Smooth, OnTheWay, InCredentials, Silence
    <3>. QED  BY <1>4, <3>2, CredentialsOpen
  <2>. QED  BY <1>1, <1>2, <2>1, <2>2, Answers
<1>. QED  BY <1>3, <1>4

LEMMA ServerFaultsLogin == ASSUME LoginInv, ServerFaults PROVE LoginInv'
<1>1. /\ wire.dir = "request" /\ budget.faults > 0 /\ budget' = [budget EXCEPT !.faults = @ - 1]
      /\ UNCHANGED serverVars /\ ClientUnchanged /\ flight \in Nat
  BY DEF ServerFaults, LoginInv, Plain
<1>2. step \notin {"connect", "returned"} /\ executed = 0
  BY <1>1 DEF LoginInv, Plain, Run, Answered, Silence
<1>3. budget' \in [faults : 0 .. MaxFaults, breaks : 0 .. MaxBreaks] /\ ~Undisturbed'
  BY <1>1, SpentIsNoticed DEF LoginInv, Undisturbed
<1>4. \E s \in {"401", "503"} : \E t : Answer(s, t)
  BY Zenon DEF ServerFaults
<1>5. PICK s, t : s \in {"401", "503"} /\ Answer(s, t)
  BY <1>4
<1>. QED  BY <1>1, <1>2, <1>3, <1>5, Answers DEF serverVars

\* What became of the body when the exchange breaks is no longer promised.
LEMMA BreaksLogin == ASSUME LoginInv, Breaks PROVE LoginInv'
<1>1. /\ wire # Silence /\ budget.breaks > 0 /\ budget' = [budget EXCEPT !.breaks = @ - 1]
      /\ step' = "returned" /\ result' = "auth" /\ wire' = Silence /\ wire'.dir = "none"
      /\ UNCHANGED <<round, starved, session, junk, serverVars, status, unframed>>
  BY DEF Breaks, Return, Silence
<1>2. budget' \in [faults : 0 .. MaxFaults, breaks : 0 .. MaxBreaks] /\ ~Undisturbed'
  BY <1>1, SpentIsNoticed DEF LoginInv, Undisturbed
<1>3. Plain'
  BY <1>1, <1>2 DEF LoginInv, Plain, serverVars
<1>4. Run'
  BY <1>1 DEF LoginInv, Run, serverVars
<1>5. Framed' /\ Smooth'
  BY <1>1, <1>2 DEF LoginInv, Framed, Smooth
<1>. QED  BY <1>3, <1>4, <1>5 DEF LoginInv

\* The answer to the body: Ok exactly for a "200" read from its first byte on.
LEMMA ReplyReceivedLogin == ASSUME LoginInv, ReplyReceived PROVE LoginInv'
<1>1. /\ step = "credentials" /\ wire.dir = "response" /\ ReadOn /\ wire.status = status
      /\ step' = "returned" /\ wire' = Silence /\ wire'.dir = "none"
      /\ result' = IF junk \/ wire.status # "200" THEN "auth" ELSE "ok"
      /\ UNCHANGED <<round, starved, session, serverVars, budget, status, unframed>>
  BY DEF ReplyReceived, Answered, Return, Succeeds, Silence, LoginInv, Run
<1>2. Plain'
  BY <1>1 DEF LoginInv, Plain, serverVars
<1>3. Run'
  BY <1>1 DEF LoginInv, Run, serverVars
<1>4. Framed'
  BY <1>1, ReadToTheEnd DEF Framed
<1>5. Smooth'
  <2>1. SUFFICES ASSUME Undisturbed' PROVE
             /\ Honest' => OnTheWay'
             /\ step' = "returned" /\ executed' = 1 /\ status' = "200" => result' = "ok"
    BY DEF Smooth
  <2>2. Undisturbed /\ ~unframed
    BY <1>1, <2>1, StillUndisturbed DEF Undisturbed
  <2>3. ASSUME Honest' PROVE OnTheWay'
    <3>1. Honest
      BY <1>1, <2>3 DEF Honest, serverVars
    <3>2. executed = 1
      BY <1>1, <2>2, <3>1 DEF LoginInv, Smooth, OnTheWay, InCredentials, Silence
    <3>. QED  BY <1>1, <3>2 DEF OnTheWay, serverVars
  <2>4. ~junk
    BY <2>2 DEF LoginInv, Framed
  <2>5. status' = "200" => result' = "ok"
    BY <1>1, <2>4, Zenon
  <2>. QED  BY <2>3, <2>5
<1>. QED  BY <1>2, <1>3, <1>4, <1>5 DEF LoginInv

LEMMA LoginStep == LoginInv /\ [Next]_vars => LoginInv'
<1>. SUFFICES ASSUME LoginInv, [Next]_vars PROVE LoginInv'
  OBVIOUS
<1>1. CASE ClientStep
  BY <1>1, ConnectLogin, RefusedLogin, TlsRoundLogin, TlsReceivedLogin, NegotiateLogin,
     NegotiateReceivedLogin, AuthenticateLogin, ProofReceivedLogin, DelegateLogin,
     ReplyReceivedLogin DEF ClientStep
<1>2. CASE ServerStep
  BY <1>2, ServerTlsLogin, ServerChallengesLogin, ServerAuthenticatesLogin, ServerRunsLogin
     DEF ServerStep
<1>3. CASE UNCHANGED vars
  <2>1. /\ UNCHANGED <<step, round, starved, session, wire, junk, result>>
        /\ UNCHANGED <<server, flight, context, handed, executed, budget, status, unframed>>
    BY <1>3 DEF vars, serverVars
  <2>2. (Undisturbed' <=> Undisturbed) /\ (Honest' <=> Honest)
    BY <2>1, Zenon DEF Undisturbed, Honest
  <2>3. /\ Started' = Started /\ Asking' = Asking /\ Answering' = Answering
        /\ Proof' = Proof /\ Challenge' = Challenge
    BY Zenon DEF Started, Asking, Answering, Proof, Challenge
  <2>4. Plain' /\ Run' /\ Framed'
    BY <2>1, Zenon DEF LoginInv, Plain, Run, Framed, Answered
  <2>5. OnTheWay' <=> OnTheWay
    BY <2>1, <2>3, Zenon DEF OnTheWay, InTls, InNegotiate, InAuthenticate, InCredentials
  <2>. QED  BY <2>1, <2>2, <2>4, <2>5, Zenon DEF LoginInv, Smooth
<1>. QED  BY <1>1, <1>2, <1>3, ServerFaultsLogin, BreaksLogin DEF Next

\* An exchange in which nothing goes wrong, with a server that knows the user,
\* runs the body, and Ok is returned exactly when the body was run and answered
\* so: the two ends count the sealed messages alike, whatever the modulus.
THEOREM LoginsSucceed == Spec => []GoodLoginSucceeds
<1>1. LoginInv => GoodLoginSucceeds
  BY DEF LoginInv, Plain, Run, Smooth, Honest, OnTheWay, GoodLoginSucceeds
<1>. QED  BY LoginInit, LoginStep, <1>1, PTL DEF Spec

=============================================================================
