---------------------------- MODULE SealedChannel ----------------------------
(***************************************************************************)
(* A client session and the server's mirror of it exchange sealed messages  *)
(* over a wire that may lose, delay, repeat, reorder or damage them.  The    *)
(* server side is not in this repository: it runs the same algorithm        *)
(* (MS-NLMP 3.4), so its actions apply the client's operators to a mirrored *)
(* session.                                                                 *)
(***************************************************************************)
EXTENDS NtlmSession, Sequences

CONSTANTS Bodies,       \* the plaintexts
          Lens,         \* lengths a plaintext may have
          MaxMessages,  \* bound: messages sealed per direction of a session
          MaxPos        \* bound: keystream offset up to which messages arrive

Dirs == {"request", "reply"}

\* The code counts messages in a u32 and never renews a session because of
\* it, so nothing is promised to a session that seals 2^32 messages.
ASSUME MaxMessagesAssumption ==
    /\ MaxMessages \in [Dirs -> 0..(SeqModulus - 1)]
    /\ Lens \subseteq Nat
Key  == "exported"      \* the exported session key of the handshake

VARIABLES client,   \* NtlmSession of the client
          server,   \* the server's session
          sent,     \* per direction, every sealed message, oldest first
          got       \* per direction, the bodies accepted by the receiver

vars == <<client, server, sent, got>>

Sender(d)   == IF d = "request" THEN client ELSE server
Receiver(d) == IF d = "request" THEN server ELSE client

Init ==
    /\ client = FromAuth(Key)
    /\ server = Mirror(FromAuth(Key))
    /\ sent = [d \in Dirs |-> <<>>]
    /\ got = [d \in Dirs |-> <<>>]

SealBy(d, session, body, len) ==
    /\ Len(sent[d]) < MaxMessages[d]
    /\ sent' = [sent EXCEPT ![d] = Append(@, Seal(session, body, len))]
    /\ UNCHANGED got

ClientSeal(body, len) ==
    /\ SealBy("request", client, body, len)
    /\ client' = AfterSeal(client, len)
    /\ UNCHANGED server

\* sign: the MIC of CredSSP; on the channel, a message of no ciphertext.
ClientSign(body) ==
    /\ SealBy("request", client, body, 0)
    /\ client' = AfterSign(client)
    /\ UNCHANGED server

ServerSeal(body, len) ==
    /\ SealBy("reply", server, body, len)
    /\ server' = AfterSeal(server, len)
    /\ UNCHANGED client

\* What the wire may make of a message: itself, or with damaged ciphertext,
\* sequence number or version.
Arrivals(m) ==
    {m} \cup {[m EXCEPT !.sum.intact = FALSE],
              [m EXCEPT !.version = 0]}
        \cup {[m EXCEPT !.seq = n] : n \in 0..(SeqModulus - 1)}

\* got after the receiver's unseal of m: the body on success only.
Returned(d, session, m) ==
    got' = IF Opens(session, m) THEN [got EXCEPT ![d] = Append(@, m.body)] ELSE got

ClientUnseal(m) ==
    /\ client.serverPos <= MaxPos
    /\ client' = AfterUnseal(client, m)
    /\ Returned("reply", client, m)
    /\ UNCHANGED <<server, sent>>

ServerUnseal(m) ==
    /\ server.serverPos <= MaxPos
    /\ server' = AfterUnseal(server, m)
    /\ Returned("request", server, m)
    /\ UNCHANGED <<client, sent>>

ArriveAtClient ==
    \E i \in 1..Len(sent["reply"]) : \E m \in Arrivals(sent["reply"][i]) : ClientUnseal(m)

ArriveAtServer ==
    \E i \in 1..Len(sent["request"]) : \E m \in Arrivals(sent["request"][i]) : ServerUnseal(m)

Next ==
    \/ \E body \in Bodies, len \in Lens : ClientSeal(body, len) \/ ServerSeal(body, len)
    \/ \E body \in Bodies : ClientSign(body)
    \/ ArriveAtClient
    \/ ArriveAtServer

Spec == Init /\ [][Next]_vars

-----------------------------------------------------------------------------
KeyOf(d) == <<Key, IF d = "request" THEN "client-to-server" ELSE "server-to-client">>

SessionType ==
    [sealKey : {KeyOf(d) : d \in Dirs}, openKey : {KeyOf(d) : d \in Dirs},
     clientSeq : Nat, clientPos : Nat, serverSeq : Nat, serverPos : Nat]

MessageType(d) ==
    [version : {1}, seq : Nat, len : Nat, body : Bodies,
     sum : [key : {KeyOf(d)}, seq : Nat, pos : Nat, intact : {TRUE}]]

\* Type invariant of the two sessions and of the messages sealed and accepted.
TypeOK ==
    /\ client \in SessionType
    /\ server \in SessionType
    /\ sent \in [Dirs -> Seq(MessageType("request") \cup MessageType("reply"))]
    /\ got \in [Dirs -> Seq(Bodies)]

\* Where the keystream of the next message of direction d starts: the first
\* one not accepted yet or, when all are, the one the sender would seal now.
NextPos(d) ==
    IF Len(got[d]) < Len(sent[d]) THEN sent[d][Len(got[d]) + 1].sum.pos
                                  ELSE Sender(d).clientPos

Desync(d) == Receiver(d).serverPos # NextPos(d)

\* No keystream byte encrypts two messages: in each direction a message starts
\* at or after the end (ciphertext and checksum) of every earlier one, whatever
\* mixture of seal and sign produced them.
KeystreamNeverReused ==
    \A d \in Dirs : \A i, j \in 1..Len(sent[d]) :
        i < j => sent[d][i].sum.pos + sent[d][i].len + ChecksumLen <= sent[d][j].sum.pos

\* While nothing damaged has consumed keystream, unseal accepts the next
\* genuine message: both ends advance by the same amounts in the same order.
GenuineNextOpens ==
    \A d \in Dirs :
        ~Desync(d) /\ Len(got[d]) < Len(sent[d])
            => Opens(Receiver(d), sent[d][Len(got[d]) + 1])

\* After a checksum mismatch the receiver's keystream is ahead of its sequence
\* number and unseal never succeeds again in that direction: the session cannot
\* recover and has to be replaced.
DesyncIsForever ==
    [][\A d \in Dirs : Desync(d) => Desync(d)' /\ got'[d] = got[d]]_vars

BodiesOf(msgs) == [i \in DOMAIN msgs |-> msgs[i].body]

\* The replies the client's unseal returns are the ones the server sealed, in
\* order, once each and unaltered, over any wire: the channel implements
\* InOrderChannel towards the client...
Replies == INSTANCE InOrderChannel WITH
               sealed <- BodiesOf(sent["reply"]), accepted <- got["reply"]
RepliesInOrder == Replies!Spec

\* ... and towards the server, which opens what seal and sign produce.
Requests == INSTANCE InOrderChannel WITH
                sealed <- BodiesOf(sent["request"]), accepted <- got["request"]
RequestsInOrder == Requests!Spec

=============================================================================
