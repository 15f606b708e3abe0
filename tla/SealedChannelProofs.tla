------------------------- MODULE SealedChannelProofs -------------------------
(***************************************************************************)
(* Proofs about SealedChannel, for every set of bodies and lengths and every *)
(* bound.  All the properties follow from one inductive invariant about a    *)
(* single direction: message i carries sequence number i-1, messages abut in *)
(* the keystream, and the receiver's keystream is never behind the next      *)
(* message it expects.                                                       *)
(***************************************************************************)
EXTENDS SealedChannel, TLAPS

EndPos(m) == m.sum.pos + m.len + ChecksumLen

Numbered(d) ==
    \A i \in 1..Len(sent[d]) :
        /\ sent[d][i].seq = i - 1
        /\ sent[d][i].sum.seq = i - 1
        /\ sent[d][i].sum.key = KeyOf(d)
        /\ EndPos(sent[d][i]) <= Sender(d).clientPos

Abutting(d) ==
    /\ \A i \in 1..(Len(sent[d]) - 1) : sent[d][i + 1].sum.pos = EndPos(sent[d][i])
    /\ Len(sent[d]) # 0 => Sender(d).clientPos = EndPos(sent[d][Len(sent[d])])

Ordered(d) ==
    \A i, j \in 1..Len(sent[d]) : i < j => EndPos(sent[d][i]) <= sent[d][j].sum.pos

DirInv(d) ==
    /\ Sender(d).sealKey = KeyOf(d) /\ Receiver(d).openKey = KeyOf(d)
    /\ Sender(d).clientSeq = Len(sent[d])
    /\ Len(sent[d]) <= MaxMessages[d]
    /\ Numbered(d)
    /\ Abutting(d)
    /\ Ordered(d)
    /\ Receiver(d).serverSeq = Len(got[d])
    /\ Len(got[d]) <= Len(sent[d])
    /\ \A i \in 1..Len(got[d]) : got[d][i] = sent[d][i].body
    /\ NextPos(d) <= Receiver(d).serverPos

\* The inductive invariant: TypeOK alone does not relate the counters of the
\* two ends, which is what unseal depends on.
IInv == TypeOK /\ \A d \in Dirs : DirInv(d)

Message == MessageType("request") \cup MessageType("reply")

\* What a step does to direction d once its keystreams have diverged.
DesyncStep(d) == Desync(d) => Desync(d)' /\ got'[d] = got[d]

SendHalf(d)    == <<Sender(d).sealKey, Sender(d).clientSeq, Sender(d).clientPos>>
ReceiveHalf(d) == <<Receiver(d).openKey, Receiver(d).serverSeq, Receiver(d).serverPos>>

-----------------------------------------------------------------------------
\* The counter arithmetic of seal and unseal while the bound holds: no wrap.
LEMMA NoWrap ==
    ASSUME NEW n \in Nat, n + 1 < SeqModulus
    PROVE  (n + 1) % SeqModulus = n + 1
  BY SeqModulusAssumption

\* Counting modulo 2^32 stays within the naturals.
LEMMA SeqIsNat ==
    ASSUME NEW n \in Nat
    PROVE  n % SeqModulus \in Nat
  BY SeqModulusAssumption

\* The fields of a sealed message that the arithmetic of the proofs needs.
LEMMA MessageFields ==
    ASSUME NEW m \in Message
    PROVE  m.len \in Nat /\ m.sum.pos \in Nat /\ m.body \in Bodies
  <1>1. ASSUME NEW d, m \in MessageType(d)
        PROVE  m.len \in Nat /\ m.sum.pos \in Nat /\ m.body \in Bodies
    <2>1. m.sum \in [key : {KeyOf(d)}, seq : Nat, pos : Nat, intact : {TRUE}]
      BY <1>1 DEF MessageType
    <2>2. m.len \in Nat /\ m.body \in Bodies
      BY <1>1 DEF MessageType
    <2>3. QED BY <2>1, <2>2
  <1>2. QED BY <1>1 DEF Message

\* What one seal does to the sender's record.
LEMMA AfterSealFields ==
    ASSUME NEW s \in SessionType, NEW len \in Nat
    PROVE  /\ AfterSeal(s, len) \in SessionType
           /\ AfterSeal(s, len).clientSeq = (s.clientSeq + 1) % SeqModulus
           /\ AfterSeal(s, len).clientPos = s.clientPos + len + ChecksumLen
           /\ AfterSeal(s, len).sealKey = s.sealKey
           /\ AfterSeal(s, len).openKey = s.openKey
           /\ AfterSeal(s, len).serverSeq = s.serverSeq
           /\ AfterSeal(s, len).serverPos = s.serverPos
  <1>1. (s.clientSeq + 1) % SeqModulus \in Nat
    BY SeqIsNat DEF SessionType
  <1>2. s.clientPos + len + ChecksumLen \in Nat
    BY DEF SessionType, ChecksumLen
  <1> DEFINE seq == (s.clientSeq + 1) % SeqModulus
             pos == s.clientPos + len + ChecksumLen
  <1>3. AfterSeal(s, len) = [s EXCEPT !.clientPos = pos, !.clientSeq = seq]
    BY DEF AfterSeal
  <1> HIDE DEF seq, pos
  <1>4. QED BY <1>1, <1>2, <1>3 DEF SessionType, seq, pos

\* What one unseal does to the receiver's record.
LEMMA AfterUnsealFields ==
    ASSUME NEW s \in SessionType, NEW m, m.len \in Nat
    PROVE  /\ AfterUnseal(s, m) \in SessionType
           /\ AfterUnseal(s, m).serverSeq =
                IF Opens(s, m) THEN (s.serverSeq + 1) % SeqModulus ELSE s.serverSeq
           /\ AfterUnseal(s, m).serverPos =
                IF HeaderOk(s, m) THEN s.serverPos + m.len + ChecksumLen ELSE s.serverPos
           /\ AfterUnseal(s, m).sealKey = s.sealKey
           /\ AfterUnseal(s, m).openKey = s.openKey
           /\ AfterUnseal(s, m).clientSeq = s.clientSeq
           /\ AfterUnseal(s, m).clientPos = s.clientPos
  <1>1. CASE ~HeaderOk(s, m)
    BY <1>1 DEF AfterUnseal, Opens
  <1>2. CASE HeaderOk(s, m)
    <2> DEFINE seq == IF ChecksumOk(s, m) THEN (s.serverSeq + 1) % SeqModulus
                                          ELSE s.serverSeq
               pos == s.serverPos + m.len + ChecksumLen
    <2>1. AfterUnseal(s, m) = [s EXCEPT !.serverPos = pos, !.serverSeq = seq]
      BY <1>2 DEF AfterUnseal
    <2>2. seq \in Nat /\ pos \in Nat
      BY SeqIsNat DEF SessionType, ChecksumLen
    <2>3. seq = IF Opens(s, m) THEN (s.serverSeq + 1) % SeqModulus ELSE s.serverSeq
      BY <1>2 DEF Opens
    <2> HIDE DEF seq, pos
    <2>4. /\ [s EXCEPT !.serverPos = pos, !.serverSeq = seq] \in SessionType
          /\ [s EXCEPT !.serverPos = pos, !.serverSeq = seq].serverSeq = seq
          /\ [s EXCEPT !.serverPos = pos, !.serverSeq = seq].serverPos = pos
      BY <2>2 DEF SessionType
    <2>5. QED BY <1>2, <2>1, <2>3, <2>4 DEF SessionType, pos
  <1>3. QED BY <1>1, <1>2

-----------------------------------------------------------------------------
\* A step that touches neither the half-sessions nor the messages of direction
\* d keeps its invariant.
LEMMA Frame ==
    ASSUME NEW d \in Dirs, DirInv(d),
           SendHalf(d)' = SendHalf(d), ReceiveHalf(d)' = ReceiveHalf(d),
           sent'[d] = sent[d], got'[d] = got[d]
    PROVE  DirInv(d)' /\ DesyncStep(d)
  BY DEF DirInv, SendHalf, ReceiveHalf, Numbered, Abutting, Ordered, NextPos, EndPos,
         DesyncStep, Desync

\* Sealing in direction d keeps its invariant.
LEMMA SealKeeps ==
    ASSUME TypeOK, NEW d \in Dirs, DirInv(d), NEW body, NEW len \in Nat,
           SealBy(d, Sender(d), body, len),
           Sender(d) \in SessionType, Receiver(d) \in SessionType,
           Sender(d)' = AfterSeal(Sender(d), len),
           ReceiveHalf(d)' = ReceiveHalf(d)
    PROVE  DirInv(d)' /\ DesyncStep(d)
  <1> DEFINE n   == Len(sent[d])
             msg == Seal(Sender(d), body, len)
  <1>1. /\ sent[d] \in Seq(Message) /\ got[d] \in Seq(Bodies) /\ n \in Nat
        /\ Len(got[d]) \in Nat
    BY DEF TypeOK, Message
  <1>2. /\ sent'[d] = Append(sent[d], msg) /\ Len(sent'[d]) = n + 1
        /\ sent'[d][n + 1] = msg
        /\ \A i \in 1..n : sent'[d][i] = sent[d][i]
        /\ got' = got
    BY <1>1 DEF SealBy, TypeOK
  <1>3. /\ n + 1 <= MaxMessages[d] /\ n + 1 < SeqModulus
        /\ MaxMessages[d] \in Nat
    BY <1>1, MaxMessagesAssumption, SeqModulusAssumption DEF SealBy
  <1>4. /\ Sender(d)'.clientSeq = n + 1
        /\ Sender(d)'.clientPos = Sender(d).clientPos + len + ChecksumLen
        /\ Sender(d)'.sealKey = KeyOf(d)
    <2>1. Sender(d).clientSeq = n /\ Sender(d).sealKey = KeyOf(d)
      BY DEF DirInv
    <2>2. (n + 1) % SeqModulus = n + 1
      BY <1>1, <1>3, NoWrap
    <2> HIDE DEF n
    <2>3. QED BY <2>1, <2>2, AfterSealFields
  <1>5. /\ msg.seq = n /\ msg.sum.seq = n /\ msg.sum.key = KeyOf(d)
        /\ msg.len = len /\ msg.body = body
        /\ msg.sum.pos = Sender(d).clientPos
        /\ EndPos(msg) = Sender(d)'.clientPos
    BY <1>4 DEF Seal, Checksum, DirInv, EndPos
  <1>6. /\ Sender(d).clientPos \in Nat
        /\ \A i \in 1..n : EndPos(sent[d][i]) \in Int
    <2>1. ASSUME NEW m \in Message PROVE EndPos(m) \in Int
      BY MessageFields DEF EndPos, ChecksumLen
    <2>2. \A i \in 1..n : sent[d][i] \in Message
      BY <1>1
    <2>3. QED BY <2>1, <2>2 DEF SessionType
  <1> HIDE DEF msg, n
  <1>7. Numbered(d)'
    <2> SUFFICES ASSUME NEW i \in 1..(n + 1)
                 PROVE  /\ sent'[d][i].seq = i - 1
                        /\ sent'[d][i].sum.seq = i - 1
                        /\ sent'[d][i].sum.key = KeyOf(d)
                        /\ EndPos(sent'[d][i]) <= Sender(d)'.clientPos
      BY <1>2 DEF Numbered, EndPos
    <2>1. CASE i = n + 1
      BY <2>1, <1>1, <1>2, <1>4, <1>5, <1>6 DEF ChecksumLen
    <2>2. CASE i \in 1..n
      <3>1. EndPos(sent[d][i]) <= Sender(d).clientPos
        BY <2>2 DEF DirInv, Numbered, n
      <3>2. EndPos(sent[d][i]) <= Sender(d)'.clientPos
        BY <2>2, <3>1, <1>4, <1>6 DEF ChecksumLen
      <3>3. QED BY <2>2, <3>2, <1>2 DEF DirInv, Numbered, n
    <2>3. QED BY <2>1, <2>2, <1>1
  <1>8. Abutting(d)'
    <2>1. ASSUME NEW i \in 1..n
          PROVE  sent'[d][i + 1].sum.pos = EndPos(sent'[d][i])
      <3>1. CASE i = n
        BY <3>1, <1>1, <1>2, <1>5 DEF DirInv, Abutting, n
      <3>2. CASE i \in 1..(n - 1)
        BY <3>2, <1>1, <1>2 DEF DirInv, Abutting, n
      <3>3. QED BY <3>1, <3>2, <1>1
    <2>2. Sender(d)'.clientPos = EndPos(sent'[d][n + 1])
      BY <1>2, <1>5
    <2>3. QED BY <2>1, <2>2, <1>1, <1>2 DEF Abutting, EndPos
  <1>9. Ordered(d)'
    <2> SUFFICES ASSUME NEW i \in 1..(n + 1), NEW j \in 1..(n + 1), i < j
                 PROVE  EndPos(sent'[d][i]) <= sent'[d][j].sum.pos
      BY <1>2 DEF Ordered, EndPos
    <2>1. CASE j = n + 1
      BY <2>1, <1>1, <1>2, <1>5 DEF DirInv, Numbered, n
    <2>2. CASE j \in 1..n
      BY <2>2, <1>1, <1>2 DEF DirInv, Ordered, n
    <2>3. QED BY <2>1, <2>2, <1>1
  <1>10. NextPos(d)' = NextPos(d) /\ NextPos(d)' <= Receiver(d)'.serverPos
    <2>1. NextPos(d)' = NextPos(d)
      <3>1. CASE Len(got[d]) < n
        BY <3>1, <1>1, <1>2 DEF NextPos, n
      <3>2. CASE Len(got[d]) = n
        BY <3>2, <1>1, <1>2, <1>5 DEF NextPos, n
      <3>3. QED BY <3>1, <3>2, <1>1 DEF DirInv, n
    <2>2. QED BY <2>1 DEF DirInv, ReceiveHalf
  <1>11. \A i \in 1..Len(got[d]) : got[d][i] = sent'[d][i].body
    BY <1>1, <1>2 DEF DirInv, n
  <1>12. Len(got[d]) <= n + 1
    BY <1>1 DEF DirInv, n
  <1>13. DesyncStep(d)
    BY <1>2, <1>10 DEF DesyncStep, Desync, ReceiveHalf
  <1>14. QED BY <1>2, <1>3, <1>4, <1>7, <1>8, <1>9, <1>10, <1>11, <1>12, <1>13
             DEF DirInv, ReceiveHalf

-----------------------------------------------------------------------------
\* Whatever the wire made of message i, unseal accepts it only when it is the
\* next one, genuine, and the keystreams meet.
LEMMA OpensOnlyNext ==
    ASSUME TypeOK, NEW d \in Dirs, DirInv(d),
           NEW i \in 1..Len(sent[d]), NEW m \in Arrivals(sent[d][i])
    PROVE  /\ m.len = sent[d][i].len /\ m.body = sent[d][i].body
           /\ m.len \in Nat /\ m.body \in Bodies
           /\ Opens(Receiver(d), m) => /\ i = Len(got[d]) + 1
                                       /\ sent[d][i].sum.pos = Receiver(d).serverPos
  <1> DEFINE sm == sent[d][i]
  <1>1. sm \in Message /\ Len(got[d]) \in Nat /\ i \in Nat
    BY DEF TypeOK, Message
  <1>2. m.len = sm.len /\ m.body = sm.body
    BY <1>1 DEF Arrivals, Message, MessageType
  <1>3. m.sum.seq = sm.sum.seq /\ m.sum.pos = sm.sum.pos
    BY <1>1 DEF Arrivals, Message, MessageType
  <1>4. ASSUME Opens(Receiver(d), m)
        PROVE  i = Len(got[d]) + 1 /\ sm.sum.pos = Receiver(d).serverPos
    <2>1. m.sum.seq = Receiver(d).serverSeq /\ m.sum.pos = Receiver(d).serverPos
      BY <1>4 DEF Opens, ChecksumOk, Checksum
    <2>2. sm.sum.seq = i - 1 /\ Receiver(d).serverSeq = Len(got[d])
      BY DEF DirInv, Numbered
    <2>3. i - 1 = Len(got[d])
      BY <1>3, <2>1, <2>2
    <2>4. i = Len(got[d]) + 1
      BY <1>1, <2>3
    <2>5. QED BY <1>3, <2>1, <2>4
  <1>5. QED BY <1>1, <1>2, <1>4, MessageFields

\* Unsealing whatever arrives in direction d keeps its invariant.
LEMMA UnsealKeeps ==
    ASSUME TypeOK, NEW d \in Dirs, DirInv(d),
           NEW i \in 1..Len(sent[d]), NEW m \in Arrivals(sent[d][i]),
           Receiver(d) \in SessionType,
           Receiver(d)' = AfterUnseal(Receiver(d), m),
           Returned(d, Receiver(d), m), sent' = sent,
           SendHalf(d)' = SendHalf(d)
    PROVE  DirInv(d)' /\ DesyncStep(d)
  <1> DEFINE k == Len(got[d])
             n == Len(sent[d])
  <1>1. /\ k \in Nat /\ n \in Nat /\ n < SeqModulus /\ k <= n
        /\ got[d] \in Seq(Bodies) /\ sent[d] \in Seq(Message)
    BY MaxMessagesAssumption, SeqModulusAssumption DEF TypeOK, Message, DirInv
  <1>2. /\ m.len = sent[d][i].len /\ m.body = sent[d][i].body
        /\ m.len \in Nat /\ m.body \in Bodies
        /\ Opens(Receiver(d), m) => /\ i = k + 1
                                    /\ sent[d][i].sum.pos = Receiver(d).serverPos
    BY OpensOnlyNext
  <1>3. /\ Receiver(d)'.openKey = Receiver(d).openKey
        /\ Receiver(d).serverPos \in Nat /\ Receiver(d).serverSeq = k
    BY <1>2, AfterUnsealFields DEF SessionType, DirInv
  <1>4. /\ Numbered(d)' /\ Abutting(d)' /\ Ordered(d)'
        /\ Sender(d)'.sealKey = KeyOf(d) /\ Receiver(d)'.openKey = KeyOf(d)
        /\ Sender(d)'.clientSeq = n /\ n <= MaxMessages[d]
    BY <1>3 DEF DirInv, Numbered, Abutting, Ordered, SendHalf, EndPos
  <1>5. \A j \in 1..n : sent[d][j].sum.pos \in Nat /\ sent[d][j].len \in Nat
    BY <1>1, MessageFields
  <1>6. CASE Opens(Receiver(d), m)
    <2>1. i = k + 1 /\ sent[d][i].sum.pos = Receiver(d).serverPos /\ k + 1 <= n
      BY <1>1, <1>2, <1>6
    <2>2. (k + 1) % SeqModulus = k + 1
      <3> HIDE DEF k, n
      <3>1. k + 1 < SeqModulus
        BY <1>1, <2>1, SeqModulusAssumption
      <3>2. QED BY <1>1, <3>1, NoWrap
    <2>3. /\ Receiver(d)'.serverSeq = k + 1
          /\ Receiver(d)'.serverPos = EndPos(sent[d][k + 1])
      BY <1>2, <1>3, <1>6, <2>1, <2>2, AfterUnsealFields DEF Opens, EndPos
    <2>4. /\ got'[d] = Append(got[d], m.body) /\ Len(got'[d]) = k + 1
          /\ got'[d][k + 1] = m.body /\ \A j \in 1..k : got'[d][j] = got[d][j]
      BY <1>1, <1>2, <1>6 DEF Returned, TypeOK
    <2>5. \A j \in 1..(k + 1) : got'[d][j] = sent[d][j].body
      BY <1>1, <1>2, <2>1, <2>4 DEF DirInv
    <2>6. NextPos(d)' <= Receiver(d)'.serverPos
      <3> EndPos(sent[d][k + 1]) \in Int
        BY <1>1, <1>5, <2>1 DEF EndPos, ChecksumLen
      <3>1. CASE k + 1 < n
        <4>1. NextPos(d)' = sent[d][k + 2].sum.pos
          BY <3>1, <1>1, <2>4 DEF NextPos
        <4>2. k + 1 \in 1..(n - 1) /\ (k + 1) + 1 = k + 2
          BY <3>1, <1>1
        <4>3. sent[d][(k + 1) + 1].sum.pos = EndPos(sent[d][k + 1])
          BY <4>2 DEF DirInv, Abutting
        <4>4. QED BY <4>1, <4>2, <4>3, <2>3
      <3>2. CASE k + 1 = n
        <4>1. NextPos(d)' = Sender(d)'.clientPos
          BY <3>2, <1>1, <2>4 DEF NextPos
        <4>2. Sender(d)'.clientPos = EndPos(sent[d][n])
          BY <3>2, <1>1 DEF DirInv, Abutting, SendHalf
        <4>3. QED BY <3>2, <4>1, <4>2, <2>3
      <3>3. QED BY <3>1, <3>2, <1>1, <2>1
    <2>7. ~Desync(d)
      BY <2>1, <1>1 DEF Desync, NextPos
    <2>8. QED BY <1>4, <2>1, <2>3, <2>4, <2>5, <2>6, <2>7 DEF DirInv, DesyncStep
  <1>7. CASE ~Opens(Receiver(d), m)
    <2>1. Receiver(d)'.serverSeq = k
      BY <1>2, <1>3, <1>7, AfterUnsealFields
    <2>2. Receiver(d)'.serverPos >= Receiver(d).serverPos /\ Receiver(d)'.serverPos \in Nat
      <3>1. CASE HeaderOk(Receiver(d), m)
        <4>1. Receiver(d)'.serverPos = Receiver(d).serverPos + m.len + ChecksumLen
          BY <3>1, <1>2, AfterUnsealFields
        <4>2. QED BY <4>1, <1>2, <1>3 DEF ChecksumLen
      <3>2. CASE ~HeaderOk(Receiver(d), m)
        BY <3>2, <1>2, <1>3, AfterUnsealFields
      <3>3. QED BY <3>1, <3>2
    <2>3. got' = got
      BY <1>7 DEF Returned
    <2>4. NextPos(d)' = NextPos(d) /\ NextPos(d) \in Int
      <3>1. Sender(d).clientPos \in Nat
        BY DEF TypeOK, SessionType, Sender
      <3>2. QED BY <1>1, <1>5, <2>3, <3>1 DEF NextPos, SendHalf
    <2>5. NextPos(d)' <= Receiver(d)'.serverPos
      BY <1>3, <2>2, <2>4 DEF DirInv
    <2>6. DesyncStep(d)
      BY <1>3, <2>2, <2>3, <2>4 DEF DirInv, DesyncStep, Desync
    <2>7. QED BY <1>4, <2>1, <2>3, <2>5, <2>6 DEF DirInv
  <1>8. QED BY <1>6, <1>7

-----------------------------------------------------------------------------
\* TypeOK is preserved by sealing and by unsealing.
LEMMA SealTypes ==
    ASSUME TypeOK, NEW d \in Dirs, NEW s \in SessionType, s.sealKey = KeyOf(d),
           NEW body \in Bodies, NEW len \in Nat, SealBy(d, s, body, len)
    PROVE  /\ sent' \in [Dirs -> Seq(Message)]
           /\ got' \in [Dirs -> Seq(Bodies)]
  <1>1. Seal(s, body, len) \in MessageType(d)
    BY DEF Seal, Checksum, SessionType, MessageType
  <1>2. Seal(s, body, len) \in Message
    BY <1>1 DEF Message, Dirs
  <1>3. QED BY <1>2 DEF SealBy, TypeOK, Message

LEMMA UnsealTypes ==
    ASSUME TypeOK, NEW d \in Dirs, NEW s, NEW m, m.body \in Bodies,
           Returned(d, s, m)
    PROVE  got' \in [Dirs -> Seq(Bodies)]
  BY DEF Returned, TypeOK

\* Each step preserves the inductive invariant.
LEMMA Step == IInv /\ [Next]_vars => IInv' /\ \A d \in Dirs : DesyncStep(d)
  <1> SUFFICES ASSUME IInv, [Next]_vars PROVE IInv' /\ \A d \in Dirs : DesyncStep(d)
    OBVIOUS
  <1>1. /\ TypeOK /\ client \in SessionType /\ server \in SessionType
        /\ DirInv("request") /\ DirInv("reply")
        /\ "request" \in Dirs /\ "reply" \in Dirs
    BY DEF IInv, TypeOK, Dirs
  <1>2. Lens \subseteq Nat /\ 0 \in Nat
    BY MaxMessagesAssumption
  <1>3. ASSUME NEW body \in Bodies, NEW len \in Nat,
               SealBy("request", client, body, len),
               client' = AfterSeal(client, len), server' = server
        PROVE  IInv' /\ \A d \in Dirs : DesyncStep(d)
    <2>1. client' \in SessionType
      BY <1>1, <1>3, AfterSealFields
    <2>2. TypeOK'
      BY <1>1, <1>3, <2>1, SealTypes DEF TypeOK, Message, DirInv, Sender
    <2>3. DirInv("request")' /\ DesyncStep("request")
      BY <1>1, <1>3, SealKeeps DEF Sender, Receiver, ReceiveHalf
    <2>4. DirInv("reply")' /\ DesyncStep("reply")
      BY <1>1, <1>3, AfterSealFields, Frame
         DEF Sender, Receiver, SendHalf, ReceiveHalf, SealBy, TypeOK
    <2>5. QED BY <2>2, <2>3, <2>4 DEF IInv, Dirs
  <1>4. ASSUME NEW body \in Bodies, NEW len \in Nat,
               SealBy("reply", server, body, len),
               server' = AfterSeal(server, len), client' = client
        PROVE  IInv' /\ \A d \in Dirs : DesyncStep(d)
    <2>1. server' \in SessionType
      BY <1>1, <1>4, AfterSealFields
    <2>2. TypeOK'
      BY <1>1, <1>4, <2>1, SealTypes DEF TypeOK, Message, DirInv, Sender
    <2>3. DirInv("reply")' /\ DesyncStep("reply")
      BY <1>1, <1>4, SealKeeps DEF Sender, Receiver, ReceiveHalf
    <2>4. DirInv("request")' /\ DesyncStep("request")
      BY <1>1, <1>4, AfterSealFields, Frame
         DEF Sender, Receiver, SendHalf, ReceiveHalf, SealBy, TypeOK
    <2>5. QED BY <2>2, <2>3, <2>4 DEF IInv, Dirs
  <1>5. ASSUME NEW i \in 1..Len(sent["reply"]), NEW m \in Arrivals(sent["reply"][i]),
               ClientUnseal(m)
        PROVE  IInv' /\ \A d \in Dirs : DesyncStep(d)
    <2>1. m.len \in Nat /\ m.body \in Bodies
      BY <1>1, <1>5, OpensOnlyNext
    <2>2. client' \in SessionType
      BY <1>1, <1>5, <2>1, AfterUnsealFields DEF ClientUnseal
    <2>3. TypeOK'
      BY <1>1, <1>5, <2>1, <2>2, UnsealTypes DEF ClientUnseal, TypeOK
    <2>4. DirInv("reply")' /\ DesyncStep("reply")
      BY <1>1, <1>5, UnsealKeeps DEF ClientUnseal, Sender, Receiver, SendHalf
    <2>5. DirInv("request")' /\ DesyncStep("request")
      BY <1>1, <1>5, <2>1, AfterUnsealFields, Frame
         DEF ClientUnseal, Sender, Receiver, SendHalf, ReceiveHalf, Returned, TypeOK
    <2>6. QED BY <2>3, <2>4, <2>5 DEF IInv, Dirs
  <1>6. ASSUME NEW i \in 1..Len(sent["request"]), NEW m \in Arrivals(sent["request"][i]),
               ServerUnseal(m)
        PROVE  IInv' /\ \A d \in Dirs : DesyncStep(d)
    <2>1. m.len \in Nat /\ m.body \in Bodies
      BY <1>1, <1>6, OpensOnlyNext
    <2>2. server' \in SessionType
      BY <1>1, <1>6, <2>1, AfterUnsealFields DEF ServerUnseal
    <2>3. TypeOK'
      BY <1>1, <1>6, <2>1, <2>2, UnsealTypes DEF ServerUnseal, TypeOK
    <2>4. DirInv("request")' /\ DesyncStep("request")
      BY <1>1, <1>6, UnsealKeeps DEF ServerUnseal, Sender, Receiver, SendHalf
    <2>5. DirInv("reply")' /\ DesyncStep("reply")
      BY <1>1, <1>6, <2>1, AfterUnsealFields, Frame
         DEF ServerUnseal, Sender, Receiver, SendHalf, ReceiveHalf, Returned, TypeOK
    <2>6. QED BY <2>3, <2>4, <2>5 DEF IInv, Dirs
  <1>7. CASE UNCHANGED vars
    <2>1. TypeOK'
      BY <1>1, <1>7 DEF vars, TypeOK
    <2>2. ASSUME NEW d \in Dirs PROVE DirInv(d)' /\ DesyncStep(d)
      BY <1>7, Frame DEF vars, SendHalf, ReceiveHalf, Sender, Receiver, IInv
    <2>3. QED BY <2>1, <2>2 DEF IInv
  <1>8. QED
    BY <1>2, <1>3, <1>4, <1>5, <1>6, <1>7
       DEF Next, ClientSeal, ClientSign, ServerSeal, AfterSign, ArriveAtClient, ArriveAtServer

LEMMA Start == Init => IInv
  <1> SUFFICES ASSUME Init PROVE IInv
    OBVIOUS
  <1>1. /\ client = [sealKey |-> KeyOf("request"), clientSeq |-> 0, clientPos |-> 0,
                     openKey |-> KeyOf("reply"), serverSeq |-> 0, serverPos |-> 0]
        /\ server = [sealKey |-> KeyOf("reply"), clientSeq |-> 0, clientPos |-> 0,
                     openKey |-> KeyOf("request"), serverSeq |-> 0, serverPos |-> 0]
    BY DEF Init, FromAuth, Mirror, KeyOf
  <1>2. TypeOK
    BY <1>1 DEF TypeOK, SessionType, Init, Dirs
  <1>3. ASSUME NEW d \in Dirs PROVE DirInv(d)
    BY <1>1, MaxMessagesAssumption, SeqModulusAssumption
       DEF Init, DirInv, Sender, Receiver, Numbered, Abutting, Ordered, NextPos, Dirs
  <1>4. QED BY <1>2, <1>3 DEF IInv

LEMMA Invariance == Spec => []IInv
  <1>1. IInv /\ [Next]_vars => IInv'
    BY Step
  <1>2. QED BY Start, <1>1, PTL DEF Spec

-----------------------------------------------------------------------------
\* The sessions and the messages keep their types.
THEOREM TypeCorrect == Spec => []TypeOK
  <1>1. IInv => TypeOK
    BY DEF IInv
  <1>2. QED BY <1>1, Invariance, PTL

\* No byte of an RC4 keystream encrypts two messages of one session.
THEOREM KeystreamUse == Spec => []KeystreamNeverReused
  <1>1. IInv => KeystreamNeverReused
    BY DEF IInv, DirInv, Ordered, EndPos, KeystreamNeverReused
  <1>2. QED BY <1>1, Invariance, PTL

\* While the keystreams agree the next genuine message opens.
THEOREM GenuineMessageOpens == Spec => []GenuineNextOpens
  <1>1. ASSUME IInv, NEW d \in Dirs, ~Desync(d), Len(got[d]) < Len(sent[d])
        PROVE  Opens(Receiver(d), sent[d][Len(got[d]) + 1])
    <2> DEFINE k == Len(got[d])
               m == sent[d][k + 1]
    <2>1. k + 1 \in 1..Len(sent[d]) /\ m \in Message /\ k \in Nat
      BY <1>1 DEF IInv, TypeOK, Message
    <2>2. /\ m.version = 1
          /\ m.sum = Checksum(m.sum.key, m.sum.seq, m.sum.pos, TRUE)
      <3>1. ASSUME NEW e, m \in MessageType(e)
            PROVE  m.version = 1 /\ m.sum = Checksum(m.sum.key, m.sum.seq, m.sum.pos, TRUE)
        <4>1. /\ m.version \in {1}
              /\ m.sum \in [key : {KeyOf(e)}, seq : Nat, pos : Nat, intact : {TRUE}]
          BY <3>1 DEF MessageType
        <4>2. QED BY <4>1 DEF Checksum
      <3>2. QED BY <2>1, <3>1 DEF Message
    <2>3. m.seq = k /\ m.sum.seq = k /\ m.sum.key = KeyOf(d)
      BY <1>1, <2>1 DEF IInv, DirInv, Numbered
    <2>4. Receiver(d).serverSeq = k /\ Receiver(d).openKey = KeyOf(d)
      BY <1>1 DEF IInv, DirInv
    <2>5. m.sum.pos = Receiver(d).serverPos
      BY <1>1 DEF Desync, NextPos
    <2>6. QED BY <2>2, <2>3, <2>4, <2>5 DEF Opens, HeaderOk, ChecksumOk
  <1>2. IInv => GenuineNextOpens
    BY <1>1 DEF GenuineNextOpens
  <1>3. QED BY <1>2, Invariance, PTL

\* Once a damaged message has consumed keystream the direction is dead.
THEOREM DesyncForever == Spec => DesyncIsForever
  <1>1. IInv /\ [Next]_vars =>
            [\A d \in Dirs : Desync(d) => Desync(d)' /\ got'[d] = got[d]]_vars
    BY Step DEF DesyncStep
  <1>2. QED BY <1>1, Invariance, PTL DEF Spec, DesyncIsForever

-----------------------------------------------------------------------------
\* What a step of the channel may do to direction d, seen from outside.
Stutters(d) == BodiesOf(sent'[d]) = BodiesOf(sent[d]) /\ got'[d] = got[d]

Sends(d) == \E b \in Bodies : /\ BodiesOf(sent'[d]) = Append(BodiesOf(sent[d]), b)
                              /\ got'[d] = got[d]

Accepts(d) ==
    /\ Len(got[d]) < Len(BodiesOf(sent[d]))
    /\ got'[d] = Append(got[d], BodiesOf(sent[d])[Len(got[d]) + 1])
    /\ BodiesOf(sent'[d]) = BodiesOf(sent[d])

LEMMA BodiesOfAppend ==
    ASSUME NEW s \in Seq(Message), NEW m \in Message
    PROVE  BodiesOf(Append(s, m)) = Append(BodiesOf(s), m.body)
  <1>1. /\ BodiesOf(s) = [i \in 1..Len(s) |-> s[i].body]
        /\ BodiesOf(Append(s, m)) = [i \in 1..(Len(s) + 1) |-> Append(s, m)[i].body]
    BY DEF BodiesOf
  <1>2. \A i \in 1..Len(s) : s[i].body \in Bodies
    BY MessageFields
  <1>3. BodiesOf(s) \in Seq(Bodies) /\ Len(BodiesOf(s)) = Len(s)
    BY <1>1, <1>2
  <1>4. m.body \in Bodies
    BY MessageFields
  <1>5. /\ Len(Append(BodiesOf(s), m.body)) = Len(s) + 1
        /\ \A i \in 1..(Len(s) + 1) :
              Append(BodiesOf(s), m.body)[i] = Append(s, m)[i].body
    BY <1>1, <1>3, <1>4
  <1>6. Append(BodiesOf(s), m.body) = [i \in 1..(Len(s) + 1) |-> Append(s, m)[i].body]
    BY <1>3, <1>4, <1>5
  <1>7. QED BY <1>1, <1>6

LEMMA SealSends ==
    ASSUME TypeOK, NEW d \in Dirs, NEW s \in SessionType, s.sealKey = KeyOf(d),
           NEW body \in Bodies, NEW len \in Nat, SealBy(d, s, body, len)
    PROVE  Sends(d) /\ \A e \in Dirs \ {d} : Stutters(e)
  <1> DEFINE m == Seal(s, body, len)
  <1>1. m \in Message /\ m.body = body
    BY DEF Seal, Checksum, SessionType, MessageType, Message, Dirs
  <1>2. sent' = [sent EXCEPT ![d] = Append(@, m)] /\ got' = got
    BY DEF SealBy
  <1> HIDE DEF m
  <1>3. sent[d] \in Seq(Message) /\ sent'[d] = Append(sent[d], m)
    BY <1>2 DEF TypeOK, Message
  <1>4. BodiesOf(sent'[d]) = Append(BodiesOf(sent[d]), body)
    BY <1>1, <1>3, BodiesOfAppend
  <1>5. \A e \in Dirs \ {d} : sent'[e] = sent[e]
    BY <1>2 DEF TypeOK
  <1>6. QED BY <1>2, <1>4, <1>5 DEF Sends, Stutters

LEMMA UnsealAccepts ==
    ASSUME TypeOK, NEW d \in Dirs, DirInv(d),
           NEW i \in 1..Len(sent[d]), NEW m \in Arrivals(sent[d][i]),
           Returned(d, Receiver(d), m), sent' = sent
    PROVE  (Accepts(d) \/ Stutters(d)) /\ \A e \in Dirs \ {d} : Stutters(e)
  <1>1. sent[d] \in Seq(Message)
    BY DEF TypeOK, Message
  <1>2. \A e \in Dirs \ {d} : Stutters(e)
    BY DEF Returned, TypeOK, Stutters
  <1>3. CASE ~Opens(Receiver(d), m)
    BY <1>2, <1>3 DEF Returned, Stutters
  <1>4. CASE Opens(Receiver(d), m)
    <2>1. /\ i = Len(got[d]) + 1 /\ m.body = sent[d][i].body
      BY <1>4, OpensOnlyNext
    <2>2. /\ Len(BodiesOf(sent[d])) = Len(sent[d])
          /\ BodiesOf(sent[d])[i] = sent[d][i].body
      BY <1>1 DEF BodiesOf
    <2>3. got'[d] = Append(got[d], m.body) /\ Len(got[d]) \in Nat
      BY <1>4 DEF Returned, TypeOK
    <2>4. Len(got[d]) < Len(sent[d])
      BY <1>1, <2>1, <2>3
    <2>5. QED BY <1>2, <2>1, <2>2, <2>3, <2>4 DEF Accepts
  <1>5. QED BY <1>3, <1>4

LEMMA ChannelStep ==
    IInv /\ [Next]_vars => \A d \in Dirs : Stutters(d) \/ Sends(d) \/ Accepts(d)
  <1> SUFFICES ASSUME IInv, [Next]_vars
               PROVE  \A d \in Dirs : Stutters(d) \/ Sends(d) \/ Accepts(d)
    OBVIOUS
  <1>1. /\ TypeOK /\ client \in SessionType /\ server \in SessionType
        /\ DirInv("request") /\ DirInv("reply") /\ "request" \in Dirs /\ "reply" \in Dirs
        /\ client.sealKey = KeyOf("request") /\ server.sealKey = KeyOf("reply")
    BY DEF IInv, TypeOK, Dirs, DirInv, Sender
  <1>2. Lens \subseteq Nat /\ 0 \in Nat
    BY MaxMessagesAssumption
  <1>3. ASSUME NEW body \in Bodies, NEW len \in Nat,
               SealBy("request", client, body, len) \/ SealBy("reply", server, body, len)
        PROVE  \A d \in Dirs : Stutters(d) \/ Sends(d)
    BY <1>1, <1>3, SealSends
  <1>4. CASE ArriveAtClient
    BY <1>1, <1>4, UnsealAccepts DEF ArriveAtClient, ClientUnseal, Receiver
  <1>5. CASE ArriveAtServer
    BY <1>1, <1>5, UnsealAccepts DEF ArriveAtServer, ServerUnseal, Receiver
  <1>6. CASE UNCHANGED vars
    BY <1>6 DEF vars, Stutters
  <1>7. QED
    BY <1>2, <1>3, <1>4, <1>5, <1>6 DEF Next, ClientSeal, ClientSign, ServerSeal

\* Over any wire, the client accepts the server's replies in order, once each
\* and unaltered: the sealed channel implements the abstract one.
THEOREM RepliesRefine == Spec => RepliesInOrder
  <1>1. Init => Replies!Init
    BY DEF Init, Replies!Init, BodiesOf, Dirs
  <1>2. IInv /\ [Next]_vars => [Replies!Next]_(Replies!chanVars)
    BY ChannelStep DEF Stutters, Sends, Accepts, Dirs, Replies!Next, Replies!Send,
                       Replies!Accept, Replies!chanVars
  <1>3. QED BY <1>1, <1>2, Invariance, PTL DEF Spec, RepliesInOrder, Replies!Spec

\* The same towards the server, for what seal and sign produce.
THEOREM RequestsRefine == Spec => RequestsInOrder
  <1>1. Init => Requests!Init
    BY DEF Init, Requests!Init, BodiesOf, Dirs
  <1>2. IInv /\ [Next]_vars => [Requests!Next]_(Requests!chanVars)
    BY ChannelStep DEF Stutters, Sends, Accepts, Dirs, Requests!Next, Requests!Send,
                       Requests!Accept, Requests!chanVars
  <1>3. QED BY <1>1, <1>2, Invariance, PTL DEF Spec, RequestsInOrder, Requests!Spec

=============================================================================
