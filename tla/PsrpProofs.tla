------------------------------ MODULE PsrpProofs ------------------------------
(***************************************************************************)
(* Reassembler::feed returns whole messages only, and in order, for every set *)
(* of messages, size of fragments, order on the wire, cutting into pieces and *)
(* loss; and run_powershell, which gets its messages from it, closes its      *)
(* shell.                                                                    *)
(***************************************************************************)
EXTENDS PsrpReassembler, SequenceTheorems, TLAPS

\* The part of a message that its first k fragments carry, and what the next adds.
Prefix(o, k) == SubSeq(Payload[o], 1, Least(k * MaxPayload, Len(Payload[o])))
Blob(o, k)   == SubSeq(Payload[o], k * MaxPayload + 1,
                       Least((k + 1) * MaxPayload, Len(Payload[o])))

\* The messages sent in full, and the fragments sent.
Whole    == {Payload[o] : o \in {x \in Objects : sent[x] = Fragments(x)}}
Arrivals == UNION {{Fragment(o, k) : k \in 0 .. sent[o] - 1} : o \in Objects}

\* What is collected of a message is what its first fragments carry.
Collected(o, e) == e.next \in Nat /\ (e.started => e.bytes = Prefix(o, e.next))

Sending  == sent \in [Objects -> Nat] /\ \A o \in Objects : sent[o] <= Fragments(o)
Counted  == /\ wireLen \in Nat /\ fed \in Nat /\ used \in Nat /\ usedLen \in Nat
            /\ usedLen <= fed /\ fed <= wireLen
Partial  == /\ DOMAIN inFlight = Objects
            /\ \A o \in Objects : inFlight[o] # None => Collected(o, inFlight[o])

IInv == /\ Sending /\ Counted /\ Partial
        /\ wire \in Seq(Arrivals)
        /\ completed \in Seq(Whole) /\ returned \in Seq(Whole)

-----------------------------------------------------------------------------
(* Slices of a message.                                                      *)

LEMMA SlicesJoin ==
    ASSUME NEW S, NEW s \in Seq(S), NEW a \in Nat, NEW b \in Nat, a <= b
    PROVE  SubSeq(s, 1, Least(a, Len(s))) \o SubSeq(s, a + 1, Least(b, Len(s)))
               = SubSeq(s, 1, Least(b, Len(s)))
<1>1. CASE a >= Len(s)
  <2>1. SubSeq(s, 1, Least(a, Len(s))) = s /\ SubSeq(s, 1, Least(b, Len(s))) = s
    BY <1>1, SMT DEF Least
  <2>2. SubSeq(s, a + 1, Least(b, Len(s))) = <<>>
    BY <1>1, SMT DEF Least
  <2>3. s \o <<>> = s
    BY SMT
  <2>4. \A x, y, z : x = s /\ z = s /\ y = <<>> => x \o y = z
    BY <2>3, Zenon
  <2>. QED  BY <2>1, <2>2, <2>4, Zenon
<1>2. CASE a < Len(s)
  <2>1. PICK n : n = Least(b, Len(s))
    OBVIOUS
  <2>2. n \in Nat /\ a <= n /\ n <= Len(s) /\ Least(a, Len(s)) = a
    BY <1>2, <2>1, SMT DEF Least
  <2>3. SubSeq(s, 1, a) \o SubSeq(s, a + 1, n) = SubSeq(s, 1, n)
    BY <2>2, SMT
  <2>. QED  BY <2>1, <2>2, <2>3
<1>3. a >= Len(s) \/ a < Len(s)
  BY SMT
<1>. QED  BY <1>1, <1>2, <1>3, Zenon

LEMMA Sizes ==
    ASSUME NEW o \in Objects
    PROVE  /\ Payload[o] \in Seq(Bytes) /\ Len(Payload[o]) \in Nat
           /\ MaxPayload \in Nat /\ MaxPayload > 0 /\ HeaderLen \in Nat
  BY PsrpAssumption, SMT

LEMMA PrefixGrows ==
    ASSUME NEW o \in Objects, NEW k \in Nat
    PROVE  Prefix(o, k) \o Blob(o, k) = Prefix(o, k + 1)
<1>1. /\ k * MaxPayload \in Nat /\ (k + 1) * MaxPayload \in Nat
      /\ k * MaxPayload <= (k + 1) * MaxPayload
  <2>1. (k + 1) * MaxPayload = k * MaxPayload + MaxPayload /\ k * MaxPayload \in Nat
    BY Sizes, SMT
  <2>. QED  BY Sizes, <2>1, SMT
<1>. QED  BY Sizes, <1>1, SlicesJoin DEF Prefix, Blob

LEMMA PrefixEmpty == ASSUME NEW o \in Objects PROVE Prefix(o, 0) = <<>>
<1>1. Least(0 * MaxPayload, Len(Payload[o])) = 0
  BY Sizes, SMT DEF Least
<1>2. SubSeq(Payload[o], 1, 0) = <<>>
  BY Sizes, SMT
<1>. QED  BY <1>1, <1>2 DEF Prefix

\* A rounded-up quotient is enough.
LEMMA RoundedUp ==
    ASSUME NEW l \in Nat, NEW m \in Nat, l > 0, m > 0
    PROVE  /\ (l + m - 1) \div m \in Nat /\ (l + m - 1) \div m > 0
           /\ ((l + m - 1) \div m) * m >= l
<1>1. PICK a : a = l + m - 1
  OBVIOUS
<1>2. a \in Nat /\ a >= m
  BY <1>1, SMT
<1>3. PICK q : q = a \div m
  OBVIOUS
<1>4. q \in Int
  BY <1>2, <1>3, SMT
<1>5. a = m * q + (a % m) /\ a % m < m /\ a % m >= 0 /\ a % m \in Int
  BY <1>2, <1>3, Z3
<1>6. m * q \in Int /\ m * q >= l /\ m * q > 0
  <2>1. m * q \in Int
    BY <1>4, SMT
  <2>. QED  BY <1>1, <1>2, <1>5, <2>1, SMT
<1>7. q > 0 /\ q * m = m * q
  BY <1>4, <1>6, SMT
<1>. QED  BY <1>1, <1>3, <1>4, <1>6, <1>7, SMT

\* The fragments of a message, all together, carry it.
LEMMA FragmentsSuffice ==
    ASSUME NEW o \in Objects
    PROVE  Fragments(o) \in Nat /\ Fragments(o) > 0 /\ Prefix(o, Fragments(o)) = Payload[o]
<1>1. PICK n : n = Len(Payload[o])
  OBVIOUS
<1>2. Fragments(o) \in Nat /\ Fragments(o) > 0 /\ Fragments(o) * MaxPayload >= n
  <2>1. CASE Payload[o] = <<>>
    <3>1. n = 0 /\ Fragments(o) = 1
      BY <1>1, <2>1, SMT DEF Fragments
    <3>. QED  BY <3>1, Sizes, SMT
  <2>2. CASE Payload[o] # <<>>
    <3>1. n \in Nat /\ n > 0
      BY <1>1, <2>2, Sizes, SMT
    <3>2. Fragments(o) = (n + MaxPayload - 1) \div MaxPayload
      BY <1>1, <2>2 DEF Fragments
    <3>. QED  BY <3>1, <3>2, Sizes, RoundedUp
  <2>. QED  BY <2>1, <2>2
<1>3. PICK b : b = Fragments(o) * MaxPayload
  OBVIOUS
<1>4. b \in Nat /\ n \in Nat
  BY <1>1, <1>2, <1>3, Sizes, SMT
<1>5. Least(b, n) = n
  BY <1>2, <1>3, <1>4, SMT DEF Least
<1>6. SubSeq(Payload[o], 1, n) = Payload[o]
  BY <1>1, Sizes, SMT
<1>. QED  BY <1>1, <1>2, <1>3, <1>5, <1>6 DEF Prefix

-----------------------------------------------------------------------------
(* Fragments on the wire, and what is collected of them.                      *)

LEMMA FragmentFields ==
    ASSUME NEW o, NEW k
    PROVE  /\ Fragment(o, k).object = o /\ Fragment(o, k).id = k
           /\ Fragment(o, k).blob = Blob(o, k)
           /\ Fragment(o, k).start <=> k = 0
           /\ Fragment(o, k).end <=> k = Fragments(o) - 1
  BY Zenon DEF Fragment, Blob

LEMMA SizeNat ==
    ASSUME NEW o \in Objects, NEW k \in Nat
    PROVE  Size(Fragment(o, k)) \in Nat /\ Size(Fragment(o, k)) >= HeaderLen
<1>1. k * MaxPayload \in Nat /\ (k + 1) * MaxPayload \in Nat
  <2>1. k + 1 \in Nat
    OBVIOUS
  <2>. QED  BY <2>1, Sizes, SMT
<1>2. PICK a, b : a = k * MaxPayload + 1 /\ b = Least((k + 1) * MaxPayload, Len(Payload[o]))
  OBVIOUS
<1>3. a \in Nat /\ a >= 1 /\ b \in Nat /\ b <= Len(Payload[o])
  BY <1>1, <1>2, Sizes, SMT DEF Least
<1>4. Len(SubSeq(Payload[o], a, b)) \in Nat
  BY <1>3, Sizes, SMT
<1>5. Fragment(o, k).blob = SubSeq(Payload[o], a, b)
  BY <1>2, FragmentFields DEF Blob
<1>6. PICK l : l = Len(SubSeq(Payload[o], a, b))
  OBVIOUS
<1>7. HeaderLen + l \in Nat /\ HeaderLen + l >= HeaderLen
  <2>1. HeaderLen \in Nat /\ l \in Nat
    BY <1>4, <1>6, Sizes, Zenon
  <2>. QED  BY <2>1, SMT
<1>. QED  BY <1>5, <1>6, <1>7, Zenon DEF Size

\* The next fragment in the buffer is one the server sent.
LEMMA NextIsSent ==
    ASSUME IInv, WholeFragment
    PROVE  \E o \in Objects, k \in Nat : k < sent[o] /\ Next1 = Fragment(o, k)
<1>1. used + 1 \in 1 .. Len(wire)
  BY SMT DEF IInv, Counted, WholeFragment
<1>2. Next1 \in Arrivals
  BY <1>1, SMT DEF IInv, Next1
<1>3. PICK o \in Objects : Next1 \in {Fragment(o, k) : k \in 0 .. sent[o] - 1}
  BY <1>2, Zenon DEF Arrivals
<1>4. PICK k \in 0 .. sent[o] - 1 : Next1 = Fragment(o, k)
  BY <1>3, Zenon
<1>5. k \in Nat /\ k < sent[o]
  BY SMT DEF IInv, Sending
<1>. QED  BY <1>4, <1>5

LEMMA EntryCollected ==
    ASSUME IInv, NEW o \in Objects, NEW k \in Nat
    PROVE  Collected(o, Entry(Fragment(o, k)))
<1>. DEFINE f == Fragment(o, k)
            fresh == [bytes |-> <<>>, next |-> 0, started |-> FALSE]
            begun == [bytes |-> <<>>, next |-> 0, started |-> TRUE]
<1>1. f.object = o
  BY FragmentFields
<1>. HIDE DEF f
<1>2. 0 \in Nat
  OBVIOUS
<1>3. Collected(o, fresh)
  <2>1. fresh.next = 0 /\ ~fresh.started
    BY Zenon
  <2>. QED  BY <1>2, <2>1, Zenon DEF Collected
<1>4. Collected(o, begun)
  <2>1. begun.next = 0 /\ begun.bytes = <<>>
    BY Zenon
  <2>. QED  BY <1>2, <2>1, PrefixEmpty, Zenon DEF Collected
<1>5. Entry(f) = begun \/ Entry(f) = fresh \/ (inFlight[o] # None /\ Entry(f) = inFlight[o])
  BY <1>1, Zenon DEF Entry
<1>6. inFlight[o] # None => Collected(o, inFlight[o])
  BY DEF IInv, Partial
<1>7. Collected(o, Entry(f))
  BY <1>3, <1>4, <1>5, <1>6, Zenon
<1>. QED  BY <1>7 DEF f

\* The last fragment, taken in its turn, completes the message.
LEMMA LastCompletes ==
    ASSUME IInv, NEW o \in Objects, NEW k \in Nat, k < sent[o], k = Fragments(o) - 1
    PROVE  Prefix(o, k) \o Blob(o, k) \in Whole
<1>1. k + 1 = Fragments(o) /\ sent[o] = Fragments(o)
  BY FragmentsSuffice, SMT DEF IInv, Sending
<1>2. Prefix(o, k) \o Blob(o, k) = Payload[o]
  BY <1>1, PrefixGrows, FragmentsSuffice
<1>. QED  BY <1>1, <1>2, Zenon DEF Whole

LEMMA Extended ==
    ASSUME NEW S, NEW s \in Seq(S), NEW x \in S
    PROVE  Append(s, x) \in Seq(S)
  BY SMT

LEMMA Joined ==
    ASSUME NEW S, NEW s \in Seq(S), NEW u \in Seq(S)
    PROVE  s \o u \in Seq(S)
  BY SMT

LEMMA Wider ==
    ASSUME NEW S, NEW T, S \subseteq T, NEW s \in Seq(S)
    PROVE  s \in Seq(T)
  BY SMT

LEMMA NoneYet == ASSUME NEW S PROVE <<>> \in Seq(S)
  BY SMT

-----------------------------------------------------------------------------
(* The steps.                                                                *)

LEMMA InitIInv == Init => IInv
<1>. SUFFICES ASSUME Init PROVE IInv
  OBVIOUS
<1>1. Sending
  <2>1. \A o \in Objects : Fragments(o) \in Nat
    BY FragmentsSuffice
  <2>. QED  BY <2>1, SMT DEF Init, Sending
<1>2. Counted
  BY SMT DEF Init, Counted
<1>3. Partial
  BY Zenon DEF Init, Partial
<1>. QED  BY <1>1, <1>2, <1>3, NoneYet DEF IInv, Init

\* What was sent stays sent.
LEMMA SentKeeps ==
    ASSUME IInv, NEW o \in Objects, sent[o] < Fragments(o), sent' = [sent EXCEPT ![o] = @ + 1]
    PROVE  /\ Sending' /\ Whole \subseteq Whole' /\ Arrivals \subseteq Arrivals'
           /\ Fragment(o, sent[o]) \in Arrivals'
<1>1. \A u \in Objects : Fragments(u) \in Nat
  BY FragmentsSuffice
<1>2. Sending'
  BY <1>1, SMT DEF IInv, Sending
<1>3. \A u \in Objects : sent[u] \in Nat /\ sent[u] <= sent'[u] /\ (sent[u] = Fragments(u) => sent'[u] = Fragments(u))
  BY <1>1, SMT DEF IInv, Sending
<1>4. Whole \subseteq Whole'
  BY <1>3, Zenon DEF Whole
<1>5. \A u \in Objects : 0 .. sent[u] - 1 \subseteq 0 .. sent'[u] - 1
  BY <1>2, <1>3, SMT DEF Sending
<1>6. Arrivals \subseteq Arrivals'
  <2>1. ASSUME NEW u \in Objects, NEW f \in {Fragment(u, k) : k \in 0 .. sent[u] - 1}
        PROVE  f \in {Fragment(u, k) : k \in 0 .. sent'[u] - 1}
    BY <1>5, <2>1, Zenon
  <2>2. ASSUME NEW u \in Objects, NEW f, f \in {Fragment(u, k) : k \in 0 .. sent'[u] - 1}
        PROVE  f \in Arrivals'
    BY <2>2, Zenon DEF Arrivals
  <2>3. ASSUME NEW f \in Arrivals PROVE f \in Arrivals'
    <3>1. PICK u \in Objects : f \in {Fragment(u, k) : k \in 0 .. sent[u] - 1}
      BY <2>3, Zenon DEF Arrivals
    <3>. QED  BY <2>1, <2>2, <3>1
  <2>. QED  BY <2>3
<1>7. sent[o] \in 0 .. sent'[o] - 1
  BY SMT DEF IInv, Sending
<1>8. Fragment(o, sent[o]) \in Arrivals'
  <2>1. Fragment(o, sent[o]) \in {Fragment(o, k) : k \in 0 .. sent'[o] - 1}
    BY <1>7, Zenon
  <2>. QED  BY <2>1, Zenon DEF Arrivals
<1>. QED  BY <1>2, <1>4, <1>6, <1>8

LEMMA ServerKeeps ==
    ASSUME IInv, NEW o \in Objects, SendFragment(o) \/ LoseFragment(o)
    PROVE  IInv'
<1>. DEFINE f == Fragment(o, sent[o])
<1>1. sent[o] < Fragments(o) /\ sent' = [sent EXCEPT ![o] = @ + 1] /\ UNCHANGED client
  BY DEF SendFragment, LoseFragment
<1>2. /\ Sending' /\ Whole \subseteq Whole' /\ Arrivals \subseteq Arrivals' /\ f \in Arrivals'
  BY <1>1, SentKeeps
<1>3. Size(f) \in Nat
  BY SizeNat DEF IInv, Sending
<1>4. Partial' /\ completed' \in Seq(Whole') /\ returned' \in Seq(Whole')
  BY <1>1, <1>2, Wider DEF client, IInv, Partial, Collected
<1>5. \/ wire' = Append(wire, f) /\ wireLen' = wireLen + Size(f)
      \/ wire' = wire /\ wireLen' = wireLen
  BY DEF SendFragment, LoseFragment
<1>. HIDE DEF f
<1>6. Counted'
  BY <1>1, <1>3, <1>5, SMT DEF client, IInv, Counted
<1>7. wire' \in Seq(Arrivals')
  <2>1. wire \in Seq(Arrivals')
    BY <1>2, Wider DEF IInv
  <2>2. Append(wire, f) \in Seq(Arrivals')
    BY <1>2, <2>1, Extended
  <2>. QED  BY <1>5, <2>1, <2>2
<1>. QED  BY <1>2, <1>4, <1>6, <1>7 DEF IInv

LEMMA FeedKeeps ==
    ASSUME IInv, NEW n \in 1 .. wireLen, Feed(n)
    PROVE  IInv'
<1>1. Counted'
  BY SMT DEF Feed, IInv, Counted, server
<1>2. /\ Sending' /\ Partial' /\ Whole' = Whole /\ Arrivals' = Arrivals
      /\ UNCHANGED <<wire, completed, returned>>
  BY DEF Feed, server, IInv, Sending, Partial, Collected, Whole, Arrivals
<1>. QED  BY <1>1, <1>2 DEF IInv

\* What every step of the loop that takes a fragment leaves as it was.
LEMMA DrainKeeps ==
    ASSUME IInv, WholeFragment, Drained, UNCHANGED <<server, fed>>
    PROVE  /\ Sending' /\ Counted' /\ wire' \in Seq(Arrivals')
           /\ Whole' = Whole
<1>1. PICK o \in Objects, k \in Nat : Next1 = Fragment(o, k)
  BY NextIsSent
<1>2. Size(Next1) \in Nat
  BY <1>1, SizeNat
<1>3. Counted'
  BY <1>2, SMT DEF IInv, Counted, WholeFragment, Drained, Buffered, Next1, server
<1>. QED  BY <1>3 DEF IInv, Sending, Arrivals, Whole, server

\* An entry of in_flight is replaced by what is sound for its message, or removed.
LEMMA EntryKeeps ==
    ASSUME Partial, NEW o \in Objects, NEW e, e # None => Collected(o, e),
           inFlight' = [inFlight EXCEPT ![o] = e]
    PROVE  Partial'
<1>1. DOMAIN inFlight' = Objects
  BY DEF Partial
<1>2. ASSUME NEW u \in Objects, inFlight'[u] # None PROVE Collected(u, inFlight'[u])
  <2>1. CASE u = o
    BY <1>2, <2>1, Zenon DEF Partial
  <2>2. CASE u # o
    BY <1>2, <2>2, Zenon DEF Partial
  <2>. QED  BY <2>1, <2>2
<1>. QED  BY <1>1, <1>2 DEF Partial, Collected

LEMMA SingleKeeps == ASSUME IInv, TakeSingle PROVE IInv'
<1>1. /\ WholeFragment /\ Drained /\ Next1.start /\ Next1.end
      /\ completed' = Append(completed, Next1.blob)
      /\ UNCHANGED <<server, fed, inFlight, returned>>
  BY DEF TakeSingle
<1>2. PICK o \in Objects, k \in Nat : k < sent[o] /\ Next1 = Fragment(o, k)
  BY <1>1, NextIsSent
<1>3. k = 0 /\ k = Fragments(o) - 1 /\ Next1.blob = Blob(o, k)
  BY <1>1, <1>2, FragmentFields
<1>4. Prefix(o, k) \o Blob(o, k) \in Whole
  BY <1>2, <1>3, LastCompletes
<1>5. Prefix(o, k) \o Blob(o, k) = Blob(o, k)
  <2>1. Prefix(o, k) = <<>>
    BY <1>3, PrefixEmpty
  <2>2. <<>> \o Blob(o, k) = Blob(o, k)
    <3>1. Blob(o, k) \in Seq(Bytes)
      BY <1>3, Sizes, SMT DEF Blob, Least
    <3>. QED  BY <3>1, SMT
  <2>. QED  BY <2>1, <2>2
<1>6. /\ Sending' /\ Counted' /\ wire' \in Seq(Arrivals') /\ Whole' = Whole
  BY <1>1, DrainKeeps
<1>7. completed' \in Seq(Whole)
  BY <1>1, <1>3, <1>4, <1>5, Extended DEF IInv
<1>8. Partial'
  BY <1>1 DEF IInv, Partial, Collected
<1>. QED  BY <1>1, <1>6, <1>7, <1>8 DEF IInv

\* SkipOrphan and Mismatch store the entry as or_insert or the reset left it.
LEMMA StoredKeeps ==
    ASSUME IInv, WholeFragment, Drained, UNCHANGED <<server, fed, returned>>,
           inFlight' = [inFlight EXCEPT ![Next1.object] = Entry(Next1)],
           completed' = completed \/ completed' = <<>>
    PROVE  IInv'
<1>1. PICK o \in Objects, k \in Nat : Next1 = Fragment(o, k)
  BY NextIsSent
<1>2. Next1.object = o /\ Collected(o, Entry(Next1))
  BY <1>1, FragmentFields, EntryCollected
<1>3. PICK e : e = Entry(Next1)
  OBVIOUS
<1>4. Partial'
  BY <1>2, <1>3, EntryKeeps DEF IInv
<1>5. /\ Sending' /\ Counted' /\ wire' \in Seq(Arrivals') /\ Whole' = Whole
  BY DrainKeeps
<1>. QED  BY <1>4, <1>5, NoneYet DEF IInv

LEMMA PartKeeps == ASSUME IInv, TakePart PROVE IInv'
<1>. DEFINE e     == Entry(Next1)
            bytes == e.bytes \o Next1.blob
            more  == [bytes |-> bytes, next |-> e.next + 1, started |-> TRUE]
<1>1. /\ WholeFragment /\ Drained /\ e.started /\ Next1.id = e.next
      /\ UNCHANGED <<server, fed, returned>>
      /\ \/ /\ Next1.end
            /\ inFlight' = [inFlight EXCEPT ![Next1.object] = None]
            /\ completed' = Append(completed, bytes)
         \/ /\ inFlight' = [inFlight EXCEPT ![Next1.object] = more]
            /\ completed' = completed
  BY Zenon DEF TakePart, Expected
<1>2. PICK o \in Objects, k \in Nat : k < sent[o] /\ Next1 = Fragment(o, k)
  BY <1>1, NextIsSent
<1>3. Next1.object = o /\ Next1.id = k /\ Next1.blob = Blob(o, k)
      /\ (Next1.end => k = Fragments(o) - 1)
  BY <1>2, FragmentFields
<1>4. e.next = k /\ e.bytes = Prefix(o, k)
  BY <1>1, <1>2, <1>3, EntryCollected DEF Collected
<1>5. bytes = Prefix(o, k) \o Blob(o, k)
  BY <1>3, <1>4
<1>6. Collected(o, more)
  <2>1. more.next = e.next + 1 /\ more.bytes = bytes
    BY Zenon
  <2>2. k + 1 \in Nat
    OBVIOUS
  <2>. HIDE DEF more, bytes, e
  <2>. QED  BY <1>4, <1>5, <2>1, <2>2, PrefixGrows DEF Collected
<1>7. /\ Sending' /\ Counted' /\ wire' \in Seq(Arrivals') /\ Whole' = Whole
  BY <1>1, DrainKeeps
<1>. HIDE DEF more, bytes, e
<1>8. Partial'
  <2>1. PICK x : x \in {None, more} /\ inFlight' = [inFlight EXCEPT ![o] = x]
    BY <1>1, <1>3
  <2>. QED  BY <1>6, <2>1, EntryKeeps DEF IInv
<1>9. completed' \in Seq(Whole)
  BY <1>1, <1>2, <1>3, <1>5, LastCompletes, Extended DEF IInv
<1>. QED  BY <1>1, <1>7, <1>8, <1>9 DEF IInv

LEMMA ReturnKeeps == ASSUME IInv, Return PROVE IInv'
<1>1. /\ completed' = <<>> /\ UNCHANGED <<server, fed, used, usedLen, inFlight>>
      /\ returned' = returned \/ returned' = returned \o completed
  BY DEF Return
<1>2. /\ Sending' /\ Counted' /\ Partial' /\ Whole' = Whole /\ Arrivals' = Arrivals /\ wire' = wire
  BY <1>1 DEF server, IInv, Sending, Counted, Partial, Collected, Whole, Arrivals
<1>3. returned' \in Seq(Whole)
  BY <1>1, Joined DEF IInv
<1>. QED  BY <1>1, <1>2, <1>3, NoneYet DEF IInv

LEMMA NextIInv == IInv /\ [Next]_vars => IInv'
<1>. SUFFICES ASSUME IInv, [Next]_vars PROVE IInv'
  OBVIOUS
<1>1. CASE UNCHANGED vars
  BY <1>1 DEF vars, IInv, Sending, Counted, Partial, Collected, Whole, Arrivals
<1>2. CASE SkipOrphan \/ Mismatch
  BY <1>2, StoredKeeps DEF SkipOrphan, Mismatch
<1>. QED  BY <1>1, <1>2, ServerKeeps, FeedKeeps, SingleKeeps, PartKeeps, ReturnKeeps DEF Next

LEMMA WholeOnly == IInv => NeverGarbled
<1>. SUFFICES ASSUME IInv PROVE NeverGarbled
  OBVIOUS
<1>1. ASSUME NEW i \in 1 .. Len(returned)
      PROVE  \E o \in Objects : sent[o] = Fragments(o) /\ returned[i] = Payload[o]
  <2>1. returned[i] \in Whole
    BY SMT DEF IInv
  <2>. QED  BY <2>1, Zenon DEF Whole
<1>. QED  BY <1>1 DEF NeverGarbled, IInv, Counted

\* However messages are cut and mixed, lost in part, and handed over in pieces, a
\* message that feed returns is one that the server sent, whole, and feed takes
\* no byte that has not come (Reassembler::feed).
THEOREM MessagesAreWhole == Spec => []NeverGarbled
  BY InitIInv, NextIInv, WholeOnly, PTL DEF Spec

-----------------------------------------------------------------------------
(* Nothing lost: what is returned, and when.  The fragments of a message are   *)
(* on the wire in order, and the loop of feed is abreast of them.              *)

\* An end fragment of the message that was finished as the i-th.
EndsAt(i, p) == p \in 1 .. Len(wire) /\ wire[p].end /\ wire[p].object = ended[i]

\* The fragments of a message travel in order, and messages end in the order of
\* their last fragments.
Order == /\ used \in 0 .. Len(wire) /\ ended \in Seq(Objects)
         /\ \A p, q \in 1 .. Len(wire) :
               p < q /\ wire[p].object = wire[q].object => wire[p].id < wire[q].id
         /\ \A p \in 1 .. Len(wire) : wire[p].end => \E i \in 1 .. Len(ended) : EndsAt(i, p)
         /\ \A i \in 1 .. Len(ended) : \E p \in 1 .. Len(wire) : EndsAt(i, p)
         /\ \A i, j \in 1 .. Len(ended), p, q \in 1 .. Len(wire) :
               i < j /\ EndsAt(i, p) /\ EndsAt(j, q) => p < q

\* Bytes on the wire: the sum of what its fragments occupy, as offsets.
Offsets(off) ==
    /\ \A p \in 0 .. Len(wire) : off[p] \in Nat
    /\ \A p \in 1 .. Len(wire) : off[p] = off[p - 1] + Size(wire[p])
    /\ \A p, q \in 0 .. Len(wire) : p <= q => off[p] <= off[q]
    /\ off[Len(wire)] = wireLen /\ off[used] = usedLen

\* Between two calls of feed the buffer holds no whole fragment.
Resting == state = "waiting" => ~WholeFragment

\* The first k fragments of o have been taken, and in_flight holds what they carry.
TakenTo(o, k, u) == \A p \in 1 .. Len(wire) : wire[p].object = o => (p <= u <=> wire[p].id < k)
Holds(o, k) ==
    inFlight[o] = IF k = 0 \/ k = Fragments(o) THEN None
                  ELSE [bytes |-> Prefix(o, k), next |-> k, started |-> TRUE]

Arrived == \A o \in Objects : \A k \in 0 .. sent[o] - 1 :
               \E p \in 1 .. Len(wire) : wire[p] = Fragment(o, k)
Abreast == \A o \in Objects : \E k \in 0 .. sent[o] : TakenTo(o, k, used) /\ Holds(o, k)

\* The messages whose last fragment was taken are handed over, in their order.
Handed(all, u) ==
    /\ Len(all) <= Len(ended)
    /\ \A i \in 1 .. Len(all) : all[i] = Payload[ended[i]]
    /\ \A i \in 1 .. Len(ended), p \in 1 .. Len(wire) : EndsAt(i, p) => (p <= u <=> i <= Len(all))

Undisturbed == ~lost /\ \A i \in 1 .. Len(ended) : ended[i] \notin Undecodable

Prompt == Undisturbed => /\ state # "failed" /\ Arrived /\ Abreast
                         /\ Handed(returned \o completed, used)

InOrder == Order /\ (\E off : Offsets(off)) /\ Resting /\ Prompt

\* What a position of the wire holds.
LEMMA FragmentAt ==
    ASSUME IInv, NEW p \in 1 .. Len(wire)
    PROVE  /\ wire[p].object \in Objects /\ wire[p].id \in Nat /\ wire[p].id < sent[wire[p].object]
           /\ wire[p] = Fragment(wire[p].object, wire[p].id)
           /\ wire[p].start <=> wire[p].id = 0
           /\ wire[p].end <=> wire[p].id = Fragments(wire[p].object) - 1
           /\ Size(wire[p]) \in Nat /\ Size(wire[p]) >= HeaderLen /\ HeaderLen > 0
<1>1. wire[p] \in Arrivals
  BY SMT DEF IInv
<1>2. PICK o \in Objects : wire[p] \in {Fragment(o, k) : k \in 0 .. sent[o] - 1}
  BY <1>1, Zenon DEF Arrivals
<1>3. PICK k \in 0 .. sent[o] - 1 : wire[p] = Fragment(o, k)
  BY <1>2, Zenon
<1>4. k \in Nat /\ k < sent[o]
  BY SMT DEF IInv, Sending
<1>5. /\ wire[p].object = o /\ wire[p].id = k
      /\ wire[p].start <=> k = 0
      /\ wire[p].end <=> k = Fragments(o) - 1
  BY <1>3, FragmentFields
<1>6. Size(wire[p]) \in Nat /\ Size(wire[p]) >= HeaderLen /\ HeaderLen > 0
  <2>1. HeaderLen > 0
    BY PsrpAssumption, SMT
  <2>2. Size(Fragment(o, k)) \in Nat /\ Size(Fragment(o, k)) >= HeaderLen
    BY <1>4, SizeNat
  <2>. QED  BY <1>3, <2>1, <2>2
<1>. QED  BY <1>3, <1>4, <1>5, <1>6

\* Fragments taken in the order of the wire are taken in the order of their ids.
LEMMA InTurn ==
    ASSUME IInv, Order, Arrived, used < Len(wire), NEW k \in Nat,
           k <= sent[Next1.object], TakenTo(Next1.object, k, used)
    PROVE  Next1.id = k /\ TakenTo(Next1.object, k + 1, used + 1)
<1>. DEFINE o == Next1.object
<1>1. used + 1 \in 1 .. Len(wire) /\ Next1 = wire[used + 1] /\ used \in Nat
  BY SMT DEF Order, Next1
<1>2. o \in Objects /\ Next1.id \in Nat /\ Next1.id < sent[o] /\ sent[o] \in Nat
  BY <1>1, FragmentAt DEF IInv, Sending
<1>3. Next1.id >= k
  BY <1>1, <1>2, SMT DEF TakenTo
<1>. HIDE DEF o
<1>4. ASSUME Next1.id > k PROVE FALSE
  <2>1. k \in 0 .. sent[o] - 1
    BY <1>2, <1>4, SMT
  <2>2. PICK p \in 1 .. Len(wire) : wire[p] = Fragment(o, k)
    BY <1>2, <2>1 DEF Arrived
  <2>3. wire[p].object = o /\ wire[p].id = k
    BY <2>2, FragmentFields
  <2>4. ~(p <= used)
    BY <2>3, SMT DEF TakenTo, o
  <2>5. p # used + 1
    BY <1>1, <1>4, <2>3, SMT
  <2>6. wire[used + 1].id < wire[p].id
    BY <1>1, <2>3, <2>4, <2>5, SMT DEF Order, o
  <2>. QED  BY <1>1, <1>2, <1>4, <2>3, <2>6, SMT
<1>5. Next1.id = k
  BY <1>2, <1>3, <1>4, SMT
<1>6. ASSUME NEW p \in 1 .. Len(wire), wire[p].object = o
      PROVE  p <= used + 1 <=> wire[p].id < k + 1
  <2>1. wire[p].id \in Nat
    BY FragmentAt
  <2>2. p <= used <=> wire[p].id < k
    BY <1>6 DEF TakenTo, o
  <2>3. CASE p > used + 1
    <3>1. wire[used + 1].object = wire[p].object
      BY <1>1, <1>6 DEF o
    <3>2. wire[used + 1].id < wire[p].id
      BY <1>1, <2>3, <3>1, SMT DEF Order
    <3>. QED  BY <1>1, <1>5, <2>1, <2>3, <3>2, SMT
  <2>. QED  BY <1>1, <1>5, <2>1, <2>2, <2>3, SMT
<1>. QED  BY <1>5, <1>6 DEF TakenTo, o

\* The other messages are where they were.
LEMMA OthersWait ==
    ASSUME IInv, Order, used < Len(wire), NEW o, o # Next1.object, NEW k, TakenTo(o, k, used)
    PROVE  TakenTo(o, k, used + 1)
<1>1. used \in Nat /\ Next1 = wire[used + 1]
  BY SMT DEF Order, Next1
<1>2. ASSUME NEW p \in 1 .. Len(wire), wire[p].object = o
      PROVE  p <= used + 1 <=> wire[p].id < k
  <2>1. p # used + 1
    BY <1>1, <1>2
  <2>2. p <= used <=> wire[p].id < k
    BY <1>2 DEF TakenTo
  <2>. QED  BY <1>1, <2>1, <2>2, SMT
<1>. QED  BY <1>2 DEF TakenTo

\* The next message to end is the one after those handed over, and a fragment
\* that ends none leaves them as they are.
LEMMA HandedNext ==
    ASSUME IInv, Order, used < Len(wire), Next1.end,
           NEW all \in Seq(Whole), Handed(all, used)
    PROVE  Handed(Append(all, Payload[Next1.object]), used + 1)
<1>. DEFINE n == Len(all)
            more == Append(all, Payload[Next1.object])
<1>1. used + 1 \in 1 .. Len(wire) /\ Next1 = wire[used + 1] /\ used \in Nat /\ Len(wire) \in Nat
  BY SMT DEF Order, Next1
<1>2. n \in Nat /\ Len(ended) \in Nat /\ n <= Len(ended)
  BY SMT DEF Handed, Order
<1>3. /\ Len(more) = n + 1 /\ more[n + 1] = Payload[Next1.object]
      /\ \A i \in 1 .. n : more[i] = all[i]
  BY SMT
<1>4. PICK i \in 1 .. Len(ended) : EndsAt(i, used + 1)
  BY <1>1 DEF Order
<1>. HIDE DEF n, more
<1>5. i > n
  <2>1. ~(i <= n)
    BY <1>1, <1>4, SMT DEF Handed, n
  <2>. QED  BY <1>2, <2>1, SMT
<1>6. ASSUME i > n + 1 PROVE FALSE
  <2>1. n + 1 \in 1 .. Len(ended) /\ n + 1 < i
    BY <1>2, <1>6, SMT
  <2>2. PICK p \in 1 .. Len(wire) : EndsAt(n + 1, p)
    BY <2>1 DEF Order
  <2>3. p < used + 1
    BY <1>1, <1>4, <2>1, <2>2 DEF Order
  <2>4. p <= used <=> n + 1 <= n
    BY <2>1, <2>2 DEF Handed, n
  <2>. QED  BY <1>1, <1>2, <2>3, <2>4, SMT
<1>7. i = n + 1
  BY <1>2, <1>5, <1>6, SMT
<1>8. Payload[ended[n + 1]] = Payload[Next1.object]
  BY <1>1, <1>4, <1>7 DEF EndsAt
<1>9. \A j \in 1 .. n + 1 : more[j] = Payload[ended[j]]
  <2>1. \A j \in 1 .. n : all[j] = Payload[ended[j]]
    BY DEF Handed, n
  <2>2. \A j \in 1 .. n + 1 : j \in 1 .. n \/ j = n + 1
    BY <1>2, SMT
  <2>. QED  BY <1>3, <1>8, <2>1, <2>2
<1>10. ASSUME NEW j \in 1 .. Len(ended), NEW p \in 1 .. Len(wire), EndsAt(j, p)
       PROVE  p <= used + 1 <=> j <= n + 1
  <2>1. p <= used <=> j <= n
    BY <1>10 DEF Handed, n
  <2>2. CASE p = used + 1
    <3>1. ~(j < i) /\ ~(i < j)
      BY <1>1, <1>4, <1>10, <2>2, SMT DEF Order
    <3>. QED  BY <1>7, <2>2, <3>1, <1>2, SMT
  <2>3. CASE p > used + 1
    <3>1. j # n + 1
      <4>1. ASSUME j = n + 1 PROVE FALSE
        <5>1. wire[used + 1].object = wire[p].object /\ wire[p].end /\ wire[used + 1].end
          BY <1>4, <1>7, <1>10, <4>1 DEF EndsAt
        <5>2. wire[used + 1].id = wire[p].id
          BY <1>1, <5>1, FragmentAt
        <5>3. wire[used + 1].id < wire[p].id /\ wire[p].id \in Nat
          BY <1>1, <2>3, <5>1, FragmentAt, SMT DEF Order
        <5>. QED  BY <5>2, <5>3, SMT
      <4>. QED  BY <4>1
    <3>. QED  BY <1>1, <1>2, <2>1, <2>3, <3>1, SMT
  <2>4. CASE p <= used
    BY <1>1, <1>2, <2>1, <2>4, SMT
  <2>. QED  BY <1>1, <2>2, <2>3, <2>4, SMT
<1>11. n + 1 <= Len(ended)
  BY <1>2, <1>7, SMT
<1>. QED  BY <1>3, <1>9, <1>10, <1>11 DEF Handed, more

LEMMA HandedSame ==
    ASSUME IInv, Order, used < Len(wire), ~Next1.end, NEW all, Handed(all, used)
    PROVE  Handed(all, used + 1)
<1>1. used \in Nat /\ Next1 = wire[used + 1]
  BY SMT DEF Order, Next1
<1>2. ASSUME NEW i \in 1 .. Len(ended), NEW p \in 1 .. Len(wire), EndsAt(i, p)
      PROVE  p <= used + 1 <=> i <= Len(all)
  <2>1. p # used + 1
    BY <1>1, <1>2 DEF EndsAt
  <2>2. p <= used <=> i <= Len(all)
    BY <1>2 DEF Handed
  <2>. QED  BY <1>1, <2>1, <2>2, SMT
<1>. QED  BY <1>2 DEF Handed

-----------------------------------------------------------------------------
(* The loop of feed, with nothing lost: what it finds, and what it leaves.     *)

Partway(o, k) == [bytes |-> Prefix(o, k), next |-> k, started |-> TRUE]

LEMMA PartwayIsNotNone ==
    ASSUME NEW o \in Objects, NEW k \in Nat
    PROVE  Partway(o, k) # None
<1>1. Prefix(o, k) \in Seq(Bytes)
  <2>1. PICK n : n = k * MaxPayload
    OBVIOUS
  <2>2. n \in Nat
    BY <2>1, Sizes, SMT
  <2>3. SubSeq(Payload[o], 1, Least(n, Len(Payload[o]))) \in Seq(Bytes)
    BY <2>2, Sizes, SMT DEF Least
  <2>. QED  BY <2>1, <2>3 DEF Prefix
<1>2. Partway(o, k) \in [bytes : Seq(Bytes), next : Nat, started : BOOLEAN]
  BY <1>1, Zenon DEF Partway
<1>. QED  BY <1>2, PsrpAssumption

LEMMA PartwayFields ==
    ASSUME NEW o, NEW k
    PROVE  Partway(o, k).bytes = Prefix(o, k) /\ Partway(o, k).next = k /\ Partway(o, k).started
  BY Zenon DEF Partway

LEMMA OrderKeeps ==
    ASSUME Order, UNCHANGED <<wire, ended>>, used' \in 0 .. Len(wire)
    PROVE  Order'
<1>1. \A i, p : EndsAt(i, p)' <=> EndsAt(i, p)
  BY Zenon DEF EndsAt
<1>. QED  BY <1>1, Zenon DEF Order

\* The fragment to be taken is the one its message is waiting for.
LEMMA Awaited ==
    ASSUME IInv, InOrder, Undisturbed, WholeFragment
    PROVE  \E o \in Objects, k \in Nat :
              /\ Next1 = Fragment(o, k) /\ Next1.object = o
              /\ k + 1 \in 0 .. sent[o] /\ TakenTo(o, k + 1, used + 1)
              /\ Holds(o, k) /\ Entry(Next1) = Partway(o, k)
<1>. DEFINE o == Next1.object
<1>1. used + 1 \in 1 .. Len(wire) /\ used < Len(wire) /\ Next1 = wire[used + 1]
  BY SMT DEF InOrder, Order, WholeFragment, Next1
<1>2. /\ o \in Objects /\ Next1.id \in Nat /\ Next1.id < sent[o] /\ Next1 = Fragment(o, Next1.id)
      /\ Next1.start <=> Next1.id = 0
  BY <1>1, FragmentAt
<1>3. sent[o] \in Nat /\ sent[o] <= Fragments(o)
  BY <1>2 DEF IInv, Sending
<1>4. PICK k \in 0 .. sent[o] : TakenTo(o, k, used) /\ Holds(o, k)
  BY <1>2 DEF InOrder, Prompt, Abreast
<1>5. k \in Nat /\ k <= sent[o]
  BY <1>3, SMT
<1>6. Next1.id = k /\ TakenTo(o, k + 1, used + 1)
  BY <1>1, <1>4, <1>5, InTurn DEF InOrder, Prompt
<1>7. k + 1 \in 0 .. sent[o] /\ k # Fragments(o)
  BY <1>2, <1>3, <1>5, <1>6, SMT
<1>8. Entry(Next1) = Partway(o, k)
  <2>1. CASE k = 0
    <3>1. Entry(Next1) = [bytes |-> <<>>, next |-> 0, started |-> TRUE]
      BY <1>2, <1>6, <2>1, Zenon DEF Entry
    <3>. QED  BY <1>2, <2>1, <3>1, PrefixEmpty DEF Partway
  <2>2. CASE k # 0
    <3>1. inFlight[o] = Partway(o, k)
      BY <1>4, <1>7, <2>2 DEF Holds, Partway
    <3>2. inFlight[o] # None
      BY <1>2, <1>5, <3>1, PartwayIsNotNone
    <3>. QED  BY <1>2, <1>6, <2>2, <3>1, <3>2, Zenon DEF Entry
  <2>. QED  BY <2>1, <2>2
<1>. QED  BY <1>2, <1>4, <1>5, <1>6, <1>7, <1>8

\* A step that takes the fragment its message waits for leaves things in order.
LEMMA DrainInOrder ==
    ASSUME IInv, InOrder, WholeFragment, Drained, UNCHANGED <<server, fed, returned>>,
           state' # "waiting",
           ASSUME Undisturbed, NEW o \in Objects, NEW k \in Nat, Next1 = Fragment(o, k),
                  k + 1 \in 0 .. sent[o], Holds(o, k), Entry(Next1) = Partway(o, k)
           PROVE  /\ state' # "failed" /\ Holds(o, k + 1)'
                  /\ \A u \in Objects \ {o} : inFlight'[u] = inFlight[u]
                  /\ completed' = IF Next1.end THEN Append(completed, Payload[o]) ELSE completed
    PROVE  InOrder'
<1>1. /\ used' = used + 1 /\ usedLen' = usedLen + Size(Next1) /\ UNCHANGED server
      /\ used < Len(wire) /\ used + 1 \in 1 .. Len(wire) /\ Next1 = wire[used + 1] /\ used \in Nat
  BY SMT DEF Drained, WholeFragment, InOrder, Order, Next1
<1>2. Order'
  <2>1. used' \in 0 .. Len(wire)
    BY <1>1, SMT
  <2>. QED  BY <1>1, <2>1, OrderKeeps DEF InOrder, server
<1>3. \E off : Offsets(off)'
  <2>1. PICK off : Offsets(off)
    BY DEF InOrder
  <2>2. off[used + 1] = off[used] + Size(wire[used + 1])
    <3>1. off[used + 1] = off[used + 1 - 1] + Size(wire[used + 1]) /\ used + 1 - 1 = used
      BY <1>1, <2>1, SMT DEF Offsets
    <3>. QED  BY <3>1
  <2>3. off[used'] = usedLen'
    BY <1>1, <2>1, <2>2 DEF Offsets
  <2>. QED  BY <1>1, <2>1, <2>3 DEF Offsets, server
<1>4. Resting'
  BY DEF Resting
<1>5. ASSUME Undisturbed'
      PROVE  state' # "failed" /\ Arrived' /\ Abreast' /\ Handed(returned \o completed, used)'
  <2>1. Undisturbed
    BY <1>1, <1>5 DEF Undisturbed, server
  <2>2. PICK o \in Objects, k \in Nat :
              /\ Next1 = Fragment(o, k) /\ Next1.object = o
              /\ k + 1 \in 0 .. sent[o] /\ TakenTo(o, k + 1, used + 1)
              /\ Holds(o, k) /\ Entry(Next1) = Partway(o, k)
    BY <2>1, Awaited
  <2>3. /\ state' # "failed" /\ Holds(o, k + 1)'
        /\ \A u \in Objects \ {o} : inFlight'[u] = inFlight[u]
        /\ completed' = IF Next1.end THEN Append(completed, Payload[o]) ELSE completed
    BY <2>1, <2>2
  <2>4. Arrived'
    BY <1>1, <2>1 DEF InOrder, Prompt, Arrived, server
  <2>5. ASSUME NEW u \in Objects
        PROVE  \E n \in 0 .. sent[u] : TakenTo(u, n, used + 1) /\ Holds(u, n)'
    <3>1. CASE u = o
      BY <2>2, <2>3, <3>1
    <3>2. CASE u # o
      <4>1. PICK n \in 0 .. sent[u] : TakenTo(u, n, used) /\ Holds(u, n)
        BY <2>1 DEF InOrder, Prompt, Abreast
      <4>2. TakenTo(u, n, used + 1)
        BY <1>1, <2>2, <3>2, <4>1, OthersWait DEF InOrder
      <4>3. Holds(u, n)'
        BY <2>3, <3>2, <4>1 DEF Holds
      <4>. QED  BY <4>2, <4>3
    <3>. QED  BY <3>1, <3>2
  <2>6. Abreast'
    BY <1>1, <2>5 DEF Abreast, TakenTo, server
  <2>7. Handed(returned \o completed, used) /\ returned \o completed \in Seq(Whole)
    BY <2>1, Joined DEF InOrder, Prompt, IInv
  <2>8. Handed(returned' \o completed', used + 1)
    <3>1. CASE Next1.end
      <4>1. returned \o Append(completed, Payload[o]) = Append(returned \o completed, Payload[o])
        <5>1. Payload[o] \in Whole
          <6>1. k + 1 = Fragments(o)
            BY <2>2, <3>1, FragmentFields, FragmentsSuffice, SMT
          <6>2. sent[o] = Fragments(o)
            BY <2>2, <6>1, SMT DEF IInv, Sending
          <6>. QED  BY <6>2, Zenon DEF Whole
        <5>. QED  BY <5>1, SMT DEF IInv
      <4>2. Handed(Append(returned \o completed, Payload[Next1.object]), used + 1)
        BY <1>1, <2>7, <3>1, HandedNext DEF InOrder
      <4>. QED  BY <2>2, <2>3, <3>1, <4>1, <4>2
    <3>2. CASE ~Next1.end
      <4>1. Handed(returned \o completed, used + 1)
        BY <1>1, <2>7, <3>2, HandedSame DEF InOrder
      <4>. QED  BY <2>3, <3>2, <4>1
    <3>. QED  BY <3>1, <3>2
  <2>9. Handed(returned \o completed, used)'
    BY <1>1, <2>8 DEF Handed, EndsAt, server
  <2>. QED  BY <2>3, <2>4, <2>6, <2>9
<1>6. Prompt'
  BY <1>5 DEF Prompt
<1>. QED  BY <1>2, <1>3, <1>4, <1>6 DEF InOrder

LEMMA SingleInOrder == ASSUME IInv, InOrder, TakeSingle PROVE InOrder'
<1>1. /\ WholeFragment /\ Drained /\ Next1.start /\ Next1.end /\ state = "feeding"
      /\ completed' = Append(completed, Next1.blob)
      /\ UNCHANGED <<server, fed, inFlight, returned, state>>
  BY DEF TakeSingle
<1>2. ASSUME NEW o \in Objects, NEW k \in Nat, Next1 = Fragment(o, k), Holds(o, k)
      PROVE  Holds(o, k + 1)' /\ completed' = Append(completed, Payload[o])
  <2>1. k = 0 /\ k + 1 = Fragments(o) /\ Next1.blob = Blob(o, k)
    BY <1>1, <1>2, FragmentFields, FragmentsSuffice, SMT
  <2>2. Blob(o, k) = Payload[o]
    <3>1. Prefix(o, k) \o Blob(o, k) = Payload[o]
      BY <2>1, PrefixGrows, FragmentsSuffice
    <3>2. Prefix(o, k) = <<>>
      BY <2>1, PrefixEmpty
    <3>3. Blob(o, k) \in Seq(Bytes)
      BY <2>1, Sizes, SMT DEF Blob, Least
    <3>4. <<>> \o Blob(o, k) = Blob(o, k)
      BY <3>3, SMT
    <3>. QED  BY <3>1, <3>2, <3>4
  <2>3. inFlight[o] = None
    BY <1>2, <2>1 DEF Holds
  <2>. QED  BY <1>1, <2>1, <2>2, <2>3 DEF Holds
<1>. QED  BY <1>1, <1>2, DrainInOrder

LEMMA PartInOrder == ASSUME IInv, InOrder, TakePart PROVE InOrder'
<1>. DEFINE bytes == Entry(Next1).bytes \o Next1.blob
            more  == [bytes |-> bytes, next |-> Entry(Next1).next + 1, started |-> TRUE]
<1>1. /\ WholeFragment /\ Drained /\ state = "feeding"
      /\ UNCHANGED <<server, fed, returned, state>>
      /\ Next1.end => /\ inFlight' = [inFlight EXCEPT ![Next1.object] = None]
                      /\ completed' = Append(completed, bytes)
      /\ ~Next1.end => /\ inFlight' = [inFlight EXCEPT ![Next1.object] = more]
                       /\ completed' = completed
  BY Zenon DEF TakePart
<1>2. ASSUME NEW o \in Objects, NEW k \in Nat, Next1 = Fragment(o, k),
             k + 1 \in 0 .. sent[o], Entry(Next1) = Partway(o, k)
      PROVE  /\ Holds(o, k + 1)' /\ \A u \in Objects \ {o} : inFlight'[u] = inFlight[u]
             /\ completed' = IF Next1.end THEN Append(completed, Payload[o]) ELSE completed
  <2>1. /\ Next1.object = o /\ Next1.blob = Blob(o, k) /\ Fragments(o) \in Nat
        /\ (Next1.end <=> k + 1 = Fragments(o))
    BY <1>2, FragmentFields, FragmentsSuffice, SMT
  <2>2. bytes = Prefix(o, k + 1) /\ Entry(Next1).next = k
    <3>1. Entry(Next1).bytes = Prefix(o, k) /\ Entry(Next1).next = k
      BY <1>2, PartwayFields
    <3>2. bytes = Prefix(o, k) \o Blob(o, k)
      BY <2>1, <3>1
    <3>. QED  BY <3>1, <3>2, PrefixGrows
  <2>3. more = [bytes |-> Prefix(o, k + 1), next |-> k + 1, started |-> TRUE]
    BY <2>2
  <2>. HIDE DEF more, bytes
  <2>4. DOMAIN inFlight = Objects
    BY DEF IInv, Partial
  <2>5. CASE Next1.end
    BY <1>1, <2>1, <2>2, <2>4, <2>5, FragmentsSuffice DEF Holds
  <2>6. CASE ~Next1.end
    <3>1. k + 1 # 0 /\ k + 1 # Fragments(o)
      BY <2>1, <2>6, SMT
    <3>. QED  BY <1>1, <2>1, <2>3, <2>4, <2>6, <3>1 DEF Holds
  <2>. QED  BY <2>5, <2>6
<1>. QED  BY <1>1, <1>2, DrainInOrder

\* With nothing lost, no fragment is an orphan and none out of its turn.
LEMMA AstrayInOrder == ASSUME IInv, InOrder, SkipOrphan \/ Mismatch PROVE InOrder'
<1>1. /\ WholeFragment /\ Drained /\ UNCHANGED <<server, fed, returned>> /\ state' # "waiting"
      /\ ~Entry(Next1).started \/ Next1.id # Entry(Next1).next
  BY Zenon DEF SkipOrphan, Mismatch, Expected
<1>2. ASSUME NEW o \in Objects, NEW k \in Nat, Next1 = Fragment(o, k), Entry(Next1) = Partway(o, k)
      PROVE  FALSE
  <2>1. Next1.id = k
    BY <1>2, FragmentFields
  <2>2. Entry(Next1).started /\ Entry(Next1).next = k
    BY <1>2, PartwayFields
  <2>. QED  BY <1>1, <2>1, <2>2
<1>. QED  BY <1>1, <1>2, DrainInOrder

\* Every message handed over decodes, so nothing is dropped.
LEMMA ReturnInOrder == ASSUME IInv, InOrder, Return PROVE InOrder'
<1>1. /\ ~WholeFragment /\ completed' = <<>> /\ UNCHANGED <<server, fed, used, usedLen, inFlight>>
  BY DEF Return
<1>2. Order' /\ (\E off : Offsets(off)') /\ Resting'
  <2>1. Order'
    BY <1>1, OrderKeeps DEF InOrder, Order, server
  <2>2. \E off : Offsets(off)'
    BY <1>1 DEF InOrder, Offsets, server
  <2>3. Resting'
    BY <1>1 DEF Resting, WholeFragment, Buffered, server
  <2>. QED  BY <2>1, <2>2, <2>3
<1>3. ASSUME Undisturbed'
      PROVE  state' # "failed" /\ Arrived' /\ Abreast' /\ Handed(returned \o completed, used)'
  <2>1. Undisturbed
    BY <1>1, <1>3 DEF Undisturbed, server
  <2>2. Handed(returned \o completed, used)
    BY <2>1 DEF InOrder, Prompt
  <2>3. ASSUME NEW i \in 1 .. Len(completed) PROVE Decodes(completed[i])
    <3>1. PICK j : j = Len(returned) + i
      OBVIOUS
    <3>2. j \in 1 .. Len(returned \o completed) /\ (returned \o completed)[j] = completed[i]
      BY <3>1, SMT DEF IInv
    <3>3. completed[i] = Payload[ended[j]] /\ j \in 1 .. Len(ended)
      <4>1. Len(returned \o completed) \in Nat /\ Len(ended) \in Nat
        BY SMT DEF IInv, InOrder, Order
      <4>2. j \in 1 .. Len(ended)
        BY <2>2, <3>2, <4>1, SMT DEF Handed
      <4>. QED  BY <2>2, <3>2, <4>2 DEF Handed
    <3>4. ended[j] \in Objects \ Undecodable
      BY <2>1, <3>3, SMT DEF Undisturbed, InOrder, Order
    <3>. QED  BY <3>3, <3>4, PsrpAssumption DEF Decodes
  <2>4. returned' = returned \o completed /\ state' = "waiting"
    BY <2>3 DEF Return
  <2>5. returned' \o completed' = returned \o completed
    <3>1. returned \o completed \in Seq(Whole)
      BY Joined DEF IInv
    <3>. QED  BY <1>1, <2>4, <3>1, SMT
  <2>6. Handed(returned \o completed, used)'
    BY <1>1, <2>2, <2>5 DEF Handed, EndsAt, server
  <2>. QED  BY <1>1, <2>1, <2>4, <2>6 DEF InOrder, Prompt, Arrived, Abreast, TakenTo, Holds, server
<1>. QED  BY <1>2, <1>3 DEF InOrder, Prompt

-----------------------------------------------------------------------------
(* The server's steps, and the whole.                                        *)

\* Where the messages end once a fragment was sent.
LEMMA SendEnds ==
    ASSUME IInv, Order, NEW o \in Objects, SendFragment(o),
           NEW i \in 1 .. Len(ended'), NEW p \in 1 .. Len(wire')
    PROVE  \/ i \in 1 .. Len(ended) /\ p \in 1 .. Len(wire) /\ (EndsAt(i, p)' <=> EndsAt(i, p))
           \/ i = Len(ended) + 1 /\ p = Len(wire) + 1 /\ EndsAt(i, p)'
           \/ (i = Len(ended) + 1 <=> p # Len(wire) + 1) /\ ~EndsAt(i, p)'
<1>. DEFINE f == Fragment(o, sent[o])
<1>1. /\ sent[o] < Fragments(o) /\ wire' = Append(wire, f)
      /\ ended' = IF f.end THEN Append(ended, o) ELSE ended
  BY DEF SendFragment
<1>2. f.object = o /\ (f.end <=> sent[o] = Fragments(o) - 1)
  BY FragmentFields
<1>. HIDE DEF f
<1>3. wire \in Seq(Arrivals) /\ ended \in Seq(Objects) /\ Len(wire) \in Nat /\ Len(ended) \in Nat
  BY SMT DEF IInv, Order
<1>4. /\ p \in 1 .. Len(wire) => wire'[p] = wire[p]
      /\ p \in 1 .. Len(wire) \/ p = Len(wire) + 1
      /\ wire'[Len(wire) + 1] = f
  BY <1>1, <1>3, SMT
<1>5. /\ i \in 1 .. Len(ended) => ended'[i] = ended[i]
      /\ i \in 1 .. Len(ended) \/ (i = Len(ended) + 1 /\ f.end /\ ended'[i] = o)
  <2>1. CASE f.end
    BY <1>1, <1>3, <2>1, SMT
  <2>2. CASE ~f.end
    BY <1>1, <1>3, <2>2, SMT
  <2>. QED  BY <2>1, <2>2
<1>6. ASSUME NEW q \in 1 .. Len(wire), wire[q].object = o, wire[q].end, f.end
      PROVE  FALSE
  <2>1. wire[q].id < sent[o] /\ wire[q].id = Fragments(o) - 1
    BY <1>6, FragmentAt
  <2>2. sent[o] \in Nat
    BY DEF IInv, Sending
  <2>. QED  BY <1>2, <1>6, <2>1, <2>2, SMT
<1>7. CASE i \in 1 .. Len(ended) /\ p \in 1 .. Len(wire)
  BY <1>4, <1>5, <1>7 DEF EndsAt
<1>8. CASE i \in 1 .. Len(ended) /\ p = Len(wire) + 1
  <2>1. ASSUME EndsAt(i, p)' PROVE FALSE
    <3>1. f.end /\ f.object = ended[i]
      BY <1>4, <1>5, <1>8, <2>1 DEF EndsAt
    <3>2. PICK q \in 1 .. Len(wire) : EndsAt(i, q)
      BY <1>8 DEF Order
    <3>. QED  BY <1>2, <1>6, <3>1, <3>2 DEF EndsAt
  <2>2. i # Len(ended) + 1
    BY <1>3, <1>8, SMT
  <2>. QED  BY <1>8, <2>1, <2>2
<1>9. CASE i = Len(ended) + 1 /\ p \in 1 .. Len(wire)
  <2>1. i \notin 1 .. Len(ended) /\ p # Len(wire) + 1
    BY <1>3, <1>9, SMT
  <2>2. ASSUME EndsAt(i, p)' PROVE FALSE
    <3>1. wire[p].end /\ wire[p].object = o /\ f.end
      BY <1>4, <1>5, <1>9, <2>1, <2>2 DEF EndsAt
    <3>. QED  BY <1>6, <1>9, <3>1
  <2>. QED  BY <1>9, <2>1, <2>2
<1>10. CASE i = Len(ended) + 1 /\ p = Len(wire) + 1
  <2>1. i \notin 1 .. Len(ended)
    BY <1>3, <1>10, SMT
  <2>. QED  BY <1>2, <1>4, <1>5, <1>10, <2>1 DEF EndsAt
<1>. QED  BY <1>4, <1>5, <1>7, <1>8, <1>9, <1>10

LEMMA SendKeepsOrder ==
    ASSUME IInv, Order, NEW o \in Objects, SendFragment(o)
    PROVE  Order'
<1>. DEFINE f == Fragment(o, sent[o])
            n == Len(wire)
            e == Len(ended)
<1>1. /\ sent[o] < Fragments(o) /\ wire' = Append(wire, f) /\ used' = used
      /\ ended' = IF f.end THEN Append(ended, o) ELSE ended
  BY DEF SendFragment, client
<1>2. f.object = o /\ f.id = sent[o] /\ (f.end <=> sent[o] = Fragments(o) - 1)
  BY FragmentFields
<1>. HIDE DEF f
<1>3. wire \in Seq(Arrivals) /\ ended \in Seq(Objects) /\ n \in Nat /\ e \in Nat /\ used \in 0 .. n
  BY SMT DEF IInv, Order
<1>4. /\ Len(wire') = n + 1 /\ wire'[n + 1] = f /\ \A p \in 1 .. n : wire'[p] = wire[p]
      /\ \A p \in 1 .. n + 1 : p \in 1 .. n \/ p = n + 1
      /\ 1 .. n \subseteq 1 .. n + 1 /\ n + 1 \in 1 .. n + 1 /\ n + 1 \notin 1 .. n
  BY <1>1, <1>3, SMT
<1>5. /\ ended' \in Seq(Objects) /\ 1 .. e \subseteq 1 .. Len(ended') /\ e + 1 \notin 1 .. e
      /\ f.end => Len(ended') = e + 1 /\ e + 1 \in 1 .. e + 1
      /\ ~f.end => ended' = ended
      /\ \A i \in 1 .. Len(ended') : i \in 1 .. e \/ (i = e + 1 /\ f.end)
  <2>1. CASE f.end
    BY <1>1, <1>3, <2>1, SMT
  <2>2. CASE ~f.end
    BY <1>1, <1>3, <2>2, SMT
  <2>. QED  BY <2>1, <2>2
<1>6. \A i \in 1 .. Len(ended'), p \in 1 .. n + 1 :
          \/ i \in 1 .. e /\ p \in 1 .. n /\ (EndsAt(i, p)' <=> EndsAt(i, p))
          \/ i = e + 1 /\ p = n + 1 /\ EndsAt(i, p)'
          \/ (i = e + 1 <=> p # n + 1) /\ ~EndsAt(i, p)'
  BY <1>4, SendEnds
<1>7. used' \in 0 .. n + 1
  BY <1>1, <1>3, SMT
<1>8. ASSUME NEW p \in 1 .. n + 1, NEW q \in 1 .. n + 1, p < q, wire'[p].object = wire'[q].object
      PROVE  wire'[p].id < wire'[q].id
  <2>1. p \in 1 .. n
    BY <1>3, <1>8, SMT
  <2>2. CASE q \in 1 .. n
    BY <1>4, <1>8, <2>1, <2>2 DEF Order
  <2>3. CASE q = n + 1
    BY <1>2, <1>4, <1>8, <2>1, <2>3, FragmentAt
  <2>. QED  BY <1>4, <2>2, <2>3
<1>9. ASSUME NEW p \in 1 .. n + 1, wire'[p].end
      PROVE  \E i \in 1 .. Len(ended') : EndsAt(i, p)'
  <2>1. CASE p \in 1 .. n
    <3>1. PICK i \in 1 .. e : EndsAt(i, p)
      BY <1>4, <1>9, <2>1 DEF Order
    <3>2. i \in 1 .. Len(ended') /\ i # e + 1 /\ p # n + 1
      BY <1>4, <1>5, <2>1
    <3>. QED  BY <1>6, <3>1, <3>2
  <2>2. CASE p = n + 1
    <3>1. f.end
      BY <1>4, <1>9, <2>2
    <3>2. PICK i \in 1 .. Len(ended') : i = e + 1
      BY <1>5, <3>1
    <3>3. EndsAt(i, p)'
      BY <1>5, <1>6, <2>2, <3>2
    <3>. QED  BY <3>3
  <2>. QED  BY <1>4, <2>1, <2>2
<1>10. ASSUME NEW i \in 1 .. Len(ended')
       PROVE  \E p \in 1 .. n + 1 : EndsAt(i, p)'
  <2>1. CASE i \in 1 .. e
    <3>1. PICK p \in 1 .. n : EndsAt(i, p)
      BY <2>1 DEF Order
    <3>2. p \in 1 .. n + 1 /\ i # e + 1 /\ p # n + 1
      BY <1>4, <1>5, <2>1
    <3>. QED  BY <1>6, <3>1, <3>2
  <2>2. CASE i = e + 1
    BY <1>4, <1>5, <1>6, <2>2
  <2>. QED  BY <1>5, <2>1, <2>2
<1>11. ASSUME NEW i \in 1 .. Len(ended'), NEW j \in 1 .. Len(ended'),
              NEW p \in 1 .. n + 1, NEW q \in 1 .. n + 1, i < j, EndsAt(i, p)', EndsAt(j, q)'
       PROVE  p < q
  <2>1. i \in 1 .. e
    BY <1>3, <1>5, <1>11, SMT
  <2>2. p \in 1 .. n /\ EndsAt(i, p)
    BY <1>5, <1>6, <1>11, <2>1
  <2>3. CASE j \in 1 .. e
    <3>1. q \in 1 .. n /\ EndsAt(j, q)
      BY <1>5, <1>6, <1>11, <2>3
    <3>. QED  BY <1>11, <2>1, <2>2, <2>3, <3>1 DEF Order
  <2>4. CASE j = e + 1
    <3>1. q = n + 1
      BY <1>5, <1>6, <1>11, <2>4
    <3>. QED  BY <1>3, <2>2, <3>1, SMT
  <2>. QED  BY <1>5, <2>3, <2>4
<1>. HIDE DEF n, e
<1>12. /\ \A p, q \in 1 .. n + 1 : p < q /\ wire'[p].object = wire'[q].object => wire'[p].id < wire'[q].id
       /\ \A p \in 1 .. n + 1 : wire'[p].end => \E i \in 1 .. Len(ended') : EndsAt(i, p)'
       /\ \A i \in 1 .. Len(ended') : \E p \in 1 .. n + 1 : EndsAt(i, p)'
       /\ \A i, j \in 1 .. Len(ended'), p, q \in 1 .. n + 1 :
             i < j /\ EndsAt(i, p)' /\ EndsAt(j, q)' => p < q
  BY <1>8, <1>9, <1>10, <1>11
<1>. QED  BY <1>4, <1>5, <1>7, <1>12, Zenon DEF Order

LEMMA SendKeepsOffsets ==
    ASSUME IInv, Order, NEW o \in Objects, SendFragment(o), NEW off, Offsets(off)
    PROVE  \E next : Offsets(next)'
<1>. DEFINE f == Fragment(o, sent[o])
            n == Len(wire)
<1>1. wire' = Append(wire, f) /\ wireLen' = wireLen + Size(f) /\ used' = used /\ usedLen' = usedLen
  BY DEF SendFragment, client
<1>2. Size(f) \in Nat /\ wireLen \in Nat
  BY SizeNat DEF IInv, Sending, Counted
<1>. HIDE DEF f
<1>3. wire \in Seq(Arrivals) /\ n \in Nat /\ used \in 0 .. n
  BY SMT DEF IInv, Order
<1>4. Len(wire') = n + 1 /\ wire'[n + 1] = f /\ \A p \in 1 .. n : wire'[p] = wire[p]
  BY <1>1, <1>3, SMT
<1>5. /\ \A p \in 0 .. n : off[p] \in Nat
      /\ \A p \in 1 .. n : off[p] = off[p - 1] + Size(wire[p])
      /\ \A p, q \in 0 .. n : p <= q => off[p] <= off[q]
      /\ off[n] = wireLen /\ off[used] = usedLen
  BY DEF Offsets
<1>6. PICK next : next[n + 1] = wireLen + Size(f) /\ \A p \in 0 .. n : next[p] = off[p]
  <2>. WITNESS [p \in 0 .. n + 1 |-> IF p = n + 1 THEN wireLen + Size(f) ELSE off[p]]
  <2>. QED  BY <1>3, SMT
<1>. HIDE DEF n
<1>7. \A p \in 0 .. n + 1 : p \in 0 .. n \/ p = n + 1
  BY <1>3, SMT
<1>8. \A p \in 0 .. n + 1 : next[p] \in Nat
  <2>1. wireLen + Size(f) \in Nat
    BY <1>2, SMT
  <2>. QED  BY <1>5, <1>6, <1>7, <2>1
<1>9. ASSUME NEW p \in 1 .. n + 1
      PROVE  next[p] = next[p - 1] + Size(wire'[p])
  <2>1. CASE p \in 1 .. n
    <3>1. p \in 0 .. n /\ p - 1 \in 0 .. n
      BY <1>3, <2>1, SMT
    <3>. QED  BY <1>4, <1>5, <1>6, <2>1, <3>1
  <2>2. CASE p = n + 1
    <3>1. p - 1 = n /\ n \in 0 .. n
      BY <1>3, <2>2, SMT
    <3>. QED  BY <1>4, <1>5, <1>6, <2>2, <3>1
  <2>. QED  BY <1>3, <2>1, <2>2, SMT
<1>10. ASSUME NEW p \in 0 .. n + 1, NEW q \in 0 .. n + 1, p <= q
       PROVE  next[p] <= next[q]
  <2>1. CASE q \in 0 .. n
    <3>1. p \in 0 .. n
      BY <1>3, <1>10, <2>1, SMT
    <3>. QED  BY <1>5, <1>6, <1>10, <2>1, <3>1
  <2>2. CASE p \in 0 .. n /\ q = n + 1
    <3>1. off[p] <= off[n] /\ off[p] \in Nat
      BY <1>3, <1>5, <2>2, SMT
    <3>2. next[p] = off[p] /\ next[q] = off[n] + Size(f)
      BY <1>5, <1>6, <2>2
    <3>3. off[n] \in Nat
      BY <1>2, <1>5
    <3>. QED  BY <1>2, <3>1, <3>2, <3>3, SMT
  <2>3. CASE p = n + 1 /\ q = n + 1
    BY <1>8, <2>3, SMT
  <2>. QED  BY <1>7, <2>1, <2>2, <2>3
<1>11. next[n + 1] = wireLen' /\ next[used] = usedLen
  BY <1>1, <1>3, <1>5, <1>6
<1>12. Offsets(next)'
  BY <1>1, <1>4, <1>8, <1>9, <1>10, <1>11 DEF Offsets
<1>. QED  BY <1>12

\* A fragment that has just been sent is not in the buffer.
LEMMA SendResting ==
    ASSUME IInv, InOrder, NEW o \in Objects, SendFragment(o)
    PROVE  Resting'
<1>. DEFINE f == Fragment(o, sent[o])
<1>1. wire' = Append(wire, f) /\ UNCHANGED <<fed, used, usedLen, state>>
  BY DEF SendFragment, client
<1>. HIDE DEF f
<1>2. wire \in Seq(Arrivals) /\ used \in 0 .. Len(wire)
  BY DEF IInv, InOrder, Order
<1>3. CASE used < Len(wire)
  <2>1. wire'[used + 1] = wire[used + 1]
    BY <1>1, <1>2, <1>3, SMT
  <2>. QED  BY <1>1, <1>3, <2>1 DEF InOrder, Resting, WholeFragment, Buffered
<1>4. CASE used = Len(wire)
  <2>1. usedLen = wireLen
    BY <1>4 DEF InOrder, Offsets
  <2>2. Buffered <= 0 /\ Buffered \in Int
    BY <2>1, SMT DEF Buffered, IInv, Counted
  <2>3. Buffered' = Buffered
    BY <1>1 DEF Buffered
  <2>4. HeaderLen \in Nat /\ HeaderLen > 0
    BY PsrpAssumption, SMT
  <2>5. ~(Buffered' >= HeaderLen)
    BY <2>2, <2>3, <2>4, SMT
  <2>. QED  BY <2>5 DEF Resting, WholeFragment
<1>. QED  BY <1>2, <1>3, <1>4, SMT

LEMMA SendPrompt ==
    ASSUME IInv, InOrder, NEW o \in Objects, SendFragment(o), Undisturbed'
    PROVE  state' # "failed" /\ Arrived' /\ Abreast' /\ Handed(returned \o completed, used)'
<1>. DEFINE f == Fragment(o, sent[o])
            n == Len(wire)
            e == Len(ended)
            all == returned \o completed
<1>1. /\ sent[o] < Fragments(o) /\ sent' = [sent EXCEPT ![o] = @ + 1]
      /\ wire' = Append(wire, f) /\ UNCHANGED <<used, inFlight, completed, returned, state, lost>>
      /\ ended' = IF f.end THEN Append(ended, o) ELSE ended
  BY DEF SendFragment, client
<1>2. f.object = o /\ f.id = sent[o]
  BY FragmentFields
<1>. HIDE DEF f
<1>3. wire \in Seq(Arrivals) /\ ended \in Seq(Objects) /\ n \in Nat /\ e \in Nat /\ used \in 0 .. n
  BY SMT DEF IInv, InOrder, Order
<1>4. /\ Len(wire') = n + 1 /\ wire'[n + 1] = f /\ \A p \in 1 .. n : wire'[p] = wire[p] /\ p \in 1 .. n + 1
      /\ \A p \in 1 .. n + 1 : p \in 1 .. n \/ p = n + 1
      /\ n + 1 \in 1 .. n + 1
  BY <1>1, <1>3, SMT
<1>5. /\ Len(ended') \in {e, e + 1}
      /\ \A i \in 1 .. e : ended'[i] = ended[i] /\ i \in 1 .. Len(ended')
  <2>1. CASE f.end
    BY <1>1, <1>3, <2>1, SMT
  <2>2. CASE ~f.end
    BY <1>1, <1>3, <2>2, SMT
  <2>. QED  BY <2>1, <2>2
<1>6. Undisturbed
  BY <1>1, <1>5 DEF Undisturbed
<1>7. /\ sent[o] \in Nat /\ sent'[o] = sent[o] + 1
      /\ \A u \in Objects \ {o} : sent'[u] = sent[u]
      /\ \A u \in Objects : sent[u] \in Nat
  BY <1>1, SMT DEF IInv, Sending
<1>8. state' # "failed"
  BY <1>1, <1>6 DEF InOrder, Prompt
<1>9. Arrived'
  <2>1. ASSUME NEW u \in Objects, NEW k \in 0 .. sent'[u] - 1
        PROVE  \E p \in 1 .. n + 1 : wire'[p] = Fragment(u, k)
    <3>1. CASE k \in 0 .. sent[u] - 1
      <4>1. PICK p \in 1 .. n : wire[p] = Fragment(u, k)
        BY <1>6, <3>1 DEF InOrder, Prompt, Arrived
      <4>. QED  BY <1>4, <4>1
    <3>2. CASE u = o /\ k = sent[o]
      BY <1>4, <3>2 DEF f
    <3>. QED  BY <1>7, <3>1, <3>2, SMT
  <2>. QED  BY <1>4, <2>1 DEF Arrived
<1>10. Abreast'
  <2>1. ASSUME NEW u \in Objects
        PROVE  \E k \in 0 .. sent'[u] : TakenTo(u, k, used)' /\ Holds(u, k)'
    <3>1. PICK k \in 0 .. sent[u] : TakenTo(u, k, used) /\ Holds(u, k)
      BY <1>6 DEF InOrder, Prompt, Abreast
    <3>2. k \in 0 .. sent'[u]
      BY <1>7, SMT
    <3>3. ASSUME NEW p \in 1 .. n + 1, wire'[p].object = u
          PROVE  p <= used <=> wire'[p].id < k
      <4>1. CASE p \in 1 .. n
        BY <1>4, <3>1, <3>3, <4>1 DEF TakenTo
      <4>2. CASE p = n + 1
        <5>1. u = o /\ wire'[p].id = sent[o]
          BY <1>2, <1>4, <3>3, <4>2
        <5>. QED  BY <1>3, <1>7, <4>2, <5>1, SMT
      <4>. QED  BY <1>4, <4>1, <4>2
    <3>4. TakenTo(u, k, used)'
      BY <1>1, <1>4, <3>3 DEF TakenTo
    <3>5. Holds(u, k)'
      BY <1>1, <3>1 DEF Holds
    <3>. QED  BY <3>2, <3>4, <3>5
  <2>. QED  BY <2>1 DEF Abreast
<1>11. Handed(all, used)'
  <2>1. Handed(all, used) /\ Len(all) \in Nat
    <3>1. Len(all) \in Nat
      BY SMT DEF IInv
    <3>. QED  BY <1>6, <3>1 DEF InOrder, Prompt
  <2>2. all' = all /\ used' = used
    BY <1>1
  <2>. HIDE DEF all
  <2>3. Len(all) <= Len(ended') /\ Len(all) <= e
    BY <1>3, <1>5, <2>1, SMT DEF Handed
  <2>4. ASSUME NEW i \in 1 .. Len(all) PROVE all[i] = Payload[ended'[i]]
    <3>1. i \in 1 .. e
      BY <1>3, <2>1, <2>3, SMT
    <3>. QED  BY <1>5, <2>1, <3>1 DEF Handed
  <2>5. ASSUME NEW i \in 1 .. Len(ended'), NEW p \in 1 .. Len(wire'), EndsAt(i, p)'
        PROVE  p <= used <=> i <= Len(all)
    <3>1. \/ i \in 1 .. e /\ p \in 1 .. n /\ EndsAt(i, p)
          \/ i = e + 1 /\ p = n + 1
      BY <2>5, SendEnds DEF InOrder
    <3>2. CASE i \in 1 .. e /\ p \in 1 .. n /\ EndsAt(i, p)
      BY <2>1, <3>2 DEF Handed
    <3>3. CASE i = e + 1 /\ p = n + 1
      BY <1>3, <2>1, <2>3, <3>3, SMT
    <3>. QED  BY <3>1, <3>2, <3>3
  <2>. QED  BY <2>2, <2>3, <2>4, <2>5 DEF Handed
<1>. QED  BY <1>8, <1>9, <1>10, <1>11

LEMMA SendInOrder ==
    ASSUME IInv, InOrder, NEW o \in Objects, SendFragment(o)
    PROVE  InOrder'
<1>1. Order'
  BY SendKeepsOrder DEF InOrder
<1>2. \E off : Offsets(off)'
  BY SendKeepsOffsets DEF InOrder
<1>3. Resting'
  BY SendResting
<1>4. Prompt'
  BY SendPrompt DEF Prompt
<1>. QED  BY <1>1, <1>2, <1>3, <1>4 DEF InOrder

\* Once a fragment is lost nothing more is promised.
LEMMA StepsAside ==
    ASSUME InOrder, UNCHANGED <<wire, wireLen, ended, used, usedLen>>,
           \/ lost' /\ UNCHANGED <<fed, state>>
           \/ state' = "feeding" /\ UNCHANGED <<lost, sent, inFlight, completed, returned>>
           \/ UNCHANGED vars
    PROVE  InOrder'
<1>1. Order'
  BY OrderKeeps DEF InOrder, Order
<1>2. \E off : Offsets(off)'
  BY DEF InOrder, Offsets
<1>3. Resting'
  BY DEF InOrder, Resting, WholeFragment, Buffered, vars
<1>4. ASSUME Undisturbed' PROVE Undisturbed
  BY <1>4 DEF Undisturbed, vars
<1>5. Undisturbed' => state' # "failed" /\ Arrived' /\ Abreast' /\ Handed(returned \o completed, used)'
  BY <1>4 DEF InOrder, Prompt, Undisturbed, Arrived, Abreast, TakenTo, Holds, Handed, EndsAt, vars
<1>. QED  BY <1>1, <1>2, <1>3, <1>5 DEF InOrder, Prompt

LEMMA InitInOrder == Init => InOrder
<1>. SUFFICES ASSUME Init PROVE InOrder
  OBVIOUS
<1>1. Len(wire) = 0 /\ Len(ended) = 0 /\ used = 0 /\ usedLen = 0 /\ wireLen = 0 /\ ended \in Seq(Objects)
  BY SMT DEF Init
<1>2. (1 .. 0) = {} /\ (0 .. 0) = {0} /\ (0 .. 0 - 1) = {}
  BY SMT
<1>3. Order
  BY <1>1, <1>2 DEF Order
<1>4. Offsets([p \in {0} |-> 0])
  BY <1>1, <1>2, SMT DEF Offsets
<1>5. Resting
  BY <1>1, SMT DEF Resting, WholeFragment
<1>6. Arrived
  BY <1>2 DEF Arrived, Init
<1>7. Abreast
  <2>1. ASSUME NEW o \in Objects
        PROVE  \E k \in 0 .. sent[o] : TakenTo(o, k, used) /\ Holds(o, k)
    <3>1. 0 \in 0 .. sent[o]
      BY <1>2 DEF Init
    <3>2. TakenTo(o, 0, used) /\ Holds(o, 0)
      BY <1>1, <1>2 DEF TakenTo, Holds, Init
    <3>. QED  BY <3>1, <3>2
  <2>. QED  BY <2>1 DEF Abreast
<1>8. Handed(returned \o completed, used)
  <2>1. Len(returned \o completed) = 0
    BY SMT DEF Init
  <2>. QED  BY <1>1, <1>2, <2>1 DEF Handed
<1>9. state # "failed"
  BY DEF Init
<1>. QED  BY <1>3, <1>4, <1>5, <1>6, <1>7, <1>8, <1>9 DEF InOrder, Prompt

LEMMA NextInOrder == IInv /\ InOrder /\ [Next]_vars => InOrder'
<1>. SUFFICES ASSUME IInv, InOrder, [Next]_vars PROVE InOrder'
  OBVIOUS
<1>1. CASE UNCHANGED vars
  BY <1>1, StepsAside DEF vars
<1>2. ASSUME NEW o \in Objects, LoseFragment(o) PROVE InOrder'
  BY <1>2, StepsAside DEF LoseFragment, client
<1>3. ASSUME NEW n \in 1 .. wireLen, Feed(n) PROVE InOrder'
  BY <1>3, StepsAside DEF Feed, server
<1>. QED  BY <1>1, <1>2, <1>3, SendInOrder, SingleInOrder, PartInOrder, AstrayInOrder,
             ReturnInOrder DEF Next

\* The buffer is empty of whole fragments only when all of the wire was taken.
LEMMA AllTaken ==
    ASSUME IInv, InOrder, fed = wireLen, state = "waiting"
    PROVE  used = Len(wire)
<1>1. PICK off : Offsets(off)
  BY DEF InOrder
<1>2. used \in 0 .. Len(wire) /\ Len(wire) \in Nat
  BY SMT DEF InOrder, Order, IInv
<1>3. ASSUME used < Len(wire) PROVE FALSE
  <2>1. used + 1 \in 1 .. Len(wire) /\ used + 1 \in 0 .. Len(wire) /\ Len(wire) \in 0 .. Len(wire)
        /\ used + 1 - 1 = used
    BY <1>2, <1>3, SMT
  <2>2. off[used + 1] = usedLen + Size(wire[used + 1]) /\ off[used + 1] <= wireLen
    BY <1>1, <1>2, <1>3, <2>1 DEF Offsets
  <2>3. Size(wire[used + 1]) \in Nat /\ Size(wire[used + 1]) >= HeaderLen /\ HeaderLen \in Nat
    BY <2>1, FragmentAt, Sizes
  <2>4. Buffered >= Size(wire[used + 1]) /\ Buffered >= HeaderLen
    BY <2>2, <2>3, SMT DEF Buffered, IInv, Counted
  <2>. QED  BY <1>3, <2>4 DEF InOrder, Resting, WholeFragment
<1>. QED  BY <1>2, <1>3, SMT

LEMMA InOrderReturns == IInv /\ InOrder => ReturnsInOrder
<1>. DEFINE all == returned \o completed
<1>. SUFFICES ASSUME IInv, InOrder, Undisturbed
              PROVE  /\ state # "failed"
                     /\ Len(all) <= Len(ended)
                     /\ all = SubSeq(PayloadsOf(ended), 1, Len(all))
                     /\ fed = wireLen /\ state = "waiting" => Len(all) = Len(ended)
  BY DEF ReturnsInOrder, Undisturbed
<1>1. Handed(all, used) /\ state # "failed"
  BY DEF InOrder, Prompt
<1>2. /\ all \in Seq(Whole) /\ ended \in Seq(Objects)
      /\ Len(all) \in Nat /\ Len(ended) \in Nat
  <2>1. all \in Seq(Whole)
    BY Joined DEF IInv
  <2>. QED  BY <2>1, SMT DEF InOrder, Order
<1>. HIDE DEF all
<1>3. Len(all) <= Len(ended) /\ \A i \in 1 .. Len(all) : all[i] = Payload[ended[i]]
  BY <1>1 DEF Handed
<1>4. all = SubSeq(PayloadsOf(ended), 1, Len(all))
  <2>. DEFINE P == PayloadsOf(ended)
              s == SubSeq(P, 1, Len(all))
  <2>1. \A i \in 1 .. Len(all) : P[i] = all[i] /\ all[i] \in Whole
    <3>1. \A i \in 1 .. Len(all) : i \in 1 .. Len(ended)
      BY <1>2, <1>3, SMT
    <3>2. \A i \in 1 .. Len(all) : P[i] = Payload[ended[i]]
      BY <3>1 DEF PayloadsOf
    <3>3. \A i \in 1 .. Len(all) : all[i] \in Whole
      BY <1>2, ElementOfSeq
    <3>. QED  BY <1>3, <3>2, <3>3
  <2>. HIDE DEF P
  <2>2. /\ s \in Seq(Whole)
        /\ Len(s) = IF 1 <= Len(all) THEN Len(all) - 1 + 1 ELSE 0
        /\ \A i \in 1 .. Len(all) - 1 + 1 : s[i] = P[1 + i - 1]
    BY <1>2, <2>1, SubSeqProperties
  <2>. HIDE DEF s
  <2>3. Len(s) = Len(all)
    BY <1>2, <2>2, SMT
  <2>4. \A i \in 1 .. Len(all) : s[i] = P[i]
    <3>1. \A i \in 1 .. Len(all) : i \in 1 .. Len(all) - 1 + 1 /\ 1 + i - 1 = i
      BY <1>2, SMT
    <3>. QED  BY <2>2, <3>1
  <2>5. s = all
    BY <1>2, <2>1, <2>2, <2>3, <2>4, SeqEqual
  <2>. QED  BY <2>5 DEF s, P
<1>5. ASSUME fed = wireLen, state = "waiting" PROVE Len(all) = Len(ended)
  <2>1. used = Len(wire)
    BY <1>5, AllTaken
  <2>2. ASSUME Len(ended) > Len(all) PROVE FALSE
    <3>1. Len(ended) \in 1 .. Len(ended)
      BY <1>2, <2>2, SMT
    <3>2. PICK p \in 1 .. Len(wire) : EndsAt(Len(ended), p)
      BY <3>1 DEF InOrder, Order
    <3>3. p <= used
      BY <2>1, SMT DEF IInv
    <3>. QED  BY <1>1, <1>2, <2>2, <3>1, <3>2, <3>3, SMT DEF Handed
  <2>. QED  BY <1>2, <1>3, <2>2, SMT
<1>. QED  BY <1>1, <1>3, <1>4, <1>5

\* With nothing lost and nothing undecodable feed never fails, and it returns the
\* messages in the order in which the server finished them, all of them as soon
\* as it has all the bytes, whatever their fragments' mixture and however the
\* stream is cut (Reassembler::feed).
THEOREM MessagesKeepOrder == Spec => []ReturnsInOrder
<1>1. Init => IInv /\ InOrder
  BY InitIInv, InitInOrder
<1>2. (IInv /\ InOrder) /\ [Next]_vars => (IInv /\ InOrder)'
  BY NextIInv, NextInOrder
<1>. QED  BY <1>1, <1>2, InOrderReturns, PTL DEF Spec

-----------------------------------------------------------------------------
(* What run_powershell leaves on the service (PsrpRun, here Run), for every     *)
(* number of polls, records, messages and failed exchanges.                   *)

CONSTANTS Scripts, Outputs, PoolPolls, Polls, MaxOutput, MaxOther, MaxRetries, MaxFailures, MayCancel

VARIABLES pc, attempt, polls, exit, result, stdout, stderr, shellLive, pool, pipeline, queue, written,
          runs, style, failures, unclean, holes

Run == INSTANCE PsrpRun

OwnEnds == {"ok", "not_opened", "not_ended"}

\* Until a loop is left there is no result; "close" is the only way to one of
\* the call's own ends.
ResultFromLoop ==
    /\ pc \in {"open", "pool", "create", "poll"} => result = "none"
    /\ pc = "close" => result \in OwnEnds

RunInv == ResultFromLoop /\ Run!EndClosesShell

LEMMA InitRunInv == Run!Init => RunInv
  BY DEF Run!Init, RunInv, ResultFromLoop, Run!EndClosesShell, OwnEnds

\* The service neither opens a shell nor moves the call.
LEMMA ServiceKeeps ==
    ASSUME RunInv, Run!PoolTalks \/ Run!PipelineWrites \/ Run!PipelineTalks \/ Run!PipelineEnds
    PROVE  RunInv'
<1>1. UNCHANGED <<pc, result, unclean, shellLive>>
  BY DEF Run!PoolTalks, Run!PipelineWrites, Run!PipelineTalks, Run!PipelineEnds, Run!OthersUnchanged
<1>. QED  BY <1>1 DEF RunInv, ResultFromLoop, Run!EndClosesShell, OwnEnds

\* A request sent again leaves the call where it was, and where it was the call
\* had not returned.
LEMMA RetryKeeps == RunInv /\ Run!Retry => RunInv'
<1>. SUFFICES ASSUME RunInv, Run!Retry PROVE RunInv'
  OBVIOUS
<1>1. pc # "returned" /\ UNCHANGED <<pc, result>>
  BY DEF Run!Retry, Run!Again
<1>. QED  BY <1>1 DEF RunInv, ResultFromLoop, Run!EndClosesShell, OwnEnds

\* A step before "close" does not return one of the call's own ends.
LEMMA BeforeClose ==
    ASSUME RunInv,
           \/ Run!OpenShell \/ Run!DrainPool \/ Run!CreatePipeline \/ Run!Poll
           \/ Run!ReceiveFails \/ Run!FeedFails \/ Run!Cancel
    PROVE  RunInv'
<1>1. CASE Run!OpenShell
  <2>1. /\ pc = "open"
        /\ \/ pc' = "pool" /\ result' = result
           \/ pc' = "returned" /\ result' = "error"
    BY <1>1 DEF Run!OpenShell, Run!Answered, Run!Failed, Run!Return
  <2>. QED  BY <2>1 DEF RunInv, ResultFromLoop, Run!EndClosesShell, OwnEnds
<1>2. CASE Run!DrainPool
  <2>1. /\ pc = "pool"
        /\ \/ pc' = "create" /\ result' = result
           \/ pc' = "close" /\ result' = "not_opened"
           \/ pc' = "pool" /\ result' = result
    BY <1>2 DEF Run!DrainPool, Run!Answered, Run!Finish
  <2>. QED  BY <2>1 DEF RunInv, ResultFromLoop, Run!EndClosesShell, OwnEnds
<1>3. CASE Run!CreatePipeline
  <2>1. /\ pc = "create"
        /\ \/ pc' = "poll" /\ result' = result
           \/ pc' = "returned" /\ result' = "error"
    BY <1>3 DEF Run!CreatePipeline, Run!Answered, Run!Failed, Run!Return
  <2>. QED  BY <2>1 DEF RunInv, ResultFromLoop, Run!EndClosesShell, OwnEnds
<1>4. CASE Run!Poll
  <2>1. /\ pc = "poll"
        /\ \/ pc' = "close" /\ result' \in {"ok", "not_ended"}
           \/ pc' = "poll" /\ result' = result
    BY <1>4 DEF Run!Poll, Run!Answered, Run!Finish
  <2>. QED  BY <2>1 DEF RunInv, ResultFromLoop, Run!EndClosesShell, OwnEnds
<1>5. CASE Run!ReceiveFails \/ Run!FeedFails \/ Run!Cancel
  <2>1. pc' = "returned" /\ result' \in {"error", "cancelled"}
    BY <1>5 DEF Run!ReceiveFails, Run!FeedFails, Run!Cancel, Run!Return
  <2>. QED  BY <2>1 DEF RunInv, ResultFromLoop, Run!EndClosesShell, OwnEnds
<1>. QED  BY <1>1, <1>2, <1>3, <1>4, <1>5

\* The Delete either removes the shell or fails, which is remembered.
LEMMA CloseKeeps == RunInv /\ Run!CloseShell => RunInv'
<1>. SUFFICES ASSUME RunInv, Run!CloseShell PROVE RunInv'
  OBVIOUS
<1>1. pc = "close" /\ pc' = "returned" /\ result' = result
  BY DEF Run!CloseShell, Run!Return, Run!Answered, Run!Failed
<1>2. shellLive' = FALSE \/ unclean' = TRUE
  BY DEF Run!CloseShell, Run!Answered, Run!DeleteShell
<1>. QED  BY <1>1, <1>2 DEF RunInv, ResultFromLoop, Run!EndClosesShell, OwnEnds

LEMMA NextRunInv == RunInv /\ [Run!Next]_(Run!vars) => RunInv'
<1>. SUFFICES ASSUME RunInv, [Run!Next]_(Run!vars) PROVE RunInv'
  OBVIOUS
<1>1. CASE UNCHANGED Run!vars
  BY <1>1 DEF Run!vars, RunInv, ResultFromLoop, Run!EndClosesShell, OwnEnds
<1>2. CASE Run!Next
  BY <1>2, ServiceKeeps, RetryKeeps, BeforeClose, CloseKeeps DEF Run!Next, Run!ClientStep
<1>. QED  BY <1>1, <1>2

\* A run that came to its own end, whatever the service said, however often it was
\* polled and whichever of its requests were repeated, leaves no shell behind,
\* unless the Delete failed (run_powershell, send_soap_with_retry).
THEOREM ShellIsClosed == Run!Spec => []Run!EndClosesShell
<1>1. RunInv => Run!EndClosesShell
  BY DEF RunInv
<1>. QED  BY InitRunInv, NextRunInv, <1>1, PTL DEF Run!Spec

=============================================================================
