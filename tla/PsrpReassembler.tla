--------------------------- MODULE PsrpReassembler ---------------------------
(***************************************************************************)
(* PSRP fragmentation (src/psrp/protocol.rs): messages are cut into          *)
(* numbered fragments, the fragments of different messages may be mixed on   *)
(* the wire, and Reassembler::feed gets the byte stream in pieces whose      *)
(* boundaries have nothing to do with the fragments.  Bytes are counted, not *)
(* spelled: a fragment occupies HeaderLen bytes and its blob.  The sender is *)
(* the server, which cuts as encode_fragments does; it is external.          *)
(***************************************************************************)
EXTENDS Integers, Sequences

CONSTANTS Bytes,
          Objects,      \* object ids, one per message; the server never reuses one
          Payload,      \* the bytes of each message
          MaxPayload,   \* MAX_FRAGMENT_PAYLOAD
          HeaderLen,    \* FRAGMENT_HEADER_LEN
          Undecodable,  \* messages decode_message rejects
          MayLose,      \* a Receive answer may be lost and its fragments with it
          None

ASSUME PsrpAssumption ==
    /\ MaxPayload \in Nat \ {0} /\ HeaderLen \in Nat \ {0}
    /\ Undecodable \subseteq Objects
    /\ \A o \in Undecodable, x \in Objects \ Undecodable : Payload[x] # Payload[o]
    /\ MayLose \in BOOLEAN
    /\ Payload \in [Objects -> Seq(Bytes)]
    /\ None \notin [bytes : Seq(Bytes), next : Nat, started : BOOLEAN]

VARIABLES sent,       \* server: fragments of each object already sent
          wire,       \* the fragments that reach the client, in order
          wireLen,    \* their length in bytes
          fed,        \* bytes given to feed so far
          used,       \* fragments taken out of the buffer
          usedLen,    \* their length in bytes
          inFlight,   \* in_flight: None or (bytes, next fragment id, started)
          completed,  \* feed's local vector of complete payloads
          returned,   \* payloads returned by feed, oldest first
          state,      \* "waiting" for data, "feeding", or "failed"
          ended,      \* history: objects whose last fragment was sent, in order
          lost        \* history: some fragment was lost

vars == <<sent, wire, wireLen, fed, used, usedLen, inFlight, completed, returned,
          state, ended, lost>>

server == <<sent, wire, wireLen, ended, lost>>
client == <<fed, used, usedLen, inFlight, completed, returned, state>>

-----------------------------------------------------------------------------
(* encode_fragments: an empty payload still makes one fragment.              *)

Fragments(o) == IF Payload[o] = <<>> THEN 1
                ELSE (Len(Payload[o]) + MaxPayload - 1) \div MaxPayload

Least(a, b) == IF a < b THEN a ELSE b

\* encode_one_fragment, for fragment id i of object o.
Fragment(o, i) ==
    [object |-> o, id |-> i, start |-> i = 0, end |-> i = Fragments(o) - 1,
     blob |-> SubSeq(Payload[o], i * MaxPayload + 1,
                     Least((i + 1) * MaxPayload, Len(Payload[o])))]

Size(f) == HeaderLen + Len(f.blob)

Init ==
    /\ sent = [o \in Objects |-> 0]
    /\ wire = <<>> /\ wireLen = 0 /\ ended = <<>> /\ lost = FALSE
    /\ fed = 0 /\ used = 0 /\ usedLen = 0
    /\ inFlight = [o \in Objects |-> None]
    /\ completed = <<>> /\ returned = <<>> /\ state = "waiting"

\* The server sends the next fragment of some message.
SendFragment(o) ==
    /\ sent[o] < Fragments(o)
    /\ sent' = [sent EXCEPT ![o] = @ + 1]
    /\ LET f == Fragment(o, sent[o])
       IN /\ wire' = Append(wire, f)
          /\ wireLen' = wireLen + Size(f)
          /\ ended' = IF f.end THEN Append(ended, o) ELSE ended
    /\ UNCHANGED <<lost, client>>

\* It was in an answer the client never got.
LoseFragment(o) ==
    /\ MayLose
    /\ sent[o] < Fragments(o)
    /\ sent' = [sent EXCEPT ![o] = @ + 1]
    /\ lost' = TRUE
    /\ UNCHANGED <<wire, wireLen, ended, client>>

-----------------------------------------------------------------------------
(* feed: extend the buffer, take fragments while they are whole, return.     *)

Feed(n) ==
    /\ state = "waiting"
    /\ fed + n <= wireLen
    /\ fed' = fed + n
    /\ state' = "feeding"
    /\ UNCHANGED <<server, used, usedLen, inFlight, completed, returned>>

Buffered == fed - usedLen

\* Mutant of WholeFragment: a fragment that ends the buffer is left in it.
WholeAndMore == used < Len(wire) /\ Buffered > Size(wire[used + 1])

\* Both length checks: the header, then the blob it announces.
WholeFragment ==
    /\ used < Len(wire)
    /\ Buffered >= HeaderLen
    /\ Buffered >= Size(wire[used + 1])

Next1 == wire[used + 1]

Drained ==
    /\ used' = used + 1
    /\ usedLen' = usedLen + Size(Next1)

\* A message in one fragment bypasses in_flight.
TakeSingle ==
    /\ state = "feeding" /\ WholeFragment
    /\ Next1.start /\ Next1.end
    /\ completed' = Append(completed, Next1.blob)
    /\ Drained
    /\ UNCHANGED <<server, fed, inFlight, returned, state>>

\* entry(object_id).or_insert(..), reset by a start fragment.
Entry(f) ==
    IF f.start THEN [bytes |-> <<>>, next |-> 0, started |-> TRUE]
    ELSE IF inFlight[f.object] = None THEN [bytes |-> <<>>, next |-> 0, started |-> FALSE]
    ELSE inFlight[f.object]

\* A continuation of a message whose start was never seen is skipped.
SkipOrphan ==
    /\ state = "feeding" /\ WholeFragment
    /\ ~(Next1.start /\ Next1.end) /\ ~Entry(Next1).started
    /\ inFlight' = [inFlight EXCEPT ![Next1.object] = Entry(Next1)]
    /\ Drained
    /\ UNCHANGED <<server, fed, completed, returned, state>>

\* Mutant of Expected: fragment ids are not looked at.
AnyFragment(f) == TRUE

Expected(f) == f.id = Entry(f).next

TakePart ==
    /\ state = "feeding" /\ WholeFragment
    /\ ~(Next1.start /\ Next1.end) /\ Entry(Next1).started
    /\ Expected(Next1)
    /\ LET bytes == Entry(Next1).bytes \o Next1.blob
       IN IF Next1.end
          THEN /\ inFlight' = [inFlight EXCEPT ![Next1.object] = None]
               /\ completed' = Append(completed, bytes)
          ELSE /\ inFlight' = [inFlight EXCEPT ![Next1.object] =
                                  [bytes |-> bytes, next |-> Entry(Next1).next + 1,
                                   started |-> TRUE]]
               /\ UNCHANGED completed
    /\ Drained
    /\ UNCHANGED <<server, fed, returned, state>>

\* Fragment id mismatch: feed fails, and what it had completed is dropped.
Mismatch ==
    /\ state = "feeding" /\ WholeFragment
    /\ ~(Next1.start /\ Next1.end) /\ Entry(Next1).started
    /\ ~Expected(Next1)
    /\ inFlight' = [inFlight EXCEPT ![Next1.object] = Entry(Next1)]
    /\ Drained
    /\ state' = "failed" /\ completed' = <<>>
    /\ UNCHANGED <<server, fed, returned>>

\* decode_message over the completed payloads: one it rejects fails them all.
Decodes(p) == \A o \in Undecodable : Payload[o] # p

Return ==
    /\ state = "feeding" /\ ~WholeFragment
    /\ completed' = <<>>
    /\ IF \A i \in 1..Len(completed) : Decodes(completed[i])
       THEN returned' = returned \o completed /\ state' = "waiting"
       ELSE UNCHANGED returned /\ state' = "failed"
    /\ UNCHANGED <<server, fed, used, usedLen, inFlight>>

Next ==
    \/ \E o \in Objects : SendFragment(o) \/ LoseFragment(o)
    \/ \E n \in 1..wireLen : Feed(n)
    \/ TakeSingle \/ SkipOrphan \/ TakePart \/ Mismatch \/ Return

Spec == Init /\ [][Next]_vars

-----------------------------------------------------------------------------
\* Whatever is lost and however fragments are mixed and cut, feed returns only
\* whole messages, never one pieced together from what arrived of it, and never
\* takes a byte that has not come.
NeverGarbled ==
    /\ usedLen <= fed /\ fed <= wireLen
    /\ \A i \in 1..Len(returned) :
          \E o \in Objects : sent[o] = Fragments(o) /\ returned[i] = Payload[o]

PayloadsOf(objs) == [i \in 1..Len(objs) |-> Payload[objs[i]]]

\* Nothing lost, nothing undecodable sent: feed never fails, and what it returned
\* is what the server finished sending, in that order, up to the buffered bytes.
ReturnsInOrder ==
    ~lost /\ (\A i \in 1..Len(ended) : ended[i] \notin Undecodable) =>
        /\ state # "failed"
        /\ LET all == returned \o completed
           IN /\ Len(all) <= Len(ended)
              /\ all = SubSeq(PayloadsOf(ended), 1, Len(all))
              /\ fed = wireLen /\ state = "waiting" => Len(all) = Len(ended)

=============================================================================
