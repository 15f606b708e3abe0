---------------------------------- MODULE Der ----------------------------------
(***************************************************************************)
(* src/asn1.rs: the DER that CredSSP needs, written and read.  Tags and       *)
(* lengths are bytes, what they enclose is any Octets.                        *)
(***************************************************************************)
EXTENDS Octets

SEQUENCE == 48
OCTETS   == 4
INTEGER  == 2
GSS      == 96            \* APPLICATION 0
Context(tag) == 160 + tag \* 0xA0 | tag

-----------------------------------------------------------------------------
(* Writing.                                                                  *)

\* Mutant of EncodeLength: the short form holds one length more.
EncodeLengthShort(len) ==
    IF len <= 128 THEN <<Byte(len)>>
    ELSE IF len < 256 THEN <<Byte(129), Byte(len)>>
    ELSE <<Byte(130), Byte((len \div 256) % 256), Byte(len % 256)>>

\* encode_length: three bytes at most; what is beyond them is cut off.
EncodeLength(len) ==
    IF len < 128 THEN <<Byte(len)>>
    ELSE IF len < 256 THEN <<Byte(129), Byte(len)>>
    ELSE IF len < 65536 THEN <<Byte(130), Byte(len \div 256), Byte(len % 256)>>
    ELSE <<Byte(131), Byte((len \div 65536) % 256), Byte((len \div 256) % 256), Byte(len % 256)>>

EncodeTlv(tag, contents) == <<Byte(tag)>> \o EncodeLength(Size(contents)) \o contents

EncodeSequence(contents)        == EncodeTlv(SEQUENCE, contents)
EncodeContextTag(tag, contents) == EncodeTlv(Context(tag), contents)
EncodeOctetString(data)         == EncodeTlv(OCTETS, data)

\* Four bytes in their shortest form, with a zero before one whose high bit is
\* set.
Shortest(bytes) ==
    LET filled == {i \in 1..4 : bytes[i] # 0}
        start  == IF filled = {} THEN 4 ELSE CHOOSE i \in filled : \A j \in filled : i <= j
        digits == SubSeq(bytes, start, 4)
    IN IF digits[1] >= 128 THEN <<0>> \o digits ELSE digits

EncodeIntegerValue(value) ==
    LET content == Shortest(<<value \div 16777216, (value \div 65536) % 256,
                              (value \div 256) % 256, value % 256>>)
    IN EncodeTlv(INTEGER, [i \in DOMAIN content |-> Byte(content[i])])

Field(tag, data) ==
    IF data = None THEN <<>> ELSE EncodeContextTag(tag, EncodeOctetString(data))

EncodeTsRequest(version, negoToken, pubKeyAuth, authInfo, clientNonce) ==
    LET nego == EncodeSequence(EncodeSequence(Field(0, negoToken)))
    IN EncodeSequence(
          EncodeContextTag(0, EncodeIntegerValue(version))
          \o (IF negoToken = None THEN <<>> ELSE EncodeContextTag(1, nego))
          \o Field(2, authInfo) \o Field(3, pubKeyAuth) \o Field(5, clientNonce))

\* Mutant of EncodeTsCredentials: the name comes first.
UserFirst(domain, username, password) ==
    LET creds == EncodeSequence(Field(0, username) \o Field(1, domain) \o Field(2, password))
    IN EncodeSequence(EncodeContextTag(0, EncodeIntegerValue(1)) \o Field(1, creds))

EncodeTsCredentials(domain, username, password) ==
    LET creds == EncodeSequence(Field(0, domain) \o Field(1, username) \o Field(2, password))
    IN EncodeSequence(EncodeContextTag(0, EncodeIntegerValue(1)) \o Field(1, creds))

SpnegoOid == <<Byte(6), Byte(6), <<6, "oid", "spnego">>>>
NtlmOid   == <<Byte(6), Byte(10), <<10, "oid", "ntlm">>>>

\* MECH_TYPE_LIST_NTLM
MechTypeList == <<Byte(48), Byte(12)>> \o NtlmOid

EncodeSpnegoInit(token) ==
    EncodeTlv(GSS, SpnegoOid \o EncodeContextTag(0, EncodeSequence(
        EncodeContextTag(0, EncodeSequence(NtlmOid)) \o Field(2, token))))

EncodeSpnegoResponse(token, mechListMic) ==
    EncodeContextTag(1, EncodeSequence(
        EncodeContextTag(0, <<Byte(10), Byte(1), Byte(1)>>) \o Field(2, token) \o Field(3, mechListMic)))

-----------------------------------------------------------------------------
(* Reading.  None stands for an error.                                       *)

\* decode_length: a length of the long form has one to three bytes.
DecodeLength(data) ==
    IF data = <<>> \/ ~IsByte(data[1]) THEN None
    ELSE LET first == data[1][3]
             count == first - 128
             B(i)  == data[i + 1][3]
         IN IF first < 128 THEN [len |-> first, used |-> 1]
            ELSE IF count \notin 1..3 \/ Len(data) < 1 + count THEN None
            ELSE [len  |-> IF count = 1 THEN B(1)
                           ELSE IF count = 2 THEN B(1) * 256 + B(2)
                           ELSE (B(1) * 256 + B(2)) * 256 + B(3),
                  used |-> 1 + count]

\* An element of this tag and length at the beginning of what follows them.
\* atoms is how many of the data it took.
Element(tag, length, rest) ==
    IF length = None \/ Cuts(rest, length.len) = {} THEN None
    ELSE LET n == Cut(rest, length.len)
         IN [tag |-> tag, value |-> SubSeq(rest, 1, n), atoms |-> 1 + length.used + n]

\* What follows the tag and a length of the data.
Behind(data, length) == IF length = None THEN <<>> ELSE SubSeq(data, length.used + 2, Len(data))

TlvOf(data, length) == Element(data[1][3], length, Behind(data, length))

\* read_tlv
ReadTlv(data) ==
    IF data = <<>> \/ ~IsByte(data[1]) THEN None ELSE TlvOf(data, DecodeLength(Tail(data)))

\* The element at an atom, then those from where it ends.
Prepend(element, k, from) ==
    IF element = None THEN <<>> ELSE <<element>> \o from[k + element.atoms]

\* The elements in a row, up to the end or the first error.
Elements(data) ==
    LET from[k \in 0 .. Len(data)] == Prepend(ReadTlv(SubSeq(data, k + 1, Len(data))), k, from)
    IN from[0]

Tagged(elements, tag) ==
    LET found == {i \in DOMAIN elements : elements[i].tag = Context(tag)}
    IN IF found = {} THEN None ELSE elements[CHOOSE i \in found : \A j \in found : i <= j].value

\* find_context_tag
FindContextTag(data, tag) == Tagged(Elements(data), tag)

ValueIf(element, tag) == IF element = None \/ element.tag # tag THEN None ELSE element.value

\* The value of an element of this tag.
Expect(data, tag) == IF data = None THEN None ELSE ValueIf(ReadTlv(data), tag)

DecodeOctetString(data) == Expect(data, OCTETS)

Weights == <<1, 256, 65536, 16777216>>

\* One to four bytes, the first the most significant.
Number(value) ==
    IF value = None \/ Len(value) \notin 1..4 THEN None
    ELSE Total([i \in DOMAIN value |-> value[i][3] * Weights[Len(value) - i + 1]], Len(value))

DecodeInteger(data) == Number(Expect(data, INTEGER))

Value(element) == IF element = None THEN None ELSE element.value

\* The contents of the element, whatever its tag.
Inside(data) == IF data = None THEN None ELSE Value(ReadTlv(data))

Within(data, tag) == IF data = None THEN None ELSE FindContextTag(data, tag)

\* The token of NegoData.
NegoToken(nego) == DecodeOctetString(Within(Inside(Inside(nego)), 0))

\* A field that is there must decode, except for the token, which is then as
\* if it were not there.  Without a version it is 2.
TsRequest(at) ==
    LET numbers == [tag \in {0, 4} |-> DecodeInteger(at[tag])]
        octets  == [tag \in {2, 3, 5} |-> DecodeOctetString(at[tag])]
    IN IF \/ \E tag \in {0, 4} : at[tag] # None /\ numbers[tag] = None
          \/ \E tag \in {2, 3, 5} : at[tag] # None /\ octets[tag] = None
       THEN None
       ELSE [version     |-> IF at[0] = None THEN 2 ELSE numbers[0],
             negoToken   |-> NegoToken(at[1]),
             authInfo    |-> octets[2],
             pubKeyAuth  |-> octets[3],
             errorCode   |-> numbers[4],
             clientNonce |-> octets[5]]

TsFields(elements) == TsRequest([tag \in 0 .. 5 |-> Tagged(elements, tag)])

DecodeTsRequest(data) ==
    LET fields == Expect(data, SEQUENCE) IN IF fields = None THEN None ELSE TsFields(Elements(fields))

\* What follows the OID of a NegTokenInit.
AfterOid(contents, oid) ==
    IF oid = None THEN None ELSE SubSeq(contents, oid.atoms + 1, Len(contents))

\* The mechToken of a NegTokenInit, or the responseToken of a NegTokenResp.
SpnegoToken(outer) ==
    LET neg == IF outer = None THEN None
               ELSE IF outer.tag = Context(1) THEN outer.value
               ELSE IF outer.tag = GSS
               THEN Within(AfterOid(outer.value, ReadTlv(outer.value)), 0)
               ELSE None
    IN DecodeOctetString(Within(Inside(neg), 2))

DecodeSpnegoToken(data) == SpnegoToken(ReadTlv(data))

=============================================================================
