----------------------------- MODULE NtlmMessages -----------------------------
(***************************************************************************)
(* The three messages of an NTLMv2 login (src/ntlm/messages.rs, crypto.rs).   *)
(* A message is Octets: a header, an atom with the message's fixed fields,    *)
(* and the payload its security buffers, [len, offset], point into.  A hash   *)
(* is an atom that stands for its key and its input.                          *)
(***************************************************************************)
EXTENDS Octets, FiniteSets

CONSTANT Lengths   \* UTF-16 units of every text

ASSUME TextsAssumption == {"", "HOST"} \subseteq DOMAIN Lengths

\* Three bytes hold the length of whatever holds some texts.
LongestText == 1048576

ASSUME LengthsAssumption == \A text \in DOMAIN Lengths : Lengths[text] \in 0 .. LongestText

-----------------------------------------------------------------------------
(* Cryptography.                                                             *)

Hmac(key, octets) == <<16, "hmac", <<key, octets>>>>

\* to_utf16le
Utf16(text) == IF Lengths[text] = 0 THEN <<>> ELSE <<<<2 * Lengths[text], "text", text>>>>

\* compute_nt_hash, then compute_ntlmv2_hash: the name in capitals, the domain
\* as it is.
Ntlmv2Hash(password, username, domain) == <<"ntlmv2", password, username, domain>>

\* RC4 of a key under a key.
Encrypted(key, octets) == <<16, "rc4", <<key, octets>>>>

\* compute_channel_bindings
ChannelBindings(cert) == <<16, "md5", cert>>

-----------------------------------------------------------------------------
(* Pairs.                                                                    *)

Av(id, size, value) == <<4 + size, "av", <<id, value>>>>
EndOfList == Av("EOL", 0, <<>>)

\* The pairs of a list, up to its end or to what cannot be read as one.
AvPairs(octets) ==
    LET stops == {i \in DOMAIN octets : octets[i][2] # "av" \/ octets[i] = EndOfList}
    IN IF stops = {} THEN octets
       ELSE SubSeq(octets, 1, (CHOOSE i \in stops : \A j \in stops : i <= j) - 1)

\* A time is read from a pair of eight bytes only.
IsOf(pair, id) == pair[3][1] = id /\ (id = "TIMESTAMP" => pair[1] = 4 + 8)

\* The last pair with this id.
AvValue(octets, id) ==
    LET pairs == AvPairs(octets)
        there == {i \in DOMAIN pairs : IsOf(pairs[i], id)}
    IN IF there = {} THEN None ELSE pairs[CHOOSE i \in there : \A j \in there : i >= j][3][2]

\* Mutant of AuthTargetInfo: pairs are appended after the end of the list.
AppendedTargetInfo(info, bindings, mic, targetName) ==
    info \o (IF bindings = None THEN <<>> ELSE <<Av("CHANNEL_BINDINGS", 16, <<bindings>>)>>)
    \o (IF mic THEN <<Av("TARGET_NAME", 2 * Lengths[targetName], Utf16(targetName)),
                      Av("FLAGS", 4, <<"MIC">>)>> ELSE <<>>)
    \o <<EndOfList>>

\* The last four bytes are taken for the end of the list, which moves.
AuthTargetInfo(info, bindings, mic, targetName) ==
    (IF Size(info) >= 4 THEN Slice(info, 0, Size(info) - 4) ELSE info)
    \o (IF bindings = None THEN <<>> ELSE <<Av("CHANNEL_BINDINGS", 16, <<bindings>>)>>)
    \o (IF mic THEN <<Av("TARGET_NAME", 2 * Lengths[targetName], Utf16(targetName)),
                      Av("FLAGS", 4, <<"MIC">>)>> ELSE <<>>)
    \o <<EndOfList>>

-----------------------------------------------------------------------------
(* Type 1 and Type 2.                                                        *)

\* Lengths have two bytes; what is beyond them is cut off.
Word == 65536

SecurityBuffer(len, offset) == [len |-> len % Word, offset |-> offset]

TYPE1_FLAGS == {"UNICODE", "REQUEST_TARGET", "SIGN", "SEAL", "NTLM", "ALWAYS_SIGN",
                "EXTENDED_SESSIONSECURITY", "VERSION", "128", "KEY_EXCH", "56"}
TYPE1_FLAGS_CREDSSP == TYPE1_FLAGS \cup {"OEM"}

\* create_negotiate_message_with_flags: no names, and a version.
NegotiateMessage(flags) ==
    <<<<40, "type1", [flags |-> flags, domain |-> SecurityBuffer(0, 40),
                      workstation |-> SecurityBuffer(0, 40)]>>>>

\* parse_challenge: the fixed fields, and the target info if there is one and
\* it lies within the message.
ParseChallenge(data) ==
    IF Size(data) < 32 \/ data[1][2] # "type2" THEN None
    ELSE LET fixed == data[1][3]
             sb    == fixed.targetInfo
             info  == IF Size(data) >= 48 /\ sb.offset + sb.len <= Size(data)
                      THEN Slice(data, sb.offset, sb.len) ELSE <<>>
         IN [serverChallenge |-> fixed.serverChallenge, flags |-> fixed.flags,
             targetInfo |-> info, timestamp |-> AvValue(info, "TIMESTAMP")]

-----------------------------------------------------------------------------
(* Type 3.                                                                   *)

\* build_ntlmv2_blob
Blob(timestamp, clientChallenge, info) ==
    <<<<28, "blob", [timestamp |-> timestamp, clientChallenge |-> clientChallenge]>>>>
    \o info \o <<<<4, "zero", 0>>>>

\* Where each of the parts in a row begins.
Offsets(start, parts) ==
    [i \in DOMAIN parts |-> start + Total([k \in DOMAIN parts |-> Size(parts[k])], i - 1)]

\* With a MIC the old response must be zeros.
LmResponse(hash, nonce, random, mic) ==
    IF mic # None THEN <<<<24, "zero", 0>>>>
    ELSE <<Hmac(hash, nonce \o <<<<8, "challenge", random.challenge>>>>),
           <<8, "challenge", random.challenge>>>>

\* The header, as long as what is in it, and the parts it points to.
Type3Message(flags, mic, sum, parts) ==
    LET size   == 64 + (IF "VERSION" \in flags THEN 8 ELSE 0) + (IF mic # None THEN 16 ELSE 0)
        starts == Offsets(size, parts)
        sb     == [i \in DOMAIN parts |-> SecurityBuffer(Size(parts[i]), starts[i])]
    IN <<<<size, "type3", [lm |-> sb[1], nt |-> sb[2], domain |-> sb[3], user |-> sb[4],
                           workstation |-> sb[5], key |-> sb[6], flags |-> flags, mic |-> sum]>>>>
       \o parts[1] \o parts[2] \o parts[3] \o parts[4] \o parts[5] \o parts[6]

\* The sum over all three messages, the place of the sum being empty.
Mic(key, mic, type3) == <<Hmac(key, mic.type1 \o mic.type2 \o type3)>>

\* create_authenticate_message_full.  mic is None or the first two messages;
\* shown, unless None, is the domain the message names instead of the one that
\* went into the hash.  random is what the client draws, clock its time.
AuthenticateMessage(challenge, person, bindings, flags, mic, targetName, shown, random, clock) ==
    LET hash    == Ntlmv2Hash(person.password, person.user, person.domain)
        time    == IF challenge.timestamp = None THEN clock ELSE challenge.timestamp
        info    == AuthTargetInfo(challenge.targetInfo, bindings, mic # None, targetName)
        blob    == Blob(time, random.challenge, info)
        nonce   == <<<<8, "challenge", challenge.serverChallenge>>>>
        proof   == Hmac(hash, nonce \o blob)
        base    == <<"session", hash, proof>>
        domain  == IF shown = None THEN person.domain ELSE shown
        parts   == <<LmResponse(hash, nonce, random, mic), <<proof>> \o blob, Utf16(domain), Utf16(person.user),
                     IF mic # None THEN Utf16("HOST") ELSE <<>>, <<Encrypted(base, random.key)>>>>
        plain   == Type3Message(flags, mic, <<>>, parts)
    IN IF mic = None THEN plain
       ELSE Type3Message(flags, mic, Mic(random.key, mic, plain), parts)

Mirrored(challenge) == challenge.flags \cup {"KEY_EXCH", "VERSION"}

\* create_authenticate_message_with_cbt_and_key
AuthenticateWithCbt(challenge, person, bindings, random, clock) ==
    AuthenticateMessage(challenge, person, bindings, Mirrored(challenge), None, None, None,
                        random, clock)

\* create_authenticate_message_with_key_and_mic
AuthenticateWithMic(challenge, person, type1, type2, targetName, random, clock) ==
    AuthenticateMessage(challenge, person, None, Mirrored(challenge),
                        [type1 |-> type1, type2 |-> type2], targetName, None, random, clock)

\* create_authenticate_message_credssp: the message names no domain.
AuthenticateCredSsp(challenge, person, type1, type2, targetName, random, clock) ==
    AuthenticateMessage(challenge, person, None, Mirrored(challenge) \cup {"SEAL", "SIGN"},
                        [type1 |-> type1, type2 |-> type2], targetName, "", random, clock)

=============================================================================
