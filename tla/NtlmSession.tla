---------------------------- MODULE NtlmSession ----------------------------
(***************************************************************************)
(* The NTLM message-security session of src/ntlm/mod.rs, as operators on   *)
(* records.  A session has a sequence number and an RC4 keystream per       *)
(* direction.  Cryptography is abstracted to what the code relies on:       *)
(* a checksum verifies exactly when the receiver decrypts with the key, the *)
(* keystream offset and the sequence number the sender sealed under, and    *)
(* nothing altered the bytes on the way.                                    *)
(***************************************************************************)
EXTENDS Integers

CONSTANT SeqModulus     \* 2^32: client_seq_num and server_seq_num are u32

ASSUME SeqModulusAssumption == SeqModulus \in Nat \ {0}

ChecksumLen == 8        \* bytes of keystream every signature consumes

\* NtlmSession::from_auth: two keys derived from the exported session key
\* by the direction's magic constant, both counters and keystreams at 0.
FromAuth(key) ==
    [sealKey  |-> <<key, "client-to-server">>, clientSeq |-> 0, clientPos |-> 0,
     openKey  |-> <<key, "server-to-client">>, serverSeq |-> 0, serverPos |-> 0]

\* The peer's view of the same session: what this side seals, it opens.
Mirror(s) ==
    [sealKey |-> s.openKey, clientSeq |-> s.serverSeq, clientPos |-> s.serverPos,
     openKey |-> s.sealKey, serverSeq |-> s.clientSeq, serverPos |-> s.clientPos]

\* What HMAC-MD5 under RC4 ties a message to.
Checksum(key, seq, pos, intact) ==
    [key |-> key, seq |-> seq, pos |-> pos, intact |-> intact]

\* seal: the signature carries the sequence number in the clear.
Seal(s, body, len) ==
    [version |-> 1, seq |-> s.clientSeq, len |-> len, body |-> body,
     sum |-> Checksum(s.sealKey, s.clientSeq, s.clientPos, TRUE)]

\* Mutant of AfterSeal: the checksum is sent unencrypted, or with the keystream
\* of the next message.
AfterSealSparesChecksum(s, len) ==
    [s EXCEPT !.clientPos = @ + len, !.clientSeq = (@ + 1) % SeqModulus]

\* The session after seal: rc4(plaintext), then rc4(checksum), then seq += 1
\* (wrapping, as in a build without overflow checks).
AfterSeal(s, len) ==
    [s EXCEPT !.clientPos = @ + len + ChecksumLen,
              !.clientSeq = (@ + 1) % SeqModulus]

\* sign: the payload is not encrypted, so only the checksum uses keystream.
Sign(s, body) == Seal(s, body, 0)

\* Mutant of AfterSign: sign does not count as a message.
AfterSignUncounted(s) == [s EXCEPT !.clientPos = @ + ChecksumLen]

AfterSign(s) == AfterSeal(s, 0)

\* unseal's early returns, which leave the session as it was: too short,
\* another version, another sequence number than the expected one.
HeaderOk(s, m) == m.version = 1 /\ m.seq = s.serverSeq

\* Mutant of ChecksumOk: the checksum covers the body but neither the sequence
\* number nor, being sent unencrypted, the place in the keystream.
ChecksumOfBodyOnly(s, m) == m.sum.key = s.openKey /\ m.sum.intact

ChecksumOk(s, m) == m.sum = Checksum(s.openKey, s.serverSeq, s.serverPos, TRUE)
Opens(s, m) == HeaderOk(s, m) /\ ChecksumOk(s, m)

\* Mutant of AfterUnseal: unseal works on copies of the keystream and counter.
UnsealOnCopy(s, m) == s

\* Mutant of AfterUnseal: a mismatch takes the keystream back over bytes of it
\* that were never used.
UnsealRewinds(s, m) ==
    IF ~HeaderOk(s, m) THEN s
    ELSE IF ChecksumOk(s, m)
    THEN [s EXCEPT !.serverPos = @ + m.len + ChecksumLen, !.serverSeq = (@ + 1) % SeqModulus]
    ELSE [s EXCEPT !.serverPos = @ - m.len - ChecksumLen]

\* The session after unseal.  Past the header checks the keystream has been
\* used whether or not the checksum then verifies; the sequence number moves
\* only when it does.
AfterUnseal(s, m) ==
    IF ~HeaderOk(s, m) THEN s
    ELSE [s EXCEPT !.serverPos = @ + m.len + ChecksumLen,
                   !.serverSeq = IF ChecksumOk(s, m) THEN (@ + 1) % SeqModulus ELSE @]

=============================================================================
