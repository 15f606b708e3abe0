-------------------------- MODULE MCSealedTransport --------------------------
(* Instances of SealedTransport.  A task needs one connection, and each idle   *)
(* host may keep one more; a handshake key is held by at most one task, one    *)
(* connection and the cache, which bounds MaxKeys.                            *)
EXTENDS SealedTransport, TLC

CONSTANTS t1, t2, c1, c2, c3

TwoTasks   == {t1, t2}
OneTask    == {t1}
TwoConns   == {c1, c2}
ThreeConns == {c1, c2, c3}

SealedHttp == [encrypt |-> TRUE, tls |-> FALSE]
PlainTls   == [encrypt |-> FALSE, tls |-> TRUE]

\* EncryptionMode Auto, without and with TLS.
AutoModes == {SealedHttp, PlainTls}
OverTls   == {PlainTls}

Unauthorized == {"401"}
AnyStatus    == {"401", "503"}

=============================================================================
