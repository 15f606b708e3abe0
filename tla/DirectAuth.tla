------------------------------ MODULE DirectAuth ------------------------------
(***************************************************************************)
(* The authentications that take one HTTP exchange (src/auth/basic.rs,        *)
(* certificate.rs, kerberos.rs) and what send_soap makes of their answers.    *)
(* A response is a status, a document and, for Kerberos, the token the server *)
(* may prove itself with.                                                     *)
(***************************************************************************)
EXTENDS SoapParser

Successful(status) == status = 200

\* WinrmError::from_http_status
FromHttpStatus(status, doc) ==
    IF status = 401 THEN "auth"
    ELSE IF status = 500 /\ HasFault(doc) THEN "soap"
    ELSE "status"

\* Basic, and a client certificate: a refusal may be a 403, too.
Direct(r) ==
    IF Successful(r.status) THEN "ok"
    ELSE IF r.status \in {401, 403} THEN "auth"
    ELSE FromHttpStatus(r.status, r.doc)

\* A token that does not prove the server is an error before anything else;
\* none at all passes.
Kerberos(r) ==
    IF r.token \notin {None, "good"} THEN "auth"
    ELSE IF Successful(r.status) THEN "ok"
    ELSE FromHttpStatus(r.status, r.doc)

Authenticated(method, r) == IF method = "kerberos" THEN Kerberos(r) ELSE Direct(r)

SendSoap(method, r) ==
    LET result == Authenticated(method, r)
    IN IF result = "ok" /\ ~CheckSoapFault(r.doc) THEN "soap" ELSE result

=============================================================================
