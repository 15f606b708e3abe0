--------------------------- MODULE SealedTransport ---------------------------
(***************************************************************************)
(* HttpTransport with NTLM authentication (src/transport.rs, src/auth/      *)
(* ntlm.rs): concurrent calls of send_soap_with_retry share one HTTP        *)
(* connection pool and one cached NtlmSession behind a mutex, while NTLM     *)
(* authenticates connections.  A step of a call is what the code does       *)
(* between two awaits.  The pool (reqwest) and the server are external:      *)
(* they are modelled as the code uses them.                                 *)
(***************************************************************************)
EXTENDS NtlmSession, Sequences, FiniteSets

CONSTANTS Tasks,          \* concurrent callers
          Hosts,
          Conns,          \* TCP connections that may exist at a time
          MaxKeys,        \* bound: handshakes whose key is in use at a time
          None,
          Configs,        \* configurations: is a body sealed, is the channel TLS
          MaxRetries,     \* WinrmConfig::max_retries
          GoodCredentials,\* whether the server accepts the user's proof
          BadSealStatus,  \* how the server answers a body it cannot open
          MaxCalls,       \* bound: calls per task
          MaxFaults,      \* bound: connections broken and requests failed
          MaxExpiries,    \* bound: security contexts the server forgets
          MaxCancels      \* bound: futures dropped by the caller

ASSUME TransportAssumption ==
    /\ Configs \subseteq [encrypt : BOOLEAN, tls : BOOLEAN] /\ GoodCredentials \in BOOLEAN
    /\ MaxRetries \in Nat /\ MaxCalls \in Nat
    /\ MaxKeys \in Nat
    /\ MaxFaults \in Nat /\ MaxExpiries \in Nat /\ MaxCancels \in Nat
    /\ BadSealStatus \subseteq {"401", "503"} /\ BadSealStatus # {}
    /\ None \notin Tasks \cup Conns \cup Hosts \cup (Tasks \X Nat)

\* A key is held by a task, a connection or the cache, so there is always another.
ASSUME KeysAssumption ==
    /\ IsFiniteSet(Tasks) /\ IsFiniteSet(Conns)
    /\ MaxKeys > Cardinality(Tasks) + Cardinality(Conns) + 1

VARIABLES task,      \* per task: where its call is and what it holds
          queue,     \* ntlm_cache's mutex: the holder, then the waiters (FIFO)
          cache,     \* ntlm_cache: None or [host, session]
          conn,      \* the pool's connections and the server's context of each
          executed,  \* per task: times the server ran the current call's body
          budget,    \* faults, expiries and cancels still allowed
          captured,  \* CertCapturingVerifier: the host whose certificate it saw last
          known,     \* hosts whose TLS session can be resumed
          config     \* encrypt: EncryptionMode Always, or Auto without TLS

verifier == <<captured, known>>
vars == <<task, queue, cache, conn, executed, budget, verifier, config>>

Key(session) == session.sealKey[1]
Body(t)      == <<t, task[t].call>>
Plain(t)     == [body |-> Body(t)]
NoBody       == [body |-> None]
BodyLen      == 1
NoChallenge  == <<None, 0>>     \* in the place of a key, which is <<host, number>>
NoCtx        == [kind |-> "none", session |-> None]
Closed       == [state |-> "closed", host |-> None, ctx |-> NoCtx, msg |-> None]

Idle == [pc |-> "idle", host |-> None, call |-> 0, attempt |-> 0, mode |-> "blank",
         session |-> None, conn |-> None, result |-> "none", reply |-> None]

Init ==
    /\ task = [t \in Tasks |-> Idle]
    /\ queue = <<>>
    /\ cache = None
    /\ conn = [c \in Conns |-> Closed]
    /\ executed = [t \in Tasks |-> 0]
    /\ budget = [faults |-> MaxFaults, expiries |-> MaxExpiries, cancels |-> MaxCancels]
    /\ captured = None /\ known = {}
    /\ config \in Configs

-----------------------------------------------------------------------------
(* The pool: one idle connection per host (pool_max_idle_per_host(1)).       *)

Reusable(h) == {c \in Conns : conn[c].state = "idle" /\ conn[c].host = h}

\* The connection a request of the host goes to: its idle one, or else a new one
\* (which of the closed ones stands for it tells nothing apart).
Available(h) ==
    IF Reusable(h) # {} THEN Reusable(h)
    ELSE LET closed == {c \in Conns : conn[c].state = "closed"}
         IN IF closed = {} THEN {} ELSE {CHOOSE c \in closed : TRUE}

\* The TLS handshake of a new connection shows its certificate to the one
\* verifier of all hosts, unless it resumes a session.
TlsHandshake(h) ==
    \/ config.tls /\ captured' = h /\ known' = known \cup {h}
    \/ (config.tls => h \in known) /\ UNCHANGED verifier

\* POST on the idle connection of the host, or on a new one.
Post(t, request, next) ==
    \E c \in Available(task[t].host) :
        /\ IF conn[c].state = "idle" THEN UNCHANGED verifier ELSE TlsHandshake(task[t].host)
        /\ conn' = [conn EXCEPT ![c].state = "asked", ![c].host = task[t].host,
                                ![c].msg = request]
        /\ task' = [task EXCEPT ![t] = [next EXCEPT !.conn = c]]

\* The connection after its response has been read to the end.
Released(c) ==
    IF Reusable(conn[c].host) = {} THEN [conn[c] EXCEPT !.state = "idle", !.msg = None]
                                   ELSE Closed

\* Mutant of ReadIgnored: the body is not read, and the connection is closed.
LeftUnread(c) == conn' = [conn EXCEPT ![c] = Closed] /\ UNCHANGED budget

\* `let _ = resp.bytes().await`: the body is read for the connection's sake, and
\* a failure to read it goes unnoticed.
ReadIgnored(c) ==
    \/ conn' = [conn EXCEPT ![c] = Released(c)] /\ UNCHANGED budget
    \/ /\ budget.faults > 0
       /\ budget' = [budget EXCEPT !.faults = @ - 1]
       /\ conn' = [conn EXCEPT ![c] = Closed]

\* The response is dropped unread: reused only if it had no body to read.
Dropped(c) == {Released(c), Closed}

Response(t) == conn[task[t].conn].msg
Answered(t, pc) ==
    /\ task[t].pc = pc
    /\ task[t].conn # None
    /\ conn[task[t].conn].state = "answered"

-----------------------------------------------------------------------------
(* Entering and leaving send_soap.                                           *)

Waiting(t, pc) == [task[t] EXCEPT !.pc = pc, !.conn = None]

\* send_soap's dispatch, for a call or a retry of it.
Enter(t, fields) ==
    IF config.encrypt
    THEN /\ task' = [task EXCEPT ![t] = [fields EXCEPT !.pc = "lock", !.mode = "blank"]]
         /\ queue' = Append(queue, t)
    ELSE /\ task' = [task EXCEPT ![t] = [fields EXCEPT !.pc = "type1", !.mode = "plain"]]
         /\ UNCHANGED queue

Call(t, h) ==
    /\ task[t].pc = "idle" /\ task[t].call < MaxCalls
    /\ Enter(t, [Idle EXCEPT !.host = h, !.call = task[t].call + 1])
    /\ executed' = [executed EXCEPT ![t] = 0]
    /\ UNCHANGED <<cache, conn, budget>>

\* The task record once an attempt ended: only Http errors are tried again.
Ended(t, result, reply) ==
    IF result = "http" /\ task[t].attempt < MaxRetries
    THEN [task[t] EXCEPT !.pc = "backoff", !.conn = None, !.session = None,
                         !.attempt = @ + 1]
    ELSE [task[t] EXCEPT !.pc = "idle", !.conn = None, !.session = None,
                         !.result = result, !.reply = reply]

Retry(t) ==
    /\ task[t].pc = "backoff"
    /\ Enter(t, task[t])
    /\ UNCHANGED <<cache, conn, executed, budget>>

\* The queue without t, which is in it at most once.
Remove(t) ==
    IF \E i \in 1 .. Len(queue) : queue[i] = t
    THEN LET i == CHOOSE i \in 1 .. Len(queue) : queue[i] = t
         IN SubSeq(queue, 1, i - 1) \o SubSeq(queue, i + 1, Len(queue))
    ELSE queue
Holds(t)  == queue # <<>> /\ Head(queue) = t

-----------------------------------------------------------------------------
(* send_ntlm_sealed: the cached session.                                     *)

\* Mutant of CachedFor: whatever is cached is used.
AnyCached(h) == cache # None

CachedFor(h) == cache # None /\ cache.host = h

\* Mutant of CacheMiss: the guard lives on, for want of the inner block.
CacheMissKeepsLock(t) ==
    /\ task[t].pc = "lock" /\ Holds(t)
    /\ ~CachedFor(task[t].host)
    /\ cache' = None
    /\ task' = [task EXCEPT ![t].pc = "type1"]
    /\ UNCHANGED <<queue, conn, executed, budget>>

\* No session, or one for another host, which is forgotten.
CacheMiss(t) ==
    /\ task[t].pc = "lock" /\ Holds(t)
    /\ ~CachedFor(task[t].host)
    /\ cache' = None
    /\ queue' = Remove(t)
    /\ task' = [task EXCEPT ![t].pc = "type1"]
    /\ UNCHANGED <<conn, executed, budget>>

\* Seal with the cached session and send, holding the lock.
CacheHit(t) ==
    /\ task[t].pc = "lock" /\ Holds(t)
    /\ CachedFor(task[t].host)
    /\ Post(t, [kind |-> "sealed", key |-> None, body |-> Seal(cache.session, Body(t), BodyLen)],
            [task[t] EXCEPT !.pc = "cachedWait"])
    /\ cache' = [cache EXCEPT !.session = AfterSeal(@, BodyLen)]
    /\ UNCHANGED <<queue, executed, budget>>

\* Mutant of Unsealed: an unsealed answer is returned without a look at its status.
UnsealedAnyStatus(session, resp) ==
    CASE resp.body = NoBody -> "ok"
      [] resp.body # NoBody /\ ~Opens(session, resp.body) -> "ntlm"
      [] OTHER -> IF resp.status = "200" THEN "ok" ELSE "soap"

\* send_sealed_body's reading of a response other than 401: what it returns.
Unsealed(session, resp) ==
    CASE resp.body # NoBody /\ Opens(session, resp.body) ->
             IF resp.status = "200" THEN "ok" ELSE "soap"
      [] resp.body # NoBody /\ ~Opens(session, resp.body) ->
             IF resp.status = "200" THEN "ntlm" ELSE "http_status"
      [] resp.body = NoBody -> IF resp.status = "200" THEN "ok" ELSE "http_status"

ReadBy(session, resp) == IF resp.body = NoBody THEN session ELSE AfterUnseal(session, resp.body)
ReplyOf(resp) == resp.body.body

\* Mutant of CachedRejected: the session is forgotten, and the 401 returned.
CachedRejectedReturned(t) ==
    /\ Answered(t, "cachedWait") /\ Response(t).status = "401"
    /\ cache' = None
    /\ queue' = Remove(t)
    /\ \E after \in Dropped(task[t].conn) : conn' = [conn EXCEPT ![task[t].conn] = after]
    /\ task' = [task EXCEPT ![t] = Ended(t, "auth", None)]
    /\ UNCHANGED <<executed, budget>>

\* 401: forget the session, give up the lock and authenticate again.
CachedRejected(t) ==
    /\ Answered(t, "cachedWait") /\ Response(t).status = "401"
    /\ cache' = None
    /\ queue' = Remove(t)
    /\ \E after \in Dropped(task[t].conn) : conn' = [conn EXCEPT ![task[t].conn] = after]
    /\ task' = [task EXCEPT ![t] = Waiting(t, "type1")]
    /\ UNCHANGED <<executed, budget>>

\* Anything else is returned, and the session stays cached even after an error.
CachedReplied(t) ==
    /\ Answered(t, "cachedWait") /\ Response(t).status # "401"
    /\ cache' = [cache EXCEPT !.session = ReadBy(@, Response(t))]
    /\ queue' = Remove(t)
    /\ conn' = [conn EXCEPT ![task[t].conn] = Released(task[t].conn)]
    /\ task' = [task EXCEPT ![t] =
                   Ended(t, Unsealed(cache.session, Response(t)), ReplyOf(Response(t)))]
    /\ UNCHANGED <<executed, budget>>

-----------------------------------------------------------------------------
(* do_handshake: Type 1, Type 2, Type 3.  mode tells what Type 3 carries:    *)
(* nothing ("blank"), the sealed body ("sealed") or the body ("plain").      *)

PostType1(t) ==
    /\ task[t].pc = "type1"
    /\ Post(t, [kind |-> "type1", key |-> None, body |-> NoBody],
            [task[t] EXCEPT !.pc = "type1Wait"])
    /\ UNCHANGED <<queue, cache, executed, budget>>

\* A 401 with a challenge: the body is consumed to release the connection.
Challenged(t) ==
    /\ Answered(t, "type1Wait")
    /\ Response(t).status = "401" /\ Response(t).key # NoChallenge
    /\ ReadIgnored(task[t].conn)
    /\ task' = [task EXCEPT ![t] = [Waiting(t, "type3") EXCEPT
                                      !.session = FromAuth(Response(t).key)]]
    /\ UNCHANGED <<queue, cache, executed>>

\* Another status, or a 401 without a challenge, is an AuthFailed; a challenge
\* that cannot be decoded, an Ntlm error.
NotChallenged(t) ==
    /\ Answered(t, "type1Wait")
    /\ Response(t).status # "401" \/ Response(t).key = NoChallenge
    /\ \E after \in Dropped(task[t].conn) : conn' = [conn EXCEPT ![task[t].conn] = after]
    /\ \E result \in {"auth"} \cup (IF Response(t).status = "401" THEN {"ntlm"} ELSE {}) :
           task' = [task EXCEPT ![t] = Ended(t, result, None)]
    /\ UNCHANGED <<queue, cache, executed, budget>>

\* Type 3 is bound to the certificate captured last; None is no binding.
ChannelBinding == IF config.tls THEN captured ELSE None

PostType3(t) ==
    /\ task[t].pc = "type3"
    /\ LET s == task[t].session
           next == [task[t] EXCEPT !.pc = "type3Wait"]
           Type3(body) == [kind |-> "type3", key |-> Key(s), body |-> body,
                           binding |-> ChannelBinding]
       IN CASE task[t].mode = "blank"  -> Post(t, Type3(NoBody), next)
            [] task[t].mode = "plain"  -> Post(t, Type3(Plain(t)), next)
            [] task[t].mode = "sealed" -> Post(t, Type3(Seal(s, Body(t), BodyLen)),
                                               [next EXCEPT !.session = AfterSeal(s, BodyLen)])
    /\ UNCHANGED <<queue, cache, executed, budget>>

Type3Rejected(t) ==
    /\ Answered(t, "type3Wait") /\ Response(t).status = "401"
    /\ \E after \in Dropped(task[t].conn) : conn' = [conn EXCEPT ![task[t].conn] = after]
    /\ task' = [task EXCEPT ![t] = Ended(t, "auth", None)]
    /\ UNCHANGED <<queue, cache, executed, budget>>

\* The blank Type 3: every status but 401 counts as accepted.
BlankAccepted(t) ==
    /\ Answered(t, "type3Wait") /\ Response(t).status # "401" /\ task[t].mode = "blank"
    /\ ReadIgnored(task[t].conn)
    /\ task' = [task EXCEPT ![t] = Waiting(t, "sealed")]
    /\ UNCHANGED <<queue, cache, executed>>

PlainResult(status) ==
    CASE status = "200" -> "ok" [] status = "500" -> "soap" [] status = "503" -> "http_status"

PlainReplied(t) ==
    /\ Answered(t, "type3Wait") /\ Response(t).status # "401" /\ task[t].mode = "plain"
    /\ conn' = [conn EXCEPT ![task[t].conn] = Released(task[t].conn)]
    /\ task' = [task EXCEPT ![t] =
                   Ended(t, PlainResult(Response(t).status), ReplyOf(Response(t)))]
    /\ UNCHANGED <<queue, cache, executed, budget>>

\* handshake_and_send_sealed returned: on success a session derived again from
\* the key, so at sequence number 0, is what goes into the cache.
SealedType3Replied(t) ==
    /\ Answered(t, "type3Wait") /\ Response(t).status # "401" /\ task[t].mode = "sealed"
    /\ conn' = [conn EXCEPT ![task[t].conn] = Released(task[t].conn)]
    /\ LET result == Unsealed(task[t].session, Response(t))
       IN IF result = "ok"
          THEN /\ task' = [task EXCEPT ![t] = [Waiting(t, "store") EXCEPT
                              !.session = FromAuth(Key(@)), !.reply = ReplyOf(Response(t))]]
               /\ queue' = Append(queue, t)
          ELSE /\ task' = [task EXCEPT ![t] = Ended(t, result, ReplyOf(Response(t)))]
               /\ UNCHANGED queue
    /\ UNCHANGED <<cache, executed, budget>>

-----------------------------------------------------------------------------
(* send_ntlm_sealed after the blank handshake.                               *)

PostSealed(t) ==
    /\ task[t].pc = "sealed"
    /\ Post(t, [kind |-> "sealed", key |-> None,
                body |-> Seal(task[t].session, Body(t), BodyLen)],
            [task[t] EXCEPT !.pc = "sealedWait", !.session = AfterSeal(@, BodyLen)])
    /\ UNCHANGED <<queue, cache, executed, budget>>

\* 401: the connection was not the authenticated one; seal inside Type 3.
SealedRejected(t) ==
    /\ Answered(t, "sealedWait") /\ Response(t).status = "401"
    /\ \E after \in Dropped(task[t].conn) : conn' = [conn EXCEPT ![task[t].conn] = after]
    /\ task' = [task EXCEPT ![t] = [Waiting(t, "type1") EXCEPT !.mode = "sealed",
                                                               !.session = None]]
    /\ UNCHANGED <<queue, cache, executed, budget>>

SealedReplied(t) ==
    /\ Answered(t, "sealedWait") /\ Response(t).status # "401"
    /\ conn' = [conn EXCEPT ![task[t].conn] = Released(task[t].conn)]
    /\ LET result == Unsealed(task[t].session, Response(t))
       IN IF result = "ok"
          THEN /\ task' = [task EXCEPT ![t] = [Waiting(t, "store") EXCEPT
                              !.session = ReadBy(@, Response(t)),
                              !.reply = ReplyOf(Response(t))]]
               /\ queue' = Append(queue, t)
          ELSE /\ task' = [task EXCEPT ![t] = Ended(t, result, ReplyOf(Response(t)))]
               /\ UNCHANGED queue
    /\ UNCHANGED <<cache, executed, budget>>

\* The session is cached, over whatever another call cached meanwhile.
Store(t) ==
    /\ task[t].pc = "store" /\ Holds(t)
    /\ cache' = [host |-> task[t].host, session |-> task[t].session]
    /\ queue' = Remove(t)
    /\ task' = [task EXCEPT ![t] = Ended(t, "ok", task[t].reply)]
    /\ UNCHANGED <<conn, executed, budget>>

-----------------------------------------------------------------------------
(* Failures on the client's side of a connection.                            *)

\* Mutant of HttpError: any error of a sealed or Type 3 request, and not only a
\* 401, leads to a new handshake.
HttpErrorReauthenticates(t) ==
    /\ task[t].conn # None
    /\ budget.faults > 0
    /\ budget' = [budget EXCEPT !.faults = @ - 1]
    /\ conn' = [conn EXCEPT ![task[t].conn] = Closed]
    /\ task' = [task EXCEPT ![t] = Waiting(t, "type1")]
    /\ queue' = Remove(t)
    /\ UNCHANGED <<cache, executed>>

\* send() or bytes() fails, for a broken connection or the client's timeout:
\* nobody knows whether the server got the request.  (What a server still runs
\* after its client gave up is run, in the model, before that.)
HttpError(t) ==
    /\ task[t].conn # None
    /\ ~(Answered(t, "type1Wait") \/ (Answered(t, "type3Wait") /\ task[t].mode = "blank"))
    /\ budget.faults > 0
    /\ budget' = [budget EXCEPT !.faults = @ - 1]
    /\ conn' = [conn EXCEPT ![task[t].conn] = Closed]
    /\ task' = [task EXCEPT ![t] = Ended(t, "http", None)]
    /\ queue' = Remove(t)
    /\ UNCHANGED <<cache, executed>>

\* Mutant of Cancel: the dropped future keeps its place at the mutex.
CancelInQueue(t) ==
    /\ task[t].pc # "idle"
    /\ budget.cancels > 0
    /\ budget' = [budget EXCEPT !.cancels = @ - 1]
    /\ conn' = IF task[t].conn = None THEN conn ELSE [conn EXCEPT ![task[t].conn] = Closed]
    /\ task' = [task EXCEPT ![t] = [Idle EXCEPT !.call = task[t].call,
                                                !.result = "cancelled"]]
    /\ UNCHANGED <<queue, cache, executed>>

\* The caller drops the future (timeout, select!): its connection is closed and
\* its place at the mutex is given up.
Cancel(t) ==
    /\ task[t].pc # "idle"
    /\ budget.cancels > 0
    /\ budget' = [budget EXCEPT !.cancels = @ - 1]
    /\ conn' = IF task[t].conn = None THEN conn ELSE [conn EXCEPT ![task[t].conn] = Closed]
    /\ task' = [task EXCEPT ![t] = [Idle EXCEPT !.call = task[t].call,
                                                !.attempt = task[t].attempt,
                                                !.result = "cancelled"]]
    /\ queue' = Remove(t)
    /\ UNCHANGED <<cache, executed>>

-----------------------------------------------------------------------------
(* The server (external).  Its security context belongs to the connection.   *)

Sessions == {conn[c].ctx.session : c \in Conns} \cup {task[t].session : t \in Tasks}
                \cup {IF cache = None THEN None ELSE cache.session}

\* A key nobody holds any more may be drawn again: only equality matters.
FreshKey(h) ==
    LET used == {Key(s) : s \in Sessions \ {None}}
    IN <<h, CHOOSE k \in 1..MaxKeys : <<h, k>> \notin used>>

Respond(c, status, key, body, ctx) ==
    conn' = [conn EXCEPT ![c].state = "answered", ![c].ctx = ctx,
                         ![c].msg = [status |-> status, key |-> key, body |-> body]]

Ran(body) == executed' = [executed EXCEPT ![body[1]] = @ + 1]

\* Type 1: a new challenge replaces whatever context the connection had.
ServeType1(c) ==
    /\ conn[c].state = "asked" /\ conn[c].msg.kind = "type1"
    /\ LET key == FreshKey(conn[c].host)
       IN Respond(c, "401", key, NoBody,
                  [kind |-> "challenged", session |-> Mirror(FromAuth(key))])
    /\ UNCHANGED <<task, queue, cache, executed, budget>>

\* The server opens a sealed body in context s, runs it and seals the reply.
RunSealed(c, s, m) ==
    LET opened == AfterUnseal(s, m)
    IN \E status \in {"200", "500"} :
        /\ Respond(c, status, NoChallenge, Seal(opened, m.body, BodyLen),
                   [kind |-> "open", session |-> AfterSeal(opened, BodyLen)])
        /\ Ran(m.body)

\* Type 3 must answer the challenge last sent on this very connection, and a
\* binding, where there is one, be that of the server's own certificate.
ServeType3(c) ==
    /\ conn[c].state = "asked" /\ conn[c].msg.kind = "type3"
    /\ LET ctx == conn[c].ctx
           body == conn[c].msg.body
           accepted == /\ GoodCredentials /\ ctx.kind = "challenged"
                       /\ ctx.session.openKey[1] = conn[c].msg.key
                       /\ conn[c].msg.binding \in {None, conn[c].host}
           open == [ctx EXCEPT !.kind = "open"]
       IN CASE ~accepted -> Respond(c, "401", NoChallenge, NoBody, NoCtx) /\ UNCHANGED executed
            [] accepted /\ body = NoBody ->
                   Respond(c, "200", NoChallenge, NoBody, open) /\ UNCHANGED executed
            [] accepted /\ body # NoBody /\ ~config.encrypt ->
                   \E status \in {"200", "500"} : Respond(c, status, NoChallenge, body, open)
                                                   /\ Ran(body.body)
            [] accepted /\ body # NoBody /\ config.encrypt -> RunSealed(c, ctx.session, body)
    /\ UNCHANGED <<task, queue, cache, budget>>

\* A sealed body without Authorization needs the connection's open context.
ServeSealed(c) ==
    /\ conn[c].state = "asked" /\ conn[c].msg.kind = "sealed"
    /\ LET ctx == conn[c].ctx
           m == conn[c].msg.body
       IN CASE ctx.kind # "open" ->
                   Respond(c, "401", NoChallenge, NoBody, NoCtx) /\ UNCHANGED executed
            [] ctx.kind = "open" /\ ~Opens(ctx.session, m) ->
                   \E status \in BadSealStatus :
                       /\ Respond(c, status, NoChallenge, NoBody, IF status = "401" THEN NoCtx ELSE ctx)
                       /\ UNCHANGED executed
            [] ctx.kind = "open" /\ Opens(ctx.session, m) -> RunSealed(c, ctx.session, m)
    /\ UNCHANGED <<task, queue, cache, budget>>

\* The server fails the request unread: an unsealed error, or to Type 1 a 401
\* that offers no challenge.
ServerFails(c) ==
    /\ conn[c].state = "asked"
    /\ budget.faults > 0
    /\ budget' = [budget EXCEPT !.faults = @ - 1]
    /\ \E status \in {"503"} \cup (IF conn[c].msg.kind = "type1" THEN {"401"} ELSE {}) :
           Respond(c, status, NoChallenge, NoBody, conn[c].ctx)
    /\ UNCHANGED <<task, queue, cache, executed>>

\* The server forgets the security context of an idle connection...
Expire(c) ==
    /\ conn[c].state = "idle" /\ conn[c].ctx # NoCtx
    /\ budget.expiries > 0
    /\ budget' = [budget EXCEPT !.expiries = @ - 1]
    /\ conn' = [conn EXCEPT ![c].ctx = NoCtx]
    /\ UNCHANGED <<task, queue, cache, executed>>

\* ... or closes it.
IdleClosed(c) ==
    /\ conn[c].state = "idle"
    /\ budget.expiries > 0
    /\ budget' = [budget EXCEPT !.expiries = @ - 1]
    /\ conn' = [conn EXCEPT ![c] = Closed]
    /\ UNCHANGED <<task, queue, cache, executed>>

-----------------------------------------------------------------------------
PostStep(t) == CacheHit(t) \/ PostType1(t) \/ PostType3(t) \/ PostSealed(t)

InnerStep(t) ==
    /\ \/ Retry(t) \/ CacheMiss(t) \/ CachedRejected(t) \/ CachedReplied(t)
       \/ Challenged(t) \/ NotChallenged(t)
       \/ Type3Rejected(t) \/ BlankAccepted(t) \/ PlainReplied(t) \/ SealedType3Replied(t)
       \/ SealedRejected(t) \/ SealedReplied(t) \/ Store(t)
    /\ UNCHANGED verifier

TaskStep(t) == (PostStep(t) \/ InnerStep(t)) /\ UNCHANGED config

ServerStep(c) ==
    (ServeType1(c) \/ ServeType3(c) \/ ServeSealed(c)) /\ UNCHANGED <<verifier, config>>

Environment ==
    /\ \/ \E t \in Tasks : HttpError(t) \/ Cancel(t) \/ \E h \in Hosts : Call(t, h)
       \/ \E c \in Conns : ServerFails(c) \/ Expire(c) \/ IdleClosed(c)
    /\ UNCHANGED <<verifier, config>>

Next == (\E t \in Tasks : TaskStep(t)) \/ (\E c \in Conns : ServerStep(c)) \/ Environment

Spec == Init /\ [][Next]_vars

\* The executor polls every ready task, and the server answers what it is
\* asked (what it leaves unanswered ends in HttpError, by reqwest's timeout).
Fairness ==
    /\ \A t \in Tasks : WF_vars(TaskStep(t))
    /\ \A c \in Conns : WF_vars(ServerStep(c))

FairSpec == Spec /\ Fairness

-----------------------------------------------------------------------------
Keys == Hosts \X (1..MaxKeys)

IsSession(s) ==
    /\ s.sealKey \in Keys \X {"client-to-server", "server-to-client"}
    /\ s.openKey \in Keys \X {"client-to-server", "server-to-client"}
    /\ {s.clientSeq, s.serverSeq} \subseteq 0..(SeqModulus - 1)
    /\ {s.clientPos, s.serverPos} \subseteq Nat

Results == {"none", "ok", "auth", "http", "http_status", "soap", "ntlm", "cancelled"}

\* Type invariant, with the exclusive use of connections and of the mutex.
TypeOK ==
    /\ \A t \in Tasks :
        /\ task[t].pc \in {"idle", "backoff", "lock", "cachedWait", "type1", "type1Wait",
                           "type3", "type3Wait", "sealed", "sealedWait", "store"}
        /\ task[t].mode \in {"blank", "sealed", "plain"}
        /\ task[t].call \in 0..MaxCalls /\ task[t].attempt \in 0..MaxRetries
        /\ task[t].result \in Results
        /\ task[t].session = None \/ IsSession(task[t].session)
        /\ task[t].conn # None <=> task[t].pc \in {"cachedWait", "type1Wait", "type3Wait",
                                                   "sealedWait"}
    /\ \A c \in Conns :
        /\ conn[c].state \in {"closed", "idle", "asked", "answered"}
        /\ Cardinality({t \in Tasks : task[t].conn = c}) =
               IF conn[c].state \in {"asked", "answered"} THEN 1 ELSE 0
        /\ conn[c].ctx.kind \in {"none", "challenged", "open"}
    /\ \A t \in Tasks : Cardinality({i \in DOMAIN queue : queue[i] = t}) =
               IF task[t].pc \in {"lock", "cachedWait", "store"} THEN 1 ELSE 0
    /\ cache = None \/ (cache.host \in Hosts /\ IsSession(cache.session))
    /\ DOMAIN executed = Tasks /\ config \in Configs
    /\ captured \in known \cup {None} /\ known \subseteq Hosts

\* However a call was refused, re-authenticated or raced by others, the server
\* runs its SOAP body at most once per attempt: only an Http error (or the
\* retry it causes) can have a body run again, never a 401.
AtMostOncePerAttempt == \A t \in Tasks : executed[t] <= task[t].attempt + 1

\* A call that returns Ok returns the server's answer to this very call, which
\* has been run; without retries, exactly once.
OkIsOwnReply ==
    \A t \in Tasks : task[t].result = "ok" =>
        /\ task[t].reply = Body(t)
        /\ executed[t] >= 1
        /\ task[t].attempt = 0 => executed[t] = 1

\* What the sealed-body and Type 3 requests carry towards a host was sealed
\* with a key negotiated with that host: the single cache slot, shared by all
\* hosts, never leaks a session from one to another.  And over TLS no Type 3
\* goes without a channel binding (that it is the right one is not so).
SealedForItsHost ==
    \A c \in Conns : conn[c].state = "asked" =>
        /\ conn[c].msg.kind = "sealed" => conn[c].msg.body.sum.key[1][1] = conn[c].host
        /\ conn[c].msg.kind = "type3"  => /\ conn[c].msg.key[1] = conn[c].host
                                          /\ config.tls => conn[c].msg.binding # None

\* The cached session and the context of the pooled connection it belongs to
\* agree on every counter, so that the next request on it is accepted.
CachedSessionInSync ==
    \A c \in Conns :
        (/\ cache # None /\ conn[c].state = "idle" /\ conn[c].host = cache.host
         /\ conn[c].ctx.kind = "open"
         /\ Key(conn[c].ctx.session) = Key(cache.session))
            => conn[c].ctx.session = Mirror(cache.session)

\* "Channel Binding Tokens (CBT) bind the NTLM auth to the TLS channel": a Type 3
\* carries the binding of the connection it is sent on.
BoundToItsChannel ==
    \A c \in Conns : conn[c].state = "asked" /\ conn[c].msg.kind = "type3" /\ config.tls
        => conn[c].msg.binding = conn[c].host

Undisturbed == budget = [faults |-> MaxFaults, expiries |-> MaxExpiries, cancels |-> MaxCancels]

\* The verifier saw another host's certificate since this host's connection was
\* opened, so that a Type 3 on it is bound to the wrong channel.
BoundElsewhere(t) == config.tls /\ captured # task[t].host

\* With one caller, and as long as nothing broke, expired or was cancelled, the
\* cached session is in step with the server over any sequence of calls to any
\* hosts, and good credentials are never reported as rejected: the Type 3, and
\* the sealed body after it, travel on the connection that was challenged.  The
\* exception is a Type 3 bound to another host's certificate
\* (send_ntlm_sealed, do_handshake, unseal_body).
InStepAlone ==
    Undisturbed =>
        /\ CachedSessionInSync
        /\ \A t \in Tasks : task[t].result = "auth" => ~GoodCredentials \/ BoundElsewhere(t)

\* Every call returns: the mutex is never left locked, by an error, by a caller
\* that gave up or by one that waits for it a second time to store a session.
EveryCallReturns == \A t \in Tasks : task[t].pc # "idle" ~> task[t].pc = "idle"

Quiet == budget = [faults |-> 0, expiries |-> 0, cancels |-> 0]

\* The cached session is in step with the server in one direction only: the
\* server would run its next request, and the client not open the reply.
HalfInStep ==
    cache # None /\ \E c \in Reusable(cache.host) :
        LET s == conn[c].ctx.session
        IN /\ conn[c].ctx.kind = "open" /\ s.openKey = cache.session.sealKey
           /\ s.serverSeq = cache.session.clientSeq /\ s.clientSeq # cache.session.serverSeq

\* No failure sticks: whatever earlier breaks, expiries and cancelled calls left
\* in the cache, the pool and the server's contexts, a call made once they are
\* over is answered, by the operation's result or its SOAP fault.  (One caller,
\* and a server that answers 401 to a body it cannot open.)  The exception is a
\* session half in step, which no 401 ever removes from the cache.
FailuresDoNotStick ==
    \A t \in Tasks : \A n \in 1..MaxCalls :
        Quiet /\ task[t].pc = "lock" /\ task[t].call = n /\ ~HalfInStep
            ~> task[t].call = n /\ task[t].pc = "idle" /\ task[t].result \in {"ok", "soap"}

=============================================================================
