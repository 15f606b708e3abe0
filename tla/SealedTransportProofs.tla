------------------------ MODULE SealedTransportProofs ------------------------
(***************************************************************************)
(* Invariants of SealedTransport, for every number of callers, hosts,         *)
(* connections, calls, retries and failures.                                 *)
(***************************************************************************)
EXTENDS SealedTransport, FiniteSetTheorems, TLAPS

\* The fields of the records the state is made of.
IsTask(r)     == DOMAIN r = {"pc", "host", "call", "attempt", "mode", "session", "conn",
                             "result", "reply"}
IsConn(x)     == DOMAIN x = {"state", "host", "ctx", "msg"}
IsCached(x)   == DOMAIN x = {"host", "session"}
IsASession(s) == DOMAIN s = {"sealKey", "clientSeq", "clientPos", "openKey", "serverSeq",
                             "serverPos"}

\* A session whose key was negotiated with a host.
SessionWith(s, h) == IsASession(s) /\ s.sealKey[1][1] = h

WithSession == {"type3", "type3Wait", "sealed", "sealedWait", "store"}
Waits       == {"cachedWait", "type1Wait", "type3Wait", "sealedWait"}

\* A call's session was negotiated with the host it is for.
TaskSound(r) ==
    /\ IsTask(r) /\ r.mode \in {"blank", "sealed", "plain"}
    /\ r.pc # "idle" => r.host # None
    /\ r.pc \in WithSession => SessionWith(r.session, r.host)
    /\ r.conn # None => r.pc \in Waits

Shapes ==
    /\ DOMAIN task = Tasks /\ \A t \in Tasks : TaskSound(task[t])
    /\ DOMAIN conn = Conns /\ \A c \in Conns : IsConn(conn[c])

CacheSound == cache # None => IsCached(cache) /\ SessionWith(cache.session, cache.host)

\* A connection in use is used by one task, for that task's host.
OwnConns ==
    /\ \A t \in Tasks : task[t].conn # None =>
          /\ task[t].conn \in Conns
          /\ conn[task[t].conn].state \in {"asked", "answered"}
          /\ conn[task[t].conn].host = task[t].host
    /\ \A t, u \in Tasks : task[t].conn # None /\ task[t].conn = task[u].conn => t = u
    /\ \A c \in Conns : conn[c].state = "asked" => \E t \in Tasks : task[t].conn = c

\* The key of a challenge is the host's that sent it.
ChallengeOfHost ==
    \A c \in Conns : conn[c].state = "answered" /\ conn[c].msg.key # NoChallenge
        => conn[c].msg.key[1] = conn[c].host

\* Over TLS, whoever has a connection, or had one, has shown the verifier one.
Seen ==
    config.tls =>
        /\ known # {} => captured # None
        /\ \A c \in Conns : conn[c].state # "closed" => captured # None
        /\ \A t \in Tasks : task[t].pc \in WithSession => captured # None

\* The holder of the mutex that waits for an answer uses the cached session of
\* its host, which nobody else can take away.
CacheOf(h) == IsCached(cache) /\ cache.host = h /\ SessionWith(cache.session, h)
Locked ==
    /\ queue \in Seq(Tasks)
    /\ \A t \in Tasks : task[t].pc = "cachedWait" => Holds(t) /\ CacheOf(task[t].host)

IInv == Shapes /\ CacheSound /\ OwnConns /\ ChallengeOfHost /\ Seen /\ SealedForItsHost

-----------------------------------------------------------------------------
(* Records.                                                                  *)

LEMMA ClosedIsConn == IsConn(Closed) /\ Closed.state = "closed"
  BY DEF IsConn, Closed

\* A session stays the host's when it seals or opens a message.
LEMMA SessionsStay ==
    ASSUME NEW s, NEW h, SessionWith(s, h), NEW n, NEW m
    PROVE  SessionWith(AfterSeal(s, n), h) /\ SessionWith(AfterUnseal(s, m), h)
  BY SMT DEF SessionWith, IsASession, AfterSeal, AfterUnseal

LEMMA NewSession ==
    ASSUME NEW key PROVE SessionWith(FromAuth(key), key[1])
  BY SMT DEF SessionWith, IsASession, FromAuth

\* One task of the function changes.
LEMMA SetTask ==
    ASSUME Shapes, NEW t \in Tasks, NEW r, TaskSound(r), task' = [task EXCEPT ![t] = r]
    PROVE  /\ DOMAIN task' = Tasks /\ \A u \in Tasks : TaskSound(task'[u])
           /\ task'[t] = r /\ \A u \in Tasks \ {t} : task'[u] = task[u]
<1>. HIDE DEF TaskSound
<1>. QED  BY SMT DEF Shapes

LEMMA SetConn ==
    ASSUME Shapes, NEW c \in Conns, NEW x, IsConn(x), conn' = [conn EXCEPT ![c] = x]
    PROVE  /\ DOMAIN conn' = Conns /\ \A d \in Conns : IsConn(conn'[d])
           /\ conn'[c] = x /\ \A d \in Conns \ {c} : conn'[d] = conn[d]
<1>. HIDE DEF IsConn
<1>. QED  BY SMT DEF Shapes

\* A step of the server: it answers what it was asked, or drops what is idle.
LEMMA ConnKeeps ==
    ASSUME IInv, UNCHANGED <<task, cache, verifier, config>>,
           NEW c \in Conns, NEW x, IsConn(x), conn' = [conn EXCEPT ![c] = x],
           \/ /\ conn[c].state = "asked" /\ x.state = "answered" /\ x.host = conn[c].host
              /\ x.msg.key # NoChallenge => x.msg.key[1] = x.host
           \/ conn[c].state = "idle" /\ x.state \in {"idle", "closed"}
    PROVE  IInv'
<1>1. /\ DOMAIN conn' = Conns /\ \A d \in Conns : IsConn(conn'[d])
      /\ conn'[c] = x /\ \A d \in Conns \ {c} : conn'[d] = conn[d]
  BY SetConn DEF IInv
<1>. USE DEF IInv
<1>2. Shapes' /\ CacheSound'
  BY <1>1, SMT DEF Shapes, CacheSound
<1>3. OwnConns'
  BY <1>1, SMT DEF OwnConns
<1>4. ChallengeOfHost' /\ SealedForItsHost'
  BY <1>1, SMT DEF ChallengeOfHost, SealedForItsHost
<1>5. Seen'
  BY <1>1, SMT DEF Seen, verifier
<1>. QED  BY <1>2, <1>3, <1>4, <1>5

\* A step of a task that uses no connection afterwards: the one it used, if any,
\* is idle or closed.
Freed(c) == \E x : IsConn(x) /\ x.state \in {"idle", "closed"} /\ conn' = [conn EXCEPT ![c] = x]
LetGo(t) == IF task[t].conn = None THEN UNCHANGED conn ELSE Freed(task[t].conn)

LEMMA LetGoKeeps ==
    ASSUME IInv, UNCHANGED <<verifier, config>>, CacheSound',
           NEW t \in Tasks, NEW r, TaskSound(r), r.conn = None,
           config.tls /\ r.pc \in WithSession => captured # None,
           task' = [task EXCEPT ![t] = r], LetGo(t)
    PROVE  IInv'
<1>. USE DEF IInv
<1>1. /\ DOMAIN task' = Tasks /\ \A u \in Tasks : TaskSound(task'[u])
      /\ task'[t] = r /\ \A u \in Tasks \ {t} : task'[u] = task[u]
  BY SetTask
<1>2. CASE task[t].conn = None
  <2>1. UNCHANGED conn
    BY <1>2 DEF LetGo
  <2>2. Shapes'
    BY <1>1, <2>1, SMT DEF Shapes
  <2>3. OwnConns'
    BY <1>1, <2>1, <1>2, SMT DEF OwnConns
  <2>4. ChallengeOfHost' /\ SealedForItsHost' /\ Seen'
    BY <1>1, <2>1, SMT DEF ChallengeOfHost, SealedForItsHost, Seen, verifier
  <2>. QED  BY <2>2, <2>3, <2>4
<1>3. CASE task[t].conn # None
  <2>1. PICK x : IsConn(x) /\ x.state \in {"idle", "closed"} /\ conn' = [conn EXCEPT ![task[t].conn] = x]
    BY <1>3 DEF LetGo, Freed
  <2>. DEFINE c == task[t].conn
  <2>2. c \in Conns /\ conn[c].state # "closed" /\ \A u \in Tasks \ {t} : task[u].conn # c
    BY <1>3, SMT DEF OwnConns
  <2>3. /\ DOMAIN conn' = Conns /\ \A d \in Conns : IsConn(conn'[d])
        /\ conn'[c] = x /\ \A d \in Conns \ {c} : conn'[d] = conn[d]
    BY <2>1, <2>2, SetConn
  <2>. HIDE DEF c
  <2>4. Shapes'
    BY <1>1, <2>3, SMT DEF Shapes
  <2>5. OwnConns'
    <3>1. \A u \in Tasks \ {t} : task'[u].conn = task[u].conn /\ task'[u].host = task[u].host
      BY <1>1, SMT
    <3>2. task'[t].conn = None
      BY <1>1, SMT
    <3>3. \A d \in Conns : conn'[d].state = "asked" => d # c /\ conn[d].state = "asked"
      BY <2>1, <2>3, SMT
    <3>4. \A d \in Conns : d # c /\ task[t].conn # d => conn'[d] = conn[d]
      BY <2>3, SMT
    <3>. QED  BY <3>1, <3>2, <3>3, <2>2, <2>3, SMT DEF OwnConns, c
  <2>6. ChallengeOfHost' /\ SealedForItsHost'
    BY <2>1, <2>3, SMT DEF ChallengeOfHost, SealedForItsHost
  <2>7. Seen'
    BY <1>1, <2>1, <2>2, <2>3, SMT DEF Seen, verifier
  <2>. QED  BY <2>4, <2>5, <2>6, <2>7
<1>. QED  BY <1>2, <1>3

\* What may be sent to a host.
MayGo(request, h) ==
    /\ request.kind = "sealed" => request.body.sum.key[1][1] = h
    /\ request.kind = "type3"  => request.key[1] = h /\ (config.tls => request.binding # None)

\* A request does not go out on a connection that is in use.
LEMMA AvailableFree ==
    ASSUME NEW h, NEW c \in Available(h)
    PROVE  c \in Conns /\ conn[c].state \in {"idle", "closed"}
<1>1. CASE Reusable(h) # {}
  BY <1>1 DEF Available, Reusable
<1>2. CASE Reusable(h) = {}
  <2>. DEFINE closed == {d \in Conns : conn[d].state = "closed"}
  <2>1. Available(h) = IF closed = {} THEN {} ELSE {CHOOSE d \in closed : TRUE}
    BY <1>2 DEF Available
  <2>2. c \in closed
    BY <2>1
  <2>. QED  BY <2>2
<1>. QED  BY <1>1, <1>2

\* A step of a task that sends a request, on its host's idle connection or a new one.
LEMMA PostKeeps ==
    ASSUME IInv, UNCHANGED config, CacheSound',
           NEW t \in Tasks, task[t].conn = None, task[t].host # None,
           NEW request, MayGo(request, task[t].host),
           NEW next, \A c \in Conns : TaskSound([next EXCEPT !.conn = c]),
           IsTask(next), next.host = task[t].host,
           next.pc \in WithSession /\ config.tls => captured # None,
           Post(t, request, next)
    PROVE  IInv'
<1>. USE DEF IInv
<1>1. PICK c \in Available(task[t].host) :
        /\ IF conn[c].state = "idle" THEN UNCHANGED verifier ELSE TlsHandshake(task[t].host)
        /\ conn' = [conn EXCEPT ![c].state = "asked", ![c].host = task[t].host,
                                ![c].msg = request]
        /\ task' = [task EXCEPT ![t] = [next EXCEPT !.conn = c]]
  BY Zenon DEF Post
<1>2. c \in Conns /\ conn[c].state \in {"idle", "closed"}
  BY <1>1, AvailableFree
<1>3. c # None
  BY <1>2, TransportAssumption
<1>. DEFINE r == [next EXCEPT !.conn = c]
<1>4. /\ IsConn(conn'[c]) /\ conn'[c].state = "asked" /\ conn'[c].host = task[t].host
      /\ conn'[c].msg = request
  BY <1>1, <1>2, SMT DEF Shapes, IsConn
<1>5. DOMAIN conn' = Conns /\ \A d \in Conns \ {c} : conn'[d] = conn[d]
  BY <1>1, <1>2, SMT DEF Shapes
<1>6. r.conn = c /\ r.host = task[t].host /\ r.pc = next.pc /\ TaskSound(r)
  BY <1>2, SMT DEF IsTask
<1>7. task' = [task EXCEPT ![t] = r]
  BY <1>1
<1>8. captured # None => captured' # None
  BY <1>1, SMT DEF TlsHandshake, verifier
<1>9. config.tls => captured' # None
  BY <1>1, <1>2, SMT DEF TlsHandshake, verifier, Seen
<1>. HIDE DEF r
<1>10. /\ DOMAIN task' = Tasks /\ \A u \in Tasks : TaskSound(task'[u])
       /\ task'[t] = r /\ \A u \in Tasks \ {t} : task'[u] = task[u]
  BY <1>6, <1>7, SetTask
<1>12. Shapes'
  BY <1>4, <1>5, <1>10, SMT DEF Shapes
<1>13. OwnConns'
  <2>1. \A u \in Tasks \ {t} : task[u].conn # None => task[u].conn \in Conns \ {c}
    BY <1>2, SMT DEF OwnConns
  <2>2. \A u \in Tasks \ {t} : task[u].conn # None => conn'[task[u].conn] = conn[task[u].conn]
    BY <2>1, <1>5
  <2>3. \A u \in Tasks : task'[u].conn # None =>
           /\ task'[u].conn \in Conns
           /\ conn'[task'[u].conn].state \in {"asked", "answered"}
           /\ conn'[task'[u].conn].host = task'[u].host
    BY <1>2, <1>4, <1>6, <1>10, <2>2, SMT DEF OwnConns
  <2>4. \A u, v \in Tasks : task'[u].conn # None /\ task'[u].conn = task'[v].conn => u = v
    BY <1>3, <1>6, <1>10, <2>1, SMT DEF OwnConns
  <2>5. \A d \in Conns : conn'[d].state = "asked" => \E u \in Tasks : task'[u].conn = d
    <3>1. \A u \in Tasks : task[u].conn \in Conns => u # t
      BY <1>3, TransportAssumption
    <3>. QED  BY <1>5, <1>6, <1>10, <3>1 DEF OwnConns
  <2>. QED  BY <2>3, <2>4, <2>5 DEF OwnConns
<1>14. ChallengeOfHost' /\ SealedForItsHost'
  BY <1>4, <1>5, SMT DEF ChallengeOfHost, SealedForItsHost, MayGo
<1>15. Seen'
  BY <1>9, SMT DEF Seen
<1>. QED  BY <1>12, <1>13, <1>14, <1>15

-----------------------------------------------------------------------------
(* Steps of a task that end with no connection in use.                       *)

LEMMA AnsweredFacts ==
    ASSUME IInv, NEW t \in Tasks, NEW pc, Answered(t, pc)
    PROVE  /\ task[t].pc = pc /\ task[t].conn # None /\ task[t].conn \in Conns
           /\ conn[task[t].conn].state = "answered" /\ conn[task[t].conn].host = task[t].host
  BY SMT DEF Answered, IInv, OwnConns

\* However a response is read, or not, its connection is idle or closed.
LEMMA ResponsesFree ==
    ASSUME IInv, NEW c \in Conns,
           \/ conn' = [conn EXCEPT ![c] = Released(c)] \/ conn' = [conn EXCEPT ![c] = Closed]
           \/ ReadIgnored(c) \/ \E after \in Dropped(c) : conn' = [conn EXCEPT ![c] = after]
    PROVE  Freed(c)
<1>1. conn' = [conn EXCEPT ![c] = Released(c)] \/ conn' = [conn EXCEPT ![c] = Closed]
  BY Zenon DEF ReadIgnored, Dropped
<1>2. IsConn(Released(c)) /\ Released(c).state \in {"idle", "closed"}
  <2>1. Released(c) = [conn[c] EXCEPT !.state = "idle", !.msg = None] \/ Released(c) = Closed
    BY DEF Released
  <2>2. LET x == [conn[c] EXCEPT !.state = "idle", !.msg = None] IN IsConn(x) /\ x.state = "idle"
    BY SMT DEF IInv, Shapes, IsConn
  <2>. QED  BY <2>1, <2>2, ClosedIsConn
<1>. QED  BY <1>1, <1>2, ClosedIsConn DEF Freed

\* The record of a task after each of its steps.
LEMMA EndedSound ==
    ASSUME NEW t, TaskSound(task[t]), task[t].host # None, NEW result, NEW reply
    PROVE  LET r == Ended(t, result, reply)
           IN TaskSound(r) /\ r.conn = None /\ r.pc \notin WithSession
  BY SMT DEF Ended, TaskSound, IsTask, WithSession, Waits

LEMMA WaitingSound ==
    ASSUME NEW t, TaskSound(task[t]), task[t].host # None, NEW pc, pc # "idle", pc \notin WithSession
    PROVE  TaskSound(Waiting(t, pc)) /\ Waiting(t, pc).conn = None /\ Waiting(t, pc).pc = pc
  BY SMT DEF Waiting, TaskSound, IsTask, Waits

LEMMA WaitingAnew ==
    ASSUME NEW t, TaskSound(task[t]), task[t].host # None
    PROVE  LET r == [Waiting(t, "type1") EXCEPT !.mode = "sealed", !.session = None]
           IN TaskSound(r) /\ r.conn = None /\ r.pc \notin WithSession
  BY SMT DEF Waiting, TaskSound, IsTask, Waits, WithSession

LEMMA WaitingWithSession ==
    ASSUME NEW t, TaskSound(task[t]), task[t].host # None,
           NEW pc \in {"type3", "sealed"}, NEW s, SessionWith(s, task[t].host)
    PROVE  /\ task[t].session = s => TaskSound(Waiting(t, pc)) /\ Waiting(t, pc).conn = None
           /\ LET r == [Waiting(t, pc) EXCEPT !.session = s]
              IN TaskSound(r) /\ r.conn = None
<1>. pc # "idle"
  OBVIOUS
<1>. HIDE DEF SessionWith
<1>. QED  BY SMT DEF Waiting, TaskSound, IsTask, WithSession, Waits

LEMMA WaitingToStore ==
    ASSUME NEW t, TaskSound(task[t]), task[t].host # None, NEW s, SessionWith(s, task[t].host), NEW y
    PROVE  LET r == [Waiting(t, "store") EXCEPT !.session = s, !.reply = y]
           IN TaskSound(r) /\ r.conn = None
  BY SMT DEF Waiting, TaskSound, IsTask, WithSession, Waits

\* A task that has not begun send_soap's attempt, or begins another.
LEMMA EnterKeeps ==
    ASSUME IInv, UNCHANGED <<cache, conn, verifier, config>>, NEW t \in Tasks, task[t].conn = None,
           NEW fields, IsTask(fields), fields.host # None, fields.conn = None, Enter(t, fields)
    PROVE  IInv'
<1>1. PICK pc \in {"lock", "type1"}, mode \in {"blank", "plain"} :
          task' = [task EXCEPT ![t] = [fields EXCEPT !.pc = pc, !.mode = mode]]
  BY DEF Enter
<1>. DEFINE r == [fields EXCEPT !.pc = pc, !.mode = mode]
<1>2. TaskSound(r) /\ r.conn = None /\ r.pc \notin WithSession
  BY <1>1, SMT DEF TaskSound, IsTask, WithSession
<1>. QED  BY <1>1, <1>2, LetGoKeeps DEF IInv, CacheSound, LetGo

LEMMA CallKeeps ==
    ASSUME IInv, NEW t \in Tasks, NEW h \in Hosts, Call(t, h), UNCHANGED <<verifier, config>>
    PROVE  IInv'
<1>. DEFINE f == [Idle EXCEPT !.host = h, !.call = task[t].call + 1]
<1>1. IsTask(f) /\ f.host = h /\ f.conn = None
  BY SMT DEF IsTask, Idle
<1>2. h # None
  BY TransportAssumption
<1>3. task[t].conn = None
  BY SMT DEF Call, IInv, Shapes, TaskSound, Waits
<1>. QED  BY <1>1, <1>2, <1>3, EnterKeeps DEF Call

LEMMA RetryKeeps ==
    ASSUME IInv, NEW t \in Tasks, Retry(t), UNCHANGED <<verifier, config>>
    PROVE  IInv'
<1>1. IsTask(task[t]) /\ task[t].host # None /\ task[t].conn = None
  BY SMT DEF Retry, IInv, Shapes, TaskSound, Waits
<1>. QED  BY <1>1, EnterKeeps DEF Retry

\* Under the lock: the session is forgotten, or cached for its host.
LEMMA LockKeeps ==
    ASSUME IInv, NEW t \in Tasks, CacheMiss(t) \/ Store(t), UNCHANGED <<verifier, config>>
    PROVE  IInv'
<1>. USE DEF IInv
<1>1. TaskSound(task[t]) /\ task[t].host # None /\ task[t].conn = None
  BY SMT DEF Shapes, TaskSound, Waits, CacheMiss, Store
<1>2. CASE CacheMiss(t)
  <2>. DEFINE r == [task[t] EXCEPT !.pc = "type1"]
  <2>1. TaskSound(r) /\ r.conn = None /\ r.pc \notin WithSession
    BY <1>1, SMT DEF TaskSound, IsTask, WithSession, Waits
  <2>2. task' = [task EXCEPT ![t] = r]
    BY <1>2, SMT DEF CacheMiss, Shapes
  <2>3. CacheSound'
    BY <1>2 DEF CacheMiss, CacheSound
  <2>4. LetGo(t)
    BY <1>1, <1>2 DEF CacheMiss, LetGo
  <2>. HIDE DEF r
  <2>. QED  BY <2>1, <2>2, <2>3, <2>4, LetGoKeeps
<1>3. CASE Store(t)
  <2>1. SessionWith(task[t].session, task[t].host)
    BY <1>1, <1>3, SMT DEF Store, TaskSound, WithSession
  <2>2. CacheSound'
    BY <1>3, <2>1, SMT DEF Store, CacheSound, IsCached
  <2>. DEFINE r == Ended(t, "ok", task[t].reply)
  <2>3. task' = [task EXCEPT ![t] = r]
    BY <1>3 DEF Store
  <2>4. TaskSound(r) /\ r.conn = None /\ r.pc \notin WithSession
    BY <1>1, EndedSound
  <2>5. LetGo(t)
    BY <1>1, <1>3 DEF Store, LetGo
  <2>. HIDE DEF r
  <2>. QED  BY <2>2, <2>3, <2>4, <2>5, LetGoKeeps
<1>. QED  BY <1>2, <1>3

\* A response that ends the attempt, whatever it says.
LEMMA EndKeeps ==
    ASSUME IInv, NEW t \in Tasks, UNCHANGED <<verifier, config>>, CacheSound',
           NEW result, NEW reply, task' = [task EXCEPT ![t] = Ended(t, result, reply)],
           task[t].pc # "idle", LetGo(t)
    PROVE  IInv'
<1>1. TaskSound(task[t]) /\ task[t].host # None
  BY SMT DEF IInv, Shapes, TaskSound
<1>. DEFINE r == Ended(t, result, reply)
<1>2. TaskSound(r) /\ r.conn = None /\ r.pc \notin WithSession
  BY <1>1, EndedSound
<1>. HIDE DEF r
<1>3. task' = [task EXCEPT ![t] = r]
  BY DEF r
<1>. QED  BY <1>2, <1>3, LetGoKeeps

\* Responses that end the attempt: an error, or an answer to the caller.
LEMMA FinalResponses ==
    ASSUME IInv, Locked, NEW t \in Tasks, UNCHANGED <<verifier, config>>,
           \/ CachedReplied(t) \/ NotChallenged(t) \/ Type3Rejected(t) \/ PlainReplied(t)
    PROVE  IInv'
<1>1. CASE CachedReplied(t)
  <2>1. Answered(t, "cachedWait")
    BY <1>1 DEF CachedReplied
  <2>2. CacheSound'
    <3>1. /\ IsCached(cache) /\ SessionWith(cache.session, cache.host)
          /\ cache' = [cache EXCEPT !.session = ReadBy(cache.session, Response(t))]
      BY <1>1, <2>1, AnsweredFacts DEF CachedReplied, Locked, CacheOf
    <3>2. SessionWith(ReadBy(cache.session, Response(t)), cache.host)
      BY <3>1, SessionsStay DEF ReadBy
    <3>3. IsCached(cache') /\ cache'.session = ReadBy(cache.session, Response(t)) /\ cache'.host = cache.host
      BY <3>1, SMT DEF IsCached
    <3>. QED  BY <3>2, <3>3 DEF CacheSound
  <2>3. LetGo(t)
    BY <1>1, <2>1, AnsweredFacts, ResponsesFree DEF CachedReplied, LetGo
  <2>4. task[t].pc # "idle"
    BY <2>1, AnsweredFacts
  <2>5. \E result, reply : task' = [task EXCEPT ![t] = Ended(t, result, reply)]
    BY <1>1 DEF CachedReplied
  <2>. QED  BY <2>2, <2>3, <2>4, <2>5, EndKeeps
<1>2. CASE NotChallenged(t)
  <2>1. Answered(t, "type1Wait")
    BY <1>2 DEF NotChallenged
  <2>2. LetGo(t)
    BY <1>2, <2>1, AnsweredFacts, ResponsesFree DEF NotChallenged, LetGo
  <2>3. PICK result : task' = [task EXCEPT ![t] = Ended(t, result, None)]
    BY <1>2 DEF NotChallenged
  <2>4. task[t].pc # "idle" /\ CacheSound'
    BY <1>2, <2>1, AnsweredFacts DEF NotChallenged, IInv, CacheSound
  <2>. QED  BY <2>2, <2>3, <2>4, EndKeeps
<1>3. CASE Type3Rejected(t)
  <2>1. Answered(t, "type3Wait")
    BY <1>3 DEF Type3Rejected
  <2>2. LetGo(t)
    BY <1>3, <2>1, AnsweredFacts, ResponsesFree DEF Type3Rejected, LetGo
  <2>3. \E result, reply : task' = [task EXCEPT ![t] = Ended(t, result, reply)]
    BY <1>3 DEF Type3Rejected
  <2>4. task[t].pc # "idle" /\ CacheSound'
    BY <1>3, <2>1, AnsweredFacts DEF Type3Rejected, IInv, CacheSound
  <2>. QED  BY <2>2, <2>3, <2>4, EndKeeps
<1>4. CASE PlainReplied(t)
  <2>1. Answered(t, "type3Wait")
    BY <1>4 DEF PlainReplied
  <2>2. LetGo(t)
    BY <1>4, <2>1, AnsweredFacts, ResponsesFree DEF PlainReplied, LetGo
  <2>3. \E result, reply : task' = [task EXCEPT ![t] = Ended(t, result, reply)]
    BY <1>4 DEF PlainReplied
  <2>4. task[t].pc # "idle" /\ CacheSound'
    BY <1>4, <2>1, AnsweredFacts DEF PlainReplied, IInv, CacheSound
  <2>. QED  BY <2>2, <2>3, <2>4, EndKeeps
<1>. QED  BY <1>1, <1>2, <1>3, <1>4

\* Responses after which the attempt goes on.
LEMMA MiddleResponses ==
    ASSUME IInv, NEW t \in Tasks, UNCHANGED <<verifier, config>>,
           \/ CachedRejected(t) \/ Challenged(t) \/ BlankAccepted(t) \/ SealedRejected(t)
    PROVE  IInv'
<1>. USE DEF IInv
<1>1. CASE CachedRejected(t)
  <2>1. Answered(t, "cachedWait")
    BY <1>1 DEF CachedRejected
  <2>2. TaskSound(task[t]) /\ task[t].host # None /\ LetGo(t)
    <3>1. LetGo(t)
      BY <1>1, <2>1, AnsweredFacts, ResponsesFree DEF CachedRejected, LetGo
    <3>2. TaskSound(task[t]) /\ task[t].host # None
      BY <2>1, AnsweredFacts DEF Shapes, TaskSound
    <3>. QED  BY <3>1, <3>2
  <2>. DEFINE r == Waiting(t, "type1")
  <2>3. TaskSound(r) /\ r.conn = None /\ r.pc \notin WithSession
    <3>1. "type1" # "idle" /\ "type1" \notin WithSession
      BY DEF WithSession
    <3>. QED  BY <2>2, <3>1, WaitingSound
  <2>. HIDE DEF r
  <2>4. task' = [task EXCEPT ![t] = r] /\ CacheSound'
    BY <1>1 DEF CachedRejected, r, CacheSound
  <2>. QED  BY <2>2, <2>3, <2>4, LetGoKeeps
<1>2. CASE SealedRejected(t)
  <2>1. Answered(t, "sealedWait")
    BY <1>2 DEF SealedRejected
  <2>2. TaskSound(task[t]) /\ task[t].host # None /\ LetGo(t)
    <3>1. LetGo(t)
      BY <1>2, <2>1, AnsweredFacts, ResponsesFree DEF SealedRejected, LetGo
    <3>2. TaskSound(task[t]) /\ task[t].host # None
      BY <2>1, AnsweredFacts DEF Shapes, TaskSound
    <3>. QED  BY <3>1, <3>2
  <2>. DEFINE r == [Waiting(t, "type1") EXCEPT !.mode = "sealed", !.session = None]
  <2>3. TaskSound(r) /\ r.conn = None /\ r.pc \notin WithSession
    BY <2>2, WaitingAnew
  <2>. HIDE DEF r
  <2>4. task' = [task EXCEPT ![t] = r] /\ CacheSound'
    BY <1>2 DEF SealedRejected, r, CacheSound
  <2>. QED  BY <2>2, <2>3, <2>4, LetGoKeeps
<1>3. CASE Challenged(t)
  <2>1. Answered(t, "type1Wait")
    BY <1>3 DEF Challenged
  <2>2. TaskSound(task[t]) /\ task[t].host # None /\ LetGo(t)
    <3>1. LetGo(t)
      BY <1>3, <2>1, AnsweredFacts, ResponsesFree DEF Challenged, LetGo
    <3>2. TaskSound(task[t]) /\ task[t].host # None
      BY <2>1, AnsweredFacts DEF Shapes, TaskSound
    <3>. QED  BY <3>1, <3>2
  <2>3. Response(t).key[1] = task[t].host
    BY <1>3, <2>1, AnsweredFacts DEF Challenged, ChallengeOfHost, Response
  <2>. DEFINE s == FromAuth(Response(t).key)
              r == [Waiting(t, "type3") EXCEPT !.session = s]
  <2>4. SessionWith(s, task[t].host)
    BY <2>3, NewSession
  <2>. HIDE DEF s
  <2>5. TaskSound(r) /\ r.conn = None
    BY <2>2, <2>4, WaitingWithSession
  <2>6. task' = [task EXCEPT ![t] = r] /\ CacheSound'
    BY <1>3 DEF Challenged, s, CacheSound
  <2>. HIDE DEF r
  <2>7. config.tls => captured # None
    BY <2>1, AnsweredFacts, SMT DEF Seen
  <2>. QED  BY <2>2, <2>5, <2>6, <2>7, LetGoKeeps
<1>4. CASE BlankAccepted(t)
  <2>1. Answered(t, "type3Wait")
    BY <1>4 DEF BlankAccepted
  <2>2. TaskSound(task[t]) /\ task[t].host # None /\ LetGo(t)
    <3>1. LetGo(t)
      BY <1>4, <2>1, AnsweredFacts, ResponsesFree DEF BlankAccepted, LetGo
    <3>2. TaskSound(task[t]) /\ task[t].host # None
      BY <2>1, AnsweredFacts DEF Shapes, TaskSound
    <3>. QED  BY <3>1, <3>2
  <2>. DEFINE r == Waiting(t, "sealed")
  <2>3. SessionWith(task[t].session, task[t].host)
    BY <2>1, <2>2, AnsweredFacts, SMT DEF TaskSound, WithSession
  <2>4. TaskSound(r) /\ r.conn = None
    BY <2>2, <2>3, WaitingWithSession
  <2>5. task' = [task EXCEPT ![t] = r] /\ CacheSound'
    BY <1>4 DEF BlankAccepted, CacheSound
  <2>. HIDE DEF r
  <2>6. config.tls => captured # None
    BY <2>1, AnsweredFacts, SMT DEF Seen
  <2>. QED  BY <2>2, <2>4, <2>5, <2>6, LetGoKeeps
<1>. QED  BY <1>1, <1>2, <1>3, <1>4

\* Responses to a sealed body: an answer makes the session one to be cached.
LEMMA SealedResponses ==
    ASSUME IInv, NEW t \in Tasks, UNCHANGED <<verifier, config>>,
           SealedType3Replied(t) \/ SealedReplied(t)
    PROVE  IInv'
<1>. USE DEF IInv
<1>1. \E pc \in {"type3Wait", "sealedWait"} : Answered(t, pc)
  BY DEF SealedType3Replied, SealedReplied
<1>2. TaskSound(task[t]) /\ task[t].host # None /\ task[t].pc # "idle" /\ LetGo(t)
  BY <1>1, AnsweredFacts, ResponsesFree DEF SealedType3Replied, SealedReplied, LetGo, Shapes, TaskSound
<1>3. SessionWith(task[t].session, task[t].host)
  BY <1>1, <1>2, AnsweredFacts, SMT DEF TaskSound, WithSession
<1>4. config.tls => captured # None
  BY <1>1, AnsweredFacts, SMT DEF Seen
<1>5. CacheSound'
  BY DEF SealedType3Replied, SealedReplied, CacheSound
<1>. DEFINE reply == ReplyOf(Response(t))
<1>6. \/ \E result : task' = [task EXCEPT ![t] = Ended(t, result, reply)]
      \/ \E s : /\ task' = [task EXCEPT ![t] = [Waiting(t, "store") EXCEPT !.session = s, !.reply = reply]]
                /\ SessionWith(s, task[t].host)
  <2>1. CASE SealedType3Replied(t)
    <3>1. \/ task' = [task EXCEPT ![t] = Ended(t, Unsealed(task[t].session, Response(t)), reply)]
          \/ task' = [task EXCEPT ![t] = [Waiting(t, "store") EXCEPT
                         !.session = FromAuth(Key(Waiting(t, "store").session)), !.reply = reply]]
      BY <2>1 DEF SealedType3Replied
    <3>2. Waiting(t, "store").session = task[t].session
      BY <1>2, SMT DEF Waiting, TaskSound, IsTask
    <3>3. SessionWith(FromAuth(Key(task[t].session)), task[t].host)
      BY <1>3, NewSession DEF Key, SessionWith
    <3>. QED  BY <3>1, <3>2, <3>3
  <2>2. CASE SealedReplied(t)
    <3>1. \/ task' = [task EXCEPT ![t] = Ended(t, Unsealed(task[t].session, Response(t)), reply)]
          \/ task' = [task EXCEPT ![t] = [Waiting(t, "store") EXCEPT
                         !.session = ReadBy(Waiting(t, "store").session, Response(t)), !.reply = reply]]
      BY <2>2 DEF SealedReplied
    <3>2. Waiting(t, "store").session = task[t].session
      BY <1>2, SMT DEF Waiting, TaskSound, IsTask
    <3>3. SessionWith(ReadBy(task[t].session, Response(t)), task[t].host)
      BY <1>3, SessionsStay DEF ReadBy
    <3>. QED  BY <3>1, <3>2, <3>3
  <2>. QED  BY <2>1, <2>2
<1>7. CASE \E result : task' = [task EXCEPT ![t] = Ended(t, result, reply)]
  BY <1>2, <1>5, <1>7, EndKeeps
<1>8. CASE \E s : /\ task' = [task EXCEPT ![t] = [Waiting(t, "store") EXCEPT !.session = s, !.reply = reply]]
                  /\ SessionWith(s, task[t].host)
  <2>1. PICK s : /\ task' = [task EXCEPT ![t] = [Waiting(t, "store") EXCEPT !.session = s, !.reply = reply]]
                 /\ SessionWith(s, task[t].host)
    BY <1>8
  <2>. DEFINE r == [Waiting(t, "store") EXCEPT !.session = s, !.reply = reply]
  <2>2. TaskSound(r) /\ r.conn = None
    BY <1>2, <2>1, WaitingToStore
  <2>. HIDE DEF r
  <2>3. task' = [task EXCEPT ![t] = r]
    BY <2>1 DEF r
  <2>. QED  BY <1>2, <1>4, <1>5, <2>2, <2>3, LetGoKeeps
<1>. QED  BY <1>6, <1>7, <1>8

\* A request that fails, or whose call is dropped.
LEMMA BreakKeeps ==
    ASSUME IInv, NEW t \in Tasks, UNCHANGED <<verifier, config>>, HttpError(t) \/ Cancel(t)
    PROVE  IInv'
<1>. USE DEF IInv
<1>1. TaskSound(task[t])
  BY DEF Shapes
<1>2. LetGo(t)
  <2>1. task[t].conn # None => task[t].conn \in Conns
    BY DEF OwnConns
  <2>. QED  BY <2>1, ResponsesFree DEF HttpError, Cancel, LetGo
<1>3. CacheSound'
  BY DEF HttpError, Cancel, CacheSound
<1>4. CASE HttpError(t)
  <2>1. task[t].pc # "idle"
    BY <1>1, <1>4 DEF HttpError, TaskSound, Waits
  <2>. QED  BY <1>2, <1>3, <1>4, <2>1, EndKeeps DEF HttpError
<1>5. CASE Cancel(t)
  <2>. DEFINE r == [Idle EXCEPT !.call = task[t].call, !.attempt = task[t].attempt, !.result = "cancelled"]
  <2>1. TaskSound(r) /\ r.conn = None /\ r.pc \notin WithSession
    BY SMT DEF Idle, TaskSound, IsTask, WithSession
  <2>2. task' = [task EXCEPT ![t] = r]
    BY <1>5 DEF Cancel
  <2>. HIDE DEF r
  <2>. QED  BY <1>2, <1>3, <2>1, <2>2, LetGoKeeps
<1>. QED  BY <1>4, <1>5

-----------------------------------------------------------------------------
(* Requests.                                                                 *)

\* What is sealed with a session of a host may go to that host.
LEMMA SealedMayGo ==
    ASSUME NEW s, NEW h, SessionWith(s, h), NEW body, NEW request,
           request.kind = "sealed", request.body = Seal(s, body, BodyLen)
    PROVE  MayGo(request, h)
  BY SMT DEF MayGo, SessionWith, Seal, Checksum

LEMMA CacheHitKeeps ==
    ASSUME IInv, NEW t \in Tasks, CacheHit(t), UNCHANGED config
    PROVE  IInv'
<1>. USE DEF IInv
<1>1. /\ TaskSound(task[t]) /\ task[t].pc = "lock" /\ task[t].host # None /\ task[t].conn = None
  BY SMT DEF CacheHit, Shapes, TaskSound, Waits
<1>2. /\ IsCached(cache) /\ SessionWith(cache.session, task[t].host) /\ cache.host = task[t].host
  BY SMT DEF CacheHit, CachedFor, CacheSound
<1>3. SessionWith(AfterSeal(cache.session, BodyLen), task[t].host)
  BY <1>2, SessionsStay
<1>4. CacheSound'
  <2>1. cache' = [cache EXCEPT !.session = AfterSeal(cache.session, BodyLen)]
    BY DEF CacheHit
  <2>2. IsCached(cache') /\ cache'.session = AfterSeal(cache.session, BodyLen) /\ cache'.host = cache.host
    BY <1>2, <2>1, SMT DEF IsCached
  <2>. QED  BY <1>2, <1>3, <2>2 DEF CacheSound
<1>. DEFINE request == [kind |-> "sealed", key |-> None, body |-> Seal(cache.session, Body(t), BodyLen)]
            next    == [task[t] EXCEPT !.pc = "cachedWait"]
<1>5. MayGo(request, task[t].host)
  BY <1>2, SealedMayGo
<1>6. /\ IsTask(next) /\ next.host = task[t].host /\ next.pc \notin WithSession
      /\ \A c \in Conns : TaskSound([next EXCEPT !.conn = c])
  BY <1>1, SMT DEF TaskSound, IsTask, WithSession, Waits
<1>7. Post(t, request, next)
  BY DEF CacheHit
<1>. HIDE DEF request, next
<1>. QED  BY <1>1, <1>4, <1>5, <1>6, <1>7, PostKeeps

LEMMA PostType1Keeps ==
    ASSUME IInv, NEW t \in Tasks, PostType1(t), UNCHANGED config
    PROVE  IInv'
<1>. USE DEF IInv
<1>1. /\ TaskSound(task[t]) /\ task[t].pc = "type1" /\ task[t].host # None /\ task[t].conn = None
  BY SMT DEF PostType1, Shapes, TaskSound, Waits
<1>. DEFINE request == [kind |-> "type1", key |-> None, body |-> NoBody]
            next    == [task[t] EXCEPT !.pc = "type1Wait"]
<1>2. MayGo(request, task[t].host)
  BY SMT DEF MayGo
<1>3. /\ IsTask(next) /\ next.host = task[t].host /\ next.pc \notin WithSession
      /\ \A c \in Conns : TaskSound([next EXCEPT !.conn = c])
  BY <1>1, SMT DEF TaskSound, IsTask, WithSession, Waits
<1>4. Post(t, request, next) /\ CacheSound'
  BY DEF PostType1, CacheSound
<1>. HIDE DEF request, next
<1>. QED  BY <1>1, <1>2, <1>3, <1>4, PostKeeps

\* With a session: the Type 3, and the sealed body after it.
LEMMA WithSessionSound ==
    ASSUME NEW r, TaskSound(r), r.host # None, NEW wait \in {"type3Wait", "sealedWait"}, NEW s
    PROVE  LET x == [r EXCEPT !.pc = wait]
               y == [r EXCEPT !.pc = wait, !.session = s]
           IN /\ SessionWith(r.session, r.host) =>
                   IsTask(x) /\ x.host = r.host /\ \A c : TaskSound([x EXCEPT !.conn = c])
              /\ SessionWith(s, r.host) =>
                   IsTask(y) /\ y.host = r.host /\ \A c : TaskSound([y EXCEPT !.conn = c])
<1>1. wait \in Waits /\ wait # "idle"
  BY DEF Waits
<1>2. IsTask(r) /\ r.mode \in {"blank", "sealed", "plain"}
  BY DEF TaskSound
<1>. DEFINE x == [r EXCEPT !.pc = wait]
            y == [r EXCEPT !.pc = wait, !.session = s]
<1>3. IsTask(x) /\ x.host = r.host /\ IsTask(y) /\ y.host = r.host
  BY <1>2, SMT DEF IsTask
<1>4. ASSUME NEW c, SessionWith(r.session, r.host) PROVE TaskSound([x EXCEPT !.conn = c])
  <2>. DEFINE z == [x EXCEPT !.conn = c]
  <2>1. IsTask(z) /\ z.pc = wait /\ z.mode = r.mode /\ z.host = r.host /\ z.session = r.session
    BY <1>2, SMT DEF IsTask
  <2>. HIDE DEF z
  <2>2. TaskSound(z)
    BY <1>1, <1>2, <1>4, <2>1 DEF TaskSound
  <2>. QED  BY <2>2 DEF z
<1>5. ASSUME NEW c, SessionWith(s, r.host) PROVE TaskSound([y EXCEPT !.conn = c])
  <2>. DEFINE z == [y EXCEPT !.conn = c]
  <2>1. IsTask(z) /\ z.pc = wait /\ z.mode = r.mode /\ z.host = r.host /\ z.session = s
    BY <1>2, SMT DEF IsTask
  <2>. HIDE DEF z
  <2>2. TaskSound(z)
    BY <1>1, <1>2, <1>5, <2>1 DEF TaskSound
  <2>. QED  BY <2>2 DEF z
<1>. QED  BY <1>3, <1>4, <1>5

LEMMA PostWithSession ==
    ASSUME IInv, NEW t \in Tasks, UNCHANGED config, CacheSound', task[t].pc \in {"type3", "sealed"},
           NEW request, MayGo(request, task[t].host),
           NEW next, IsTask(next), next.host = task[t].host,
           \A c : TaskSound([next EXCEPT !.conn = c]), Post(t, request, next)
    PROVE  IInv'
<1>1. TaskSound(task[t]) /\ task[t].pc \in WithSession /\ task[t].pc # "idle" /\ task[t].pc \notin Waits
  BY DEF IInv, Shapes, WithSession, Waits
<1>2. task[t].host # None /\ task[t].conn = None /\ (config.tls => captured # None)
  BY <1>1 DEF TaskSound, IInv, Seen
<1>. QED  BY <1>2, PostKeeps

LEMMA PostType3Keeps ==
    ASSUME IInv, NEW t \in Tasks, PostType3(t), UNCHANGED config
    PROVE  IInv'
<1>. USE DEF IInv
<1>1. /\ task[t].pc = "type3" /\ TaskSound(task[t]) /\ task[t].mode \in {"blank", "plain", "sealed"}
      /\ SessionWith(task[t].session, task[t].host) /\ (config.tls => captured # None)
  BY SMT DEF PostType3, Shapes, TaskSound, WithSession, Seen
<1>2. CacheSound'
  BY DEF PostType3, CacheSound
<1>. DEFINE s == task[t].session
            Type3(body) == [kind |-> "type3", key |-> Key(s), body |-> body, binding |-> ChannelBinding]
<1>3. \A body : MayGo(Type3(body), task[t].host)
  BY <1>1, SMT DEF MayGo, SessionWith, Key, ChannelBinding
<1>4. SessionWith(AfterSeal(s, BodyLen), task[t].host)
  BY <1>1, SessionsStay
<1>. DEFINE Goes(next) == \E body : Post(t, Type3(body), next)
            x == [task[t] EXCEPT !.pc = "type3Wait"]
            y == [task[t] EXCEPT !.pc = "type3Wait", !.session = AfterSeal(s, BodyLen)]
<1>5. Goes(x) \/ Goes(y)
  <2>1. CASE task[t].mode = "blank"
    BY <2>1, Zenon DEF PostType3
  <2>2. CASE task[t].mode = "plain"
    BY <2>2, Zenon DEF PostType3
  <2>3. CASE task[t].mode = "sealed"
    <3>1. Post(t, Type3(Seal(s, Body(t), BodyLen)), [x EXCEPT !.session = AfterSeal(s, BodyLen)])
      BY <2>3, Zenon DEF PostType3
    <3>2. [x EXCEPT !.session = AfterSeal(s, BodyLen)] = y
      OBVIOUS
    <3>. QED  BY <3>1, <3>2
  <2>. QED  BY <1>1, <2>1, <2>2, <2>3
<1>6. task[t].host # None
  BY <1>1 DEF TaskSound
<1>7. ASSUME NEW next \in {x, y} PROVE IsTask(next) /\ next.host = task[t].host /\ \A c : TaskSound([next EXCEPT !.conn = c])
  <2>1. IsTask(x) /\ x.host = task[t].host /\ \A c : TaskSound([x EXCEPT !.conn = c])
    BY <1>1, <1>6, WithSessionSound
  <2>2. IsTask(y) /\ y.host = task[t].host /\ \A c : TaskSound([y EXCEPT !.conn = c])
    BY <1>1, <1>4, <1>6, WithSessionSound
  <2>. HIDE DEF x, y
  <2>. QED  BY <2>1, <2>2
<1>8. PICK next \in {x, y} : Goes(next)
  BY <1>5
<1>. HIDE DEF x, y
<1>9. PICK request : MayGo(request, task[t].host) /\ Post(t, request, next)
  BY <1>3, <1>8
<1>. QED  BY <1>1, <1>2, <1>7, <1>9, PostWithSession

LEMMA PostSealedKeeps ==
    ASSUME IInv, NEW t \in Tasks, PostSealed(t), UNCHANGED config
    PROVE  IInv'
<1>. USE DEF IInv
<1>1. task[t].pc = "sealed" /\ TaskSound(task[t]) /\ SessionWith(task[t].session, task[t].host)
  BY SMT DEF PostSealed, Shapes, TaskSound, WithSession
<1>. DEFINE s == task[t].session
            request == [kind |-> "sealed", key |-> None, body |-> Seal(s, Body(t), BodyLen)]
<1>2. MayGo(request, task[t].host)
  BY <1>1, SealedMayGo
<1>3. SessionWith(AfterSeal(s, BodyLen), task[t].host)
  BY <1>1, SessionsStay
<1>. DEFINE next == [task[t] EXCEPT !.pc = "sealedWait", !.session = AfterSeal(s, BodyLen)]
<1>4. Post(t, request, next) /\ CacheSound'
  BY DEF PostSealed, CacheSound
<1>5. IsTask(next) /\ next.host = task[t].host /\ \A c : TaskSound([next EXCEPT !.conn = c])
  <2>1. task[t].host # None
    BY <1>1 DEF TaskSound
  <2>. QED  BY <1>1, <1>3, <2>1, WithSessionSound
<1>. HIDE DEF request, next
<1>. QED  BY <1>1, <1>2, <1>4, <1>5, PostWithSession

-----------------------------------------------------------------------------
(* The server.                                                               *)

LEMMA RespondKeeps ==
    ASSUME IInv, UNCHANGED <<task, cache, verifier, config>>,
           NEW c \in Conns, conn[c].state = "asked",
           NEW status, NEW key, key # NoChallenge => key[1] = conn[c].host, NEW body, NEW ctx,
           Respond(c, status, key, body, ctx)
    PROVE  IInv'
<1>. DEFINE x == [conn[c] EXCEPT !.state = "answered", !.ctx = ctx,
                                 !.msg = [status |-> status, key |-> key, body |-> body]]
<1>1. IsConn(x) /\ x.state = "answered" /\ x.host = conn[c].host /\ x.msg.key = key
  BY SMT DEF IInv, Shapes, IsConn
<1>2. conn' = [conn EXCEPT ![c] = x]
  BY DEF Respond
<1>. HIDE DEF x
<1>. QED  BY <1>1, <1>2, ConnKeeps

LEMMA ServeKeeps ==
    ASSUME IInv, UNCHANGED <<verifier, config>>, NEW c \in Conns,
           ServeType1(c) \/ ServeType3(c) \/ ServeSealed(c) \/ ServerFails(c)
    PROVE  IInv'
<1>1. conn[c].state = "asked" /\ UNCHANGED <<task, cache, verifier, config>>
  BY DEF ServeType1, ServeType3, ServeSealed, ServerFails
<1>2. CASE ServeType1(c)
  <2>1. FreshKey(conn[c].host)[1] = conn[c].host
    BY DEF FreshKey
  <2>. QED  BY <1>1, <1>2, <2>1, RespondKeeps DEF ServeType1
<1>3. CASE ServeType3(c) \/ ServeSealed(c) \/ ServerFails(c)
  <2>1. \E status, body, ctx : Respond(c, status, NoChallenge, body, ctx)
    BY <1>3, Zenon DEF ServeType3, ServeSealed, ServerFails, RunSealed
  <2>. QED  BY <1>1, <2>1, RespondKeeps
<1>. QED  BY <1>2, <1>3

LEMMA IdleKeeps ==
    ASSUME IInv, UNCHANGED <<verifier, config>>, NEW c \in Conns, Expire(c) \/ IdleClosed(c)
    PROVE  IInv'
<1>1. UNCHANGED <<task, cache, verifier, config>> /\ conn[c].state = "idle"
  BY DEF Expire, IdleClosed
<1>2. CASE Expire(c)
  <2>. DEFINE x == [conn[c] EXCEPT !.ctx = NoCtx]
  <2>1. IsConn(x) /\ x.state = "idle"
    BY <1>1, SMT DEF IInv, Shapes, IsConn
  <2>2. conn' = [conn EXCEPT ![c] = x]
    BY <1>2 DEF Expire
  <2>. HIDE DEF x
  <2>. QED  BY <1>1, <2>1, <2>2, ConnKeeps
<1>3. CASE IdleClosed(c)
  BY <1>1, <1>3, ClosedIsConn, ConnKeeps DEF IdleClosed
<1>. QED  BY <1>2, <1>3

-----------------------------------------------------------------------------
(* The mutex.                                                                *)

LEMMA RemoveFacts ==
    ASSUME queue \in Seq(Tasks), NEW t
    PROVE  /\ Remove(t) \in Seq(Tasks)
           /\ \A u \in Tasks : u # t /\ queue # <<>> /\ Head(queue) = u
                 => Remove(t) # <<>> /\ Head(Remove(t)) = u
<1>1. CASE ~ \E i \in 1 .. Len(queue) : queue[i] = t
  BY <1>1 DEF Remove
<1>2. CASE \E i \in 1 .. Len(queue) : queue[i] = t
  <2>1. PICK i \in 1 .. Len(queue) :
            queue[i] = t /\ Remove(t) = SubSeq(queue, 1, i - 1) \o SubSeq(queue, i + 1, Len(queue))
    BY <1>2, Zenon DEF Remove
  <2>. DEFINE before == SubSeq(queue, 1, i - 1)
              after  == SubSeq(queue, i + 1, Len(queue))
  <2>2. before \in Seq(Tasks) /\ after \in Seq(Tasks)
    BY SMT
  <2>3. ASSUME NEW u \in Tasks, u # t, queue # <<>>, Head(queue) = u
        PROVE  Len(before) > 0 /\ before[1] = u
    BY <2>1, <2>3, SMT
  <2>. HIDE DEF before, after
  <2>4. \A u \in Tasks : u # t /\ queue # <<>> /\ Head(queue) = u
           => before \o after # <<>> /\ Head(before \o after) = u
    BY <2>2, <2>3, SMT
  <2>5. Remove(t) = before \o after
    BY <2>1 DEF before, after
  <2>. QED  BY <2>2, <2>4, <2>5, SMT
<1>. QED  BY <1>1, <1>2

\* A step of a task that does not take the cache from one that waits with it.
LEMMA LockedKeeps ==
    ASSUME Locked, NEW t \in Tasks,
           \A u \in Tasks \ {t} : task'[u].pc = task[u].pc /\ task'[u].host = task[u].host,
           task'[t].pc = "cachedWait" => Holds(t) /\ queue' = queue /\ CacheOf(task[t].host)',
           queue' \in {queue, Append(queue, t), Remove(t)},
           cache' = cache \/ Holds(t)
    PROVE  Locked'
<1>1. queue' \in Seq(Tasks)
  BY RemoveFacts, SMT DEF Locked
<1>2. ASSUME NEW u \in Tasks \ {t}, task'[u].pc = "cachedWait"
      PROVE  Holds(u)' /\ CacheOf(task[u].host)'
  <2>1. Holds(u) /\ CacheOf(task[u].host)
    BY <1>2 DEF Locked
  <2>2. cache' = cache
    BY <2>1 DEF Holds
  <2>3. Holds(u)'
    BY <2>1, RemoveFacts, SMT DEF Holds, Locked
  <2>. QED  BY <2>1, <2>2, <2>3 DEF CacheOf
<1>3. ASSUME task'[t].pc = "cachedWait" PROVE Holds(t)' /\ CacheOf(task[t].host)'
  BY <1>3 DEF Holds
<1>. QED  BY <1>1, <1>2, <1>3 DEF Locked

\* A step that gives t another state than the one that waits with the cache.
LEMMA NotWaiting ==
    ASSUME IInv, Locked, NEW t \in Tasks, NEW r, r.pc # "cachedWait", task' = [task EXCEPT ![t] = r],
           queue' \in {queue, Append(queue, t), Remove(t)}, cache' = cache \/ Holds(t)
    PROVE  Locked'
<1>1. task'[t] = r /\ \A u \in Tasks \ {t} : task'[u] = task[u]
  BY DEF IInv, Shapes
<1>. QED  BY <1>1, LockedKeeps

LEMMA PostLocked ==
    ASSUME IInv, Locked, NEW t \in Tasks, PostStep(t)
    PROVE  Locked'
<1>1. IsTask(task[t]) /\ DOMAIN task = Tasks
  BY DEF IInv, Shapes, TaskSound
<1>2. CASE CacheHit(t)
  <2>. DEFINE next == [task[t] EXCEPT !.pc = "cachedWait"]
  <2>1. PICK c : task' = [task EXCEPT ![t] = [next EXCEPT !.conn = c]]
    BY <1>2, Zenon DEF CacheHit, Post
  <2>2. task'[t].host = task[t].host /\ \A u \in Tasks \ {t} : task'[u] = task[u]
    BY <1>1, <2>1, SMT DEF IsTask
  <2>3. Holds(t) /\ CachedFor(task[t].host) /\ UNCHANGED queue
        /\ cache' = [cache EXCEPT !.session = AfterSeal(cache.session, BodyLen)]
    BY <1>2, Zenon DEF CacheHit
  <2>4. IsCached(cache) /\ SessionWith(cache.session, cache.host) /\ cache.host = task[t].host
    BY <2>3 DEF CachedFor, IInv, CacheSound
  <2>5. CacheOf(task[t].host)'
    <3>1. IsCached(cache') /\ cache'.host = cache.host /\ cache'.session = AfterSeal(cache.session, BodyLen)
      BY <2>3, <2>4, SMT DEF IsCached
    <3>. QED  BY <2>2, <2>4, <3>1, SessionsStay DEF CacheOf
  <2>. QED  BY <2>2, <2>3, <2>5, LockedKeeps
<1>3. CASE PostType1(t) \/ PostType3(t) \/ PostSealed(t)
  <2>1. \E request, next : /\ Post(t, request, next) /\ IsTask(next) /\ next.pc # "cachedWait"
    <3>1. CASE PostType1(t)
      <4>. DEFINE x == [task[t] EXCEPT !.pc = "type1Wait"]
      <4>1. IsTask(x) /\ x.pc = "type1Wait"
        BY <1>1, SMT DEF IsTask
      <4>. QED  BY <3>1, <4>1, Zenon DEF PostType1
    <3>2. CASE PostSealed(t)
      <4>. DEFINE x == [task[t] EXCEPT !.pc = "sealedWait", !.session = AfterSeal(task[t].session, BodyLen)]
      <4>1. IsTask(x) /\ x.pc = "sealedWait"
        BY <1>1, SMT DEF IsTask
      <4>. QED  BY <3>2, <4>1, Zenon DEF PostSealed
    <3>3. CASE PostType3(t)
      <4>. DEFINE x == [task[t] EXCEPT !.pc = "type3Wait"]
                  y == [x EXCEPT !.session = AfterSeal(task[t].session, BodyLen)]
      <4>1. IsTask(x) /\ x.pc = "type3Wait" /\ IsTask(y) /\ y.pc = "type3Wait"
        BY <1>1, SMT DEF IsTask
      <4>2. task[t].mode \in {"blank", "plain", "sealed"}
        BY DEF IInv, Shapes, TaskSound
      <4>3. \E request : Post(t, request, x) \/ Post(t, request, y)
        BY <3>3, <4>2, Zenon DEF PostType3
      <4>. QED  BY <4>1, <4>3
    <3>. QED  BY <1>3, <3>1, <3>2, <3>3
  <2>2. PICK next, c : IsTask(next) /\ next.pc # "cachedWait" /\ task' = [task EXCEPT ![t] = [next EXCEPT !.conn = c]]
    BY <2>1, Zenon DEF Post
  <2>3. [next EXCEPT !.conn = c].pc # "cachedWait"
    BY <2>2, SMT DEF IsTask
  <2>4. UNCHANGED <<queue, cache>>
    BY <1>3 DEF PostType1, PostType3, PostSealed
  <2>. QED  BY <2>2, <2>3, <2>4, NotWaiting
<1>. QED  BY <1>2, <1>3 DEF PostStep

LEMMA EnterLocked ==
    ASSUME IInv, Locked, NEW t \in Tasks, UNCHANGED cache,
           NEW fields, IsTask(fields), Enter(t, fields)
    PROVE  Locked'
<1>1. PICK pc \in {"lock", "type1"} : \E mode :
          task' = [task EXCEPT ![t] = [fields EXCEPT !.pc = pc, !.mode = mode]]
  BY Zenon DEF Enter
<1>2. PICK mode : task' = [task EXCEPT ![t] = [fields EXCEPT !.pc = pc, !.mode = mode]]
  BY <1>1
<1>3. [fields EXCEPT !.pc = pc, !.mode = mode].pc # "cachedWait"
  BY SMT DEF IsTask
<1>4. queue' \in {queue, Append(queue, t)}
  BY DEF Enter
<1>. QED  BY <1>2, <1>3, <1>4, NotWaiting

\* The other steps of a task: the record it gets, the mutex and the cache.
LEMMA InnerLocked ==
    ASSUME IInv, Locked, NEW t \in Tasks, 
           InnerStep(t) \/ HttpError(t) \/ Cancel(t) \/ \E h \in Hosts : Call(t, h)
    PROVE  Locked'
<1>1. IsTask(task[t])
  BY DEF IInv, Shapes, TaskSound
<1>2. CASE Retry(t)
  BY <1>1, <1>2, EnterLocked DEF Retry
<1>3. CASE \E h \in Hosts : Call(t, h)
  <2>1. PICK h \in Hosts : Call(t, h)
    BY <1>3
  <2>. DEFINE f == [Idle EXCEPT !.host = h, !.call = task[t].call + 1]
  <2>2. IsTask(f)
    BY SMT DEF IsTask, Idle
  <2>. QED  BY <2>1, <2>2, EnterLocked DEF Call
<1>4. \A result, reply : Ended(t, result, reply).pc # "cachedWait"
  BY <1>1, SMT DEF Ended, IsTask
<1>5. \A pc, m, s, y : /\ Waiting(t, pc).pc = pc
                       /\ [Waiting(t, pc) EXCEPT !.session = s].pc = pc
                       /\ [Waiting(t, pc) EXCEPT !.mode = m, !.session = s].pc = pc
                       /\ [Waiting(t, pc) EXCEPT !.session = s, !.reply = y].pc = pc
  BY <1>1, SMT DEF Waiting, IsTask
<1>6. CASE CacheMiss(t)
  <2>1. [task[t] EXCEPT !.pc = "type1"].pc # "cachedWait"
    BY <1>1, SMT DEF IsTask
  <2>2. task' = [task EXCEPT ![t] = [task[t] EXCEPT !.pc = "type1"]] /\ Holds(t) /\ queue' = Remove(t)
    BY <1>6 DEF CacheMiss
  <2>. QED  BY <2>1, <2>2, NotWaiting
<1>7. CASE Store(t)
  BY <1>4, <1>7, NotWaiting DEF Store
<1>8. CASE CachedRejected(t)
  <2>1. Holds(t)
    BY <1>8, AnsweredFacts DEF CachedRejected, Locked
  <2>. QED  BY <1>5, <1>8, <2>1, NotWaiting DEF CachedRejected
<1>9. CASE CachedReplied(t)
  <2>1. Holds(t)
    BY <1>9, AnsweredFacts DEF CachedReplied, Locked
  <2>. QED  BY <1>4, <1>9, <2>1, NotWaiting DEF CachedReplied
<1>10. CASE Challenged(t) \/ BlankAccepted(t) \/ SealedRejected(t)
  <2>1. UNCHANGED <<queue, cache>>
    BY <1>10 DEF Challenged, BlankAccepted, SealedRejected
  <2>2. CASE Challenged(t)
    <3>. DEFINE r == [Waiting(t, "type3") EXCEPT !.session = FromAuth(Response(t).key)]
    <3>1. r.pc # "cachedWait"
      BY <1>5
    <3>2. task' = [task EXCEPT ![t] = r]
      BY <2>2, Zenon DEF Challenged
    <3>. HIDE DEF r
    <3>. QED  BY <2>1, <3>1, <3>2, NotWaiting
  <2>3. CASE BlankAccepted(t)
    <3>1. Waiting(t, "sealed").pc # "cachedWait"
      BY <1>5
    <3>2. task' = [task EXCEPT ![t] = Waiting(t, "sealed")]
      BY <2>3, Zenon DEF BlankAccepted
    <3>. QED  BY <2>1, <3>1, <3>2, NotWaiting
  <2>4. CASE SealedRejected(t)
    <3>. DEFINE r == [Waiting(t, "type1") EXCEPT !.mode = "sealed", !.session = None]
    <3>1. r.pc # "cachedWait"
      BY <1>5
    <3>2. task' = [task EXCEPT ![t] = r]
      BY <2>4, Zenon DEF SealedRejected
    <3>. HIDE DEF r
    <3>. QED  BY <2>1, <3>1, <3>2, NotWaiting
  <2>. QED  BY <1>10, <2>2, <2>3, <2>4
<1>11. CASE NotChallenged(t) \/ Type3Rejected(t) \/ PlainReplied(t)
  <2>1. UNCHANGED <<queue, cache>>
    BY <1>11 DEF NotChallenged, Type3Rejected, PlainReplied
  <2>2. \E r : r.pc # "cachedWait" /\ task' = [task EXCEPT ![t] = r]
    BY <1>4, <1>11 DEF NotChallenged, Type3Rejected, PlainReplied
  <2>. QED  BY <2>1, <2>2, NotWaiting
<1>12. CASE SealedType3Replied(t) \/ SealedReplied(t)
  <2>1. UNCHANGED cache /\ queue' \in {queue, Append(queue, t)}
    BY <1>12 DEF SealedType3Replied, SealedReplied
  <2>2. \E r : r.pc # "cachedWait" /\ task' = [task EXCEPT ![t] = r]
    <3>. DEFINE stored(s) == [Waiting(t, "store") EXCEPT !.session = s, !.reply = ReplyOf(Response(t))]
    <3>1. \A s : stored(s).pc # "cachedWait"
      BY <1>5
    <3>2. \/ \E result, reply : task' = [task EXCEPT ![t] = Ended(t, result, reply)]
          \/ \E s : task' = [task EXCEPT ![t] = stored(s)]
      BY <1>12, Zenon DEF SealedType3Replied, SealedReplied
    <3>. HIDE DEF stored
    <3>. QED  BY <1>4, <3>1, <3>2
  <2>. QED  BY <2>1, <2>2, NotWaiting
<1>13. CASE HttpError(t)
  BY <1>4, <1>13, NotWaiting DEF HttpError
<1>14. CASE Cancel(t)
  <2>. DEFINE r == [Idle EXCEPT !.call = task[t].call, !.attempt = task[t].attempt, !.result = "cancelled"]
  <2>1. r.pc # "cachedWait"
    BY SMT DEF Idle
  <2>. QED  BY <1>14, <2>1, NotWaiting DEF Cancel
<1>. QED  BY <1>2, <1>3, <1>6, <1>7, <1>8, <1>9, <1>10, <1>11, <1>12, <1>13, <1>14 DEF InnerStep

-----------------------------------------------------------------------------
LEMMA InitIInv == Init => IInv /\ Locked
<1>. SUFFICES ASSUME Init PROVE IInv /\ Locked
  OBVIOUS
<1>1. TaskSound(Idle) /\ Idle.conn = None /\ Idle.pc = "idle"
  BY SMT DEF Idle, TaskSound, IsTask, WithSession
<1>. HIDE DEF Idle, Closed
<1>2. Shapes /\ CacheSound
  BY <1>1, ClosedIsConn DEF Init, Shapes, CacheSound
<1>3. OwnConns /\ ChallengeOfHost /\ SealedForItsHost
  BY <1>1, ClosedIsConn DEF Init, OwnConns, ChallengeOfHost, SealedForItsHost
<1>4. Seen
  BY <1>1, ClosedIsConn DEF Init, Seen, WithSession
<1>5. Locked
  BY <1>1 DEF Init, Locked
<1>. QED  BY <1>2, <1>3, <1>4, <1>5 DEF IInv

LEMMA NextIInv == IInv /\ Locked /\ [Next]_vars => IInv' /\ Locked'
<1>. SUFFICES ASSUME IInv, Locked, [Next]_vars PROVE IInv' /\ Locked'
  OBVIOUS
<1>1. CASE UNCHANGED vars
  BY <1>1 DEF vars, verifier, IInv, Shapes, CacheSound, OwnConns, ChallengeOfHost, Seen,
     SealedForItsHost, Locked, Holds, CacheOf
<1>2. ASSUME NEW t \in Tasks, TaskStep(t) PROVE IInv' /\ Locked'
  <2>1. CASE PostStep(t)
    BY <1>2, <2>1, CacheHitKeeps, PostType1Keeps, PostType3Keeps, PostSealedKeeps, PostLocked
       DEF TaskStep, PostStep
  <2>2. CASE InnerStep(t)
    <3>1. UNCHANGED <<verifier, config>>
      BY <1>2, <2>2 DEF TaskStep, InnerStep
    <3>2. IInv'
      BY <2>2, <3>1, RetryKeeps, LockKeeps, FinalResponses, MiddleResponses, SealedResponses DEF InnerStep
    <3>. QED  BY <2>2, <3>2, InnerLocked
  <2>. QED  BY <1>2, <2>1, <2>2 DEF TaskStep
<1>3. ASSUME NEW c \in Conns,
             \/ ServerStep(c)
             \/ (ServerFails(c) \/ Expire(c) \/ IdleClosed(c)) /\ UNCHANGED <<verifier, config>>
      PROVE  IInv' /\ Locked'
  <2>1. UNCHANGED <<task, queue, cache, verifier, config>>
    BY <1>3 DEF ServerStep, ServeType1, ServeType3, ServeSealed, ServerFails, Expire, IdleClosed
  <2>2. Locked'
    BY <2>1 DEF Locked, Holds, CacheOf
  <2>3. IInv'
    BY <1>3, <2>1, ServeKeeps, IdleKeeps DEF ServerStep
  <2>. QED  BY <2>2, <2>3
<1>4. ASSUME NEW t \in Tasks, UNCHANGED <<verifier, config>>,
             HttpError(t) \/ Cancel(t) \/ \E h \in Hosts : Call(t, h)
      PROVE  IInv' /\ Locked'
  BY <1>4, BreakKeeps, CallKeeps, InnerLocked
<1>. QED  BY <1>1, <1>2, <1>3, <1>4 DEF Next, Environment

LEMMA InvariantHolds == Spec => [](IInv /\ Locked)
  BY InitIInv, NextIInv, PTL DEF Spec

\* No request carries a body sealed, or a Type 3 made, with a session of another
\* host than the one it goes to, whoever shares the transport, and over TLS
\* no Type 3 is without a binding (send_ntlm_sealed, do_handshake).
THEOREM SealedForHost == Spec => []SealedForItsHost
<1>1. IInv => SealedForItsHost
  BY DEF IInv
<1>. QED  BY InvariantHolds, <1>1, PTL

-----------------------------------------------------------------------------
(* How often the server runs a body.                                         *)

\* Where the current attempt has not had its body run.
NotRun == {"backoff", "lock", "type1", "type1Wait", "type3", "sealed"}

\* What a request of a task r, called t, carries.
Carries(t, r, request) ==
    /\ request.kind = "type3" =>
          /\ r.pc = "type3Wait"
          /\ r.mode = "blank"  => request.body = NoBody
          /\ r.mode = "plain"  => request.body.body[1] = t
          /\ r.mode = "sealed" => request.body.body[1] = t
    /\ request.kind = "sealed" => request.body.body[1] = t /\ r.pc \in {"cachedWait", "sealedWait"}

\* A task counts at most one run for each attempt before this one, and none for
\* this one until its connection holds the answer to a body that was accepted.
TaskOnce(t) ==
    LET r == task[t]
        x == conn[task[t].conn]
    IN /\ executed[t] \in Nat /\ r.attempt \in Nat /\ executed[t] <= r.attempt + 1
       /\ r.pc \in NotRun => executed[t] <= r.attempt
       /\ r.pc \notin {"idle", "backoff"} => (r.mode = "plain" <=> ~config.encrypt)
       /\ r.pc \in {"sealed", "sealedWait"} => r.mode = "blank"
       /\ r.conn # None =>
             /\ x.state = "asked" => executed[t] <= r.attempt /\ Carries(t, r, x.msg)
             /\ x.state = "answered" /\ (x.msg.status = "401" \/ (r.pc = "type3Wait" /\ r.mode = "blank"))
                   => executed[t] <= r.attempt

Once == DOMAIN executed = Tasks /\ \A t \in Tasks : TaskOnce(t)

\* What a step does not touch.
Untouched(u) ==
    /\ task'[u] = task[u] /\ executed'[u] = executed[u]
    /\ task[u].conn # None => conn'[task[u].conn] = conn[task[u].conn]

LEMMA UntouchedOnce ==
    ASSUME Once, NEW u \in Tasks, Untouched(u), UNCHANGED config PROVE TaskOnce(u)'
<1>1. TaskOnce(u)
  BY DEF Once
<1>. QED  BY <1>1 DEF TaskOnce, Untouched, Carries

\* A step that ends with no connection in use.
LEMMA LetGoOnce ==
    ASSUME IInv, Once, NEW t \in Tasks, NEW r, task' = [task EXCEPT ![t] = r], r.conn = None,
           LetGo(t), UNCHANGED config,
           NEW e \in Nat, DOMAIN executed' = Tasks, executed'[t] = e,
           \A u \in Tasks \ {t} : executed'[u] = executed[u],
           r.attempt \in Nat, e <= r.attempt + 1, r.pc \in NotRun => e <= r.attempt,
           r.pc \notin {"idle", "backoff"} => (r.mode = "plain" <=> ~config.encrypt),
           r.pc \in {"sealed", "sealedWait"} => r.mode = "blank"
    PROVE  Once'
<1>1. task'[t] = r /\ \A u \in Tasks \ {t} : task'[u] = task[u]
  BY DEF IInv, Shapes
<1>3. ASSUME NEW u \in Tasks \ {t}, task[u].conn # None PROVE conn'[task[u].conn] = conn[task[u].conn]
  <2>1. CASE task[t].conn = None
    BY <2>1 DEF LetGo
  <2>2. CASE task[t].conn # None
    <3>1. PICK x : conn' = [conn EXCEPT ![task[t].conn] = x]
      BY <2>2 DEF LetGo, Freed
    <3>2. task[u].conn \in Conns /\ task[u].conn # task[t].conn
      BY <1>3, <2>2, SMT DEF IInv, OwnConns
    <3>. QED  BY <3>1, <3>2, SMT DEF IInv, Shapes
  <2>. QED  BY <2>1, <2>2
<1>4. TaskOnce(t)'
  BY <1>1 DEF TaskOnce
<1>5. \A u \in Tasks \ {t} : TaskOnce(u)'
  BY <1>1, <1>3, UntouchedOnce DEF Untouched
<1>. QED  BY <1>4, <1>5 DEF Once

\* A step that sends a request.
LEMMA PostOnce ==
    ASSUME IInv, Once, NEW t \in Tasks, UNCHANGED <<config, executed>>,
           NEW request, NEW next, IsTask(next), Post(t, request, next),
           next.attempt = task[t].attempt, executed[t] <= task[t].attempt,
           next.mode = "plain" <=> ~config.encrypt,
           next.pc \in {"sealed", "sealedWait"} => next.mode = "blank",
           Carries(t, next, request)
    PROVE  Once'
<1>1. PICK c \in Available(task[t].host) :
        /\ conn' = [conn EXCEPT ![c].state = "asked", ![c].host = task[t].host, ![c].msg = request]
        /\ task' = [task EXCEPT ![t] = [next EXCEPT !.conn = c]]
  BY Zenon DEF Post
<1>2. c \in Conns /\ conn[c].state \in {"idle", "closed"}
  BY AvailableFree
<1>. DEFINE r == [next EXCEPT !.conn = c]
<1>3. r.conn = c /\ r.pc = next.pc /\ r.mode = next.mode /\ r.attempt = next.attempt
  BY SMT DEF IsTask
<1>4. conn'[c].state = "asked" /\ conn'[c].msg = request /\ \A d \in Conns \ {c} : conn'[d] = conn[d]
  BY <1>1, <1>2, SMT DEF IInv, Shapes, IsConn
<1>. HIDE DEF r
<1>5. task'[t] = r /\ \A u \in Tasks \ {t} : task'[u] = task[u]
  BY <1>1 DEF IInv, Shapes, r
<1>6. TaskOnce(t)'
  <2>1. executed[t] \in Nat /\ task[t].attempt \in Nat
    BY DEF Once, TaskOnce
  <2>2. Carries(t, r, request)
    BY <1>3 DEF Carries
  <2>. QED  BY <1>3, <1>4, <1>5, <2>1, <2>2 DEF TaskOnce
<1>7. \A u \in Tasks \ {t} : Untouched(u)
  BY <1>2, <1>4, <1>5 DEF Untouched, IInv, OwnConns
<1>. QED  BY <1>6, <1>7, UntouchedOnce DEF Once

\* An answer of the server, to the task that waits for it.
LEMMA RespondOnce ==
    ASSUME IInv, Once, NEW c \in Conns, UNCHANGED <<task, config>>, conn[c].state = "asked",
           NEW t \in Tasks, task[t].conn = c,
           NEW status, NEW key, NEW body, NEW ctx, Respond(c, status, key, body, ctx),
           \/ executed' = executed
           \/ /\ executed' = [executed EXCEPT ![t] = @ + 1]
              /\ task[t].pc \notin NotRun
              /\ status # "401" /\ ~(task[t].pc = "type3Wait" /\ task[t].mode = "blank")
    PROVE  Once'
<1>1. /\ conn'[c].state = "answered" /\ conn'[c].msg.status = status
      /\ \A d \in Conns \ {c} : conn'[d] = conn[d]
  BY SMT DEF Respond, IInv, Shapes, IsConn
<1>2. TaskOnce(t) /\ executed[t] \in Nat /\ task[t].attempt \in Nat /\ c # None /\ executed[t] <= task[t].attempt
  BY TransportAssumption DEF Once, TaskOnce
<1>3. DOMAIN executed' = Tasks /\ \A u \in Tasks \ {t} : executed'[u] = executed[u]
  BY SMT DEF Once
<1>4. \/ executed'[t] = executed[t]
      \/ /\ executed'[t] = executed[t] + 1
         /\ task[t].pc \notin NotRun
         /\ status # "401" /\ ~(task[t].pc = "type3Wait" /\ task[t].mode = "blank")
  BY SMT DEF Once
<1>5. TaskOnce(t)'
  <2>1. executed'[t] \in Nat /\ executed'[t] <= task[t].attempt + 1
    BY <1>2, <1>4, SMT
  <2>. QED  BY <1>1, <1>2, <1>4, <2>1 DEF TaskOnce
<1>6. \A u \in Tasks \ {t} : Untouched(u)
  BY <1>1, <1>3 DEF Untouched, IInv, OwnConns
<1>. QED  BY <1>3, <1>5, <1>6, UntouchedOnce DEF Once

\* The steps after which t uses no connection give up the one it used.
LEMMA LetsGo ==
    ASSUME IInv, NEW t \in Tasks,
           InnerStep(t) \/ Retry(t) \/ HttpError(t) \/ Cancel(t) \/ \E h \in Hosts : Call(t, h)
    PROVE  LetGo(t)
<1>1. CASE Retry(t) \/ CacheMiss(t) \/ Store(t) \/ \E h \in Hosts : Call(t, h)
  <2>1. UNCHANGED conn /\ task[t].pc \notin Waits
    BY <1>1 DEF Retry, CacheMiss, Store, Call, Waits
  <2>. QED  BY <2>1 DEF LetGo, IInv, Shapes, TaskSound
<1>2. CASE HttpError(t) \/ Cancel(t)
  <2>1. task[t].conn # None => task[t].conn \in Conns
    BY DEF IInv, OwnConns
  <2>. QED  BY <1>2, <2>1, ResponsesFree DEF HttpError, Cancel, LetGo
<1>3. CASE CachedRejected(t) \/ NotChallenged(t) \/ Type3Rejected(t) \/ SealedRejected(t)
  <2>1. /\ \E pc : Answered(t, pc)
        /\ \E after \in Dropped(task[t].conn) : conn' = [conn EXCEPT ![task[t].conn] = after]
    BY <1>3 DEF CachedRejected, NotChallenged, Type3Rejected, SealedRejected
  <2>. QED  BY <2>1, AnsweredFacts, ResponsesFree DEF LetGo
<1>4. CASE CachedReplied(t) \/ PlainReplied(t) \/ SealedType3Replied(t) \/ SealedReplied(t)
  <2>1. (\E pc : Answered(t, pc)) /\ conn' = [conn EXCEPT ![task[t].conn] = Released(task[t].conn)]
    BY <1>4 DEF CachedReplied, PlainReplied, SealedType3Replied, SealedReplied
  <2>. QED  BY <2>1, AnsweredFacts, ResponsesFree DEF LetGo
<1>5. CASE Challenged(t) \/ BlankAccepted(t)
  <2>1. (\E pc : Answered(t, pc)) /\ ReadIgnored(task[t].conn)
    BY <1>5 DEF Challenged, BlankAccepted
  <2>. QED  BY <2>1, AnsweredFacts, ResponsesFree DEF LetGo
<1>. QED  BY <1>1, <1>2, <1>3, <1>4, <1>5 DEF InnerStep

\* What TaskOnce says of a task whatever it does.
LEMMA Counted ==
    ASSUME Once, NEW t \in Tasks
    PROVE  /\ executed[t] \in Nat /\ task[t].attempt \in Nat /\ executed[t] <= task[t].attempt + 1
           /\ task[t].pc \in NotRun => executed[t] <= task[t].attempt
           /\ task[t].pc \notin {"idle", "backoff"} => (task[t].mode = "plain" <=> ~config.encrypt)
           /\ task[t].pc \in {"sealed", "sealedWait"} => task[t].mode = "blank"
  BY DEF Once, TaskOnce

LEMMA EndOnce ==
    ASSUME IInv, Once, NEW t \in Tasks, LetGo(t), UNCHANGED <<config, executed>>,
           NEW result, NEW reply, task' = [task EXCEPT ![t] = Ended(t, result, reply)]
    PROVE  Once'
<1>1. IsTask(task[t])
  BY DEF IInv, Shapes, TaskSound
<1>. DEFINE r == Ended(t, result, reply)
<1>2. /\ r.conn = None /\ r.attempt \in Nat /\ executed[t] <= r.attempt + 1
      /\ r.pc \in {"idle", "backoff"} /\ (r.pc = "backoff" => executed[t] <= r.attempt)
  BY <1>1, Counted, SMT DEF Ended, IsTask
<1>. HIDE DEF r
<1>3. task' = [task EXCEPT ![t] = r]
  BY DEF r
<1>4. executed[t] \in Nat /\ DOMAIN executed' = Tasks
  BY Counted DEF Once
<1>5. (r.pc \in NotRun => executed[t] <= r.attempt) /\ r.pc \notin {"sealed", "sealedWait"}
  BY <1>2 DEF NotRun
<1>. QED  BY <1>2, <1>3, <1>4, <1>5, LetGoOnce

\* A step within an attempt, to a state before or after its body was run.
LEMMA WithinOnce ==
    ASSUME IInv, Once, NEW t \in Tasks, LetGo(t), UNCHANGED <<config, executed>>,
           NEW r, task' = [task EXCEPT ![t] = r], r.conn = None, r.attempt = task[t].attempt,
           r.pc \in NotRun => executed[t] <= task[t].attempt,
           r.mode = "plain" <=> ~config.encrypt,
           r.pc \in {"sealed", "sealedWait"} => r.mode = "blank"
    PROVE  Once'
<1>1. executed[t] \in Nat /\ r.attempt \in Nat /\ executed[t] <= r.attempt + 1 /\ DOMAIN executed' = Tasks
  BY Counted DEF Once
<1>. QED  BY <1>1, LetGoOnce

LEMMA EnterOnce ==
    ASSUME IInv, Once, NEW t \in Tasks, LetGo(t), UNCHANGED config,
           NEW fields, IsTask(fields), fields.conn = None, fields.attempt \in Nat, Enter(t, fields),
           DOMAIN executed' = Tasks, executed'[t] \in Nat, executed'[t] <= fields.attempt,
           \A u \in Tasks \ {t} : executed'[u] = executed[u]
    PROVE  Once'
<1>1. PICK pc \in {"lock", "type1"} :
          \E mode : /\ task' = [task EXCEPT ![t] = [fields EXCEPT !.pc = pc, !.mode = mode]]
                    /\ mode = "plain" <=> ~config.encrypt
  <2>1. CASE config.encrypt
    BY <2>1, "blank" # "plain" DEF Enter
  <2>2. CASE ~config.encrypt
    BY <2>2 DEF Enter
  <2>. QED  BY <2>1, <2>2
<1>2. PICK mode : /\ task' = [task EXCEPT ![t] = [fields EXCEPT !.pc = pc, !.mode = mode]]
                  /\ mode = "plain" <=> ~config.encrypt
  BY <1>1
<1>. DEFINE r == [fields EXCEPT !.pc = pc, !.mode = mode]
<1>3. r.conn = None /\ r.attempt = fields.attempt /\ r.pc = pc /\ r.mode = mode
  BY SMT DEF IsTask
<1>. HIDE DEF r
<1>4. task' = [task EXCEPT ![t] = r]
  BY <1>2 DEF r
<1>5. executed'[t] <= r.attempt + 1 /\ executed'[t] <= r.attempt /\ r.attempt \in Nat
  BY <1>3, SMT
<1>. QED  BY <1>2, <1>3, <1>4, <1>5, LetGoOnce

LEMMA BeginOnce ==
    ASSUME IInv, Once, NEW t \in Tasks, UNCHANGED config, Retry(t) \/ \E h \in Hosts : Call(t, h)
    PROVE  Once'
<1>1. LetGo(t)
  BY LetsGo
<1>2. CASE Retry(t)
  <2>1. IsTask(task[t]) /\ task[t].conn = None
    BY <1>2 DEF Retry, IInv, Shapes, TaskSound, Waits
  <2>2. executed[t] <= task[t].attempt /\ executed' = executed /\ Enter(t, task[t])
    BY <1>2, Counted DEF Retry, NotRun
  <2>. QED  BY <1>1, <2>1, <2>2, Counted, EnterOnce DEF Once
<1>3. CASE \E h \in Hosts : Call(t, h)
  <2>1. PICK h \in Hosts : Call(t, h)
    BY <1>3
  <2>. DEFINE f == [Idle EXCEPT !.host = h, !.call = task[t].call + 1]
  <2>2. IsTask(f) /\ f.attempt = 0 /\ f.conn = None
    BY SMT DEF IsTask, Idle
  <2>3. Enter(t, f) /\ executed' = [executed EXCEPT ![t] = 0]
    BY <2>1 DEF Call
  <2>. HIDE DEF f
  <2>4. DOMAIN executed' = Tasks /\ executed'[t] = 0 /\ \A u \in Tasks \ {t} : executed'[u] = executed[u]
    BY <2>3 DEF Once
  <2>5. executed'[t] \in Nat /\ executed'[t] <= f.attempt /\ f.attempt \in Nat
    BY <2>2, <2>4, SMT
  <2>. QED  BY <1>1, <2>2, <2>3, <2>4, <2>5, EnterOnce
<1>. QED  BY <1>2, <1>3

\* A 401 means that the body was not run, and so does any answer to a blank Type 3.
LEMMA NotAccepted ==
    ASSUME IInv, Once, NEW t \in Tasks, NEW pc, Answered(t, pc),
           Response(t).status = "401" \/ (pc = "type3Wait" /\ task[t].mode = "blank")
    PROVE  executed[t] <= task[t].attempt
<1>1. task[t].conn # None /\ conn[task[t].conn].state = "answered" /\ task[t].pc = pc
  BY AnsweredFacts
<1>. QED  BY <1>1 DEF Once, TaskOnce, Response

LEMMA InnerOnce ==
    ASSUME IInv, Once, NEW t \in Tasks, UNCHANGED config, InnerStep(t) \/ HttpError(t) \/ Cancel(t)
    PROVE  Once'
<1>1. LetGo(t) /\ IsTask(task[t])
  BY LetsGo DEF IInv, Shapes, TaskSound
<1>2. CASE Retry(t)
  BY <1>2, BeginOnce
<1>3. CASE CachedReplied(t) \/ NotChallenged(t) \/ Type3Rejected(t) \/ PlainReplied(t) \/ Store(t) \/ HttpError(t)
  <2>1. UNCHANGED executed /\ \E result, reply : task' = [task EXCEPT ![t] = Ended(t, result, reply)]
    BY <1>3, Zenon DEF CachedReplied, NotChallenged, Type3Rejected, PlainReplied, Store, HttpError
  <2>. QED  BY <1>1, <2>1, EndOnce
<1>4. CASE CacheMiss(t)
  <2>. DEFINE r == [task[t] EXCEPT !.pc = "type1"]
  <2>1. r.conn = task[t].conn /\ r.attempt = task[t].attempt /\ r.mode = task[t].mode /\ r.pc = "type1"
    BY <1>1, SMT DEF IsTask
  <2>2. task' = [task EXCEPT ![t] = r] /\ task[t].pc = "lock" /\ UNCHANGED executed
    BY <1>4 DEF CacheMiss
  <2>3. task[t].conn = None
    BY <2>2 DEF IInv, Shapes, TaskSound, Waits
  <2>. HIDE DEF r
  <2>4. executed[t] <= task[t].attempt /\ (r.mode = "plain" <=> ~config.encrypt)
    BY <2>1, <2>2, Counted DEF NotRun
  <2>. QED  BY <1>1, <2>1, <2>2, <2>3, <2>4, WithinOnce
<1>5. \A pc : LET r == Waiting(t, pc)
              IN r.pc = pc /\ r.conn = None /\ r.attempt = task[t].attempt /\ r.mode = task[t].mode
  BY <1>1, SMT DEF Waiting, IsTask
<1>6. \A pc, s : LET r == [Waiting(t, pc) EXCEPT !.session = s]
                 IN r.pc = pc /\ r.conn = None /\ r.attempt = task[t].attempt /\ r.mode = task[t].mode
  BY <1>1, SMT DEF Waiting, IsTask
<1>7. CASE CachedRejected(t)
  <2>1. Answered(t, "cachedWait") /\ Response(t).status = "401" /\ UNCHANGED executed
        /\ task' = [task EXCEPT ![t] = Waiting(t, "type1")]
    BY <1>7 DEF CachedRejected
  <2>2. executed[t] <= task[t].attempt /\ (task[t].mode = "plain" <=> ~config.encrypt)
    BY <2>1, NotAccepted, AnsweredFacts, Counted
  <2>3. LET r == Waiting(t, "type1")
        IN r.pc = "type1" /\ r.conn = None /\ r.attempt = task[t].attempt /\ r.mode = task[t].mode
    BY <1>5
  <2>. QED  BY <1>1, <2>1, <2>2, <2>3, WithinOnce
<1>8. CASE BlankAccepted(t)
  <2>1. Answered(t, "type3Wait") /\ task[t].mode = "blank" /\ UNCHANGED executed
        /\ task' = [task EXCEPT ![t] = Waiting(t, "sealed")]
    BY <1>8 DEF BlankAccepted
  <2>2. executed[t] <= task[t].attempt /\ (task[t].mode = "plain" <=> ~config.encrypt)
    BY <2>1, NotAccepted, AnsweredFacts, Counted
  <2>3. LET r == Waiting(t, "sealed")
        IN r.pc = "sealed" /\ r.conn = None /\ r.attempt = task[t].attempt /\ r.mode = task[t].mode
    BY <1>5
  <2>. QED  BY <1>1, <2>1, <2>2, <2>3, WithinOnce
<1>9. CASE SealedRejected(t)
  <2>. DEFINE r == [Waiting(t, "type1") EXCEPT !.mode = "sealed", !.session = None]
  <2>1. Answered(t, "sealedWait") /\ Response(t).status = "401" /\ UNCHANGED executed
        /\ task' = [task EXCEPT ![t] = r]
    BY <1>9 DEF SealedRejected
  <2>2. executed[t] <= task[t].attempt /\ task[t].pc = "sealedWait"
    BY <2>1, NotAccepted, AnsweredFacts
  <2>3. config.encrypt
    BY <2>2, Counted
  <2>4. r.pc = "type1" /\ r.conn = None /\ r.attempt = task[t].attempt /\ r.mode = "sealed"
    BY <1>1, SMT DEF Waiting, IsTask
  <2>. HIDE DEF r
  <2>. QED  BY <1>1, <2>1, <2>2, <2>3, <2>4, WithinOnce
<1>10. CASE Challenged(t)
  <2>. DEFINE r == [Waiting(t, "type3") EXCEPT !.session = FromAuth(Response(t).key)]
  <2>1. Answered(t, "type1Wait") /\ UNCHANGED executed /\ task' = [task EXCEPT ![t] = r]
    BY <1>10 DEF Challenged
  <2>2. task[t].pc = "type1Wait"
    BY <2>1, AnsweredFacts
  <2>3. executed[t] <= task[t].attempt /\ (task[t].mode = "plain" <=> ~config.encrypt)
    BY <2>2, Counted DEF NotRun
  <2>4. r.pc = "type3" /\ r.conn = None /\ r.attempt = task[t].attempt /\ r.mode = task[t].mode
    BY <1>6
  <2>. HIDE DEF r
  <2>. QED  BY <1>1, <2>1, <2>2, <2>3, <2>4, WithinOnce
<1>11. CASE SealedType3Replied(t) \/ SealedReplied(t)
  <2>. DEFINE stored(s) == [Waiting(t, "store") EXCEPT !.session = s, !.reply = ReplyOf(Response(t))]
  <2>1. UNCHANGED executed /\ \E pc \in {"type3Wait", "sealedWait"} : Answered(t, pc)
    BY <1>11 DEF SealedType3Replied, SealedReplied
  <2>2. \/ \E result, reply : task' = [task EXCEPT ![t] = Ended(t, result, reply)]
        \/ \E s : task' = [task EXCEPT ![t] = stored(s)]
    BY <1>11, Zenon DEF SealedType3Replied, SealedReplied
  <2>3. ASSUME NEW s
        PROVE  LET r == stored(s)
               IN r.pc = "store" /\ r.conn = None /\ r.attempt = task[t].attempt /\ r.mode = task[t].mode
    BY <1>1, SMT DEF Waiting, IsTask
  <2>. HIDE DEF stored
  <2>4. task[t].mode = "plain" <=> ~config.encrypt
    BY <2>1, AnsweredFacts, Counted
  <2>5. "store" \notin NotRun
    BY DEF NotRun
  <2>6. CASE \E s : task' = [task EXCEPT ![t] = stored(s)]
    <3>1. PICK s : task' = [task EXCEPT ![t] = stored(s)]
      BY <2>6
    <3>2. stored(s).pc = "store" /\ stored(s).conn = None /\ stored(s).attempt = task[t].attempt
          /\ stored(s).mode = task[t].mode
      BY <2>3
    <3>. QED  BY <1>1, <2>1, <2>4, <2>5, <3>1, <3>2, WithinOnce
  <2>. QED  BY <1>1, <2>1, <2>2, <2>6, EndOnce
<1>12. CASE Cancel(t)
  <2>. DEFINE r == [Idle EXCEPT !.call = task[t].call, !.attempt = task[t].attempt, !.result = "cancelled"]
  <2>1. r.pc = "idle" /\ r.conn = None /\ r.attempt = task[t].attempt
    BY SMT DEF Idle
  <2>2. task' = [task EXCEPT ![t] = r] /\ UNCHANGED executed
    BY <1>12 DEF Cancel
  <2>. HIDE DEF r
  <2>3. executed[t] \in Nat /\ r.attempt \in Nat /\ executed[t] <= r.attempt + 1 /\ DOMAIN executed' = Tasks
    BY <2>1, <2>2, Counted DEF Once
  <2>4. r.pc \notin NotRun
    BY <2>1 DEF NotRun
  <2>. QED  BY <1>1, <2>1, <2>2, <2>3, <2>4, LetGoOnce
<1>. QED  BY <1>2, <1>3, <1>4, <1>7, <1>8, <1>9, <1>10, <1>11, <1>12 DEF InnerStep

\* A request is sent before the attempt had its body run, and carries this task's.
LEMMA PostStepOnce ==
    ASSUME IInv, Once, NEW t \in Tasks, UNCHANGED config, PostStep(t)
    PROVE  Once'
<1>1. IsTask(task[t])
  BY DEF IInv, Shapes, TaskSound
<1>2. executed' = executed
  BY DEF PostStep, CacheHit, PostType1, PostType3, PostSealed
<1>3. task[t].pc \in {"lock", "type1", "type3", "sealed"}
  BY DEF PostStep, CacheHit, PostType1, PostType3, PostSealed
<1>4. executed[t] <= task[t].attempt /\ (task[t].mode = "plain" <=> ~config.encrypt)
  BY <1>3, Counted DEF NotRun
<1>. DEFINE Sendable(next, wait) ==
              /\ IsTask(next) /\ next.attempt = task[t].attempt /\ next.mode = task[t].mode
              /\ next.pc = wait
            Kept(wait) == wait # "sealed" /\ (wait = "sealedWait" => task[t].mode = "blank")
            Goes(request, next, wait) == Sendable(next, wait) /\ Post(t, request, next) /\ Carries(t, next, request)
<1>5. \A wait, s : /\ Sendable([task[t] EXCEPT !.pc = wait], wait)
                   /\ Sendable([task[t] EXCEPT !.pc = wait, !.session = s], wait)
                   /\ Sendable([[task[t] EXCEPT !.pc = wait] EXCEPT !.session = s], wait)
  BY <1>1, SMT DEF IsTask
<1>6. \E request, next, wait : Goes(request, next, wait) /\ Kept(wait)
  <2>1. CASE CacheHit(t)
    <3>. DEFINE request == [kind |-> "sealed", key |-> None, body |-> Seal(cache.session, Body(t), BodyLen)]
                next == [task[t] EXCEPT !.pc = "cachedWait"]
    <3>1. Post(t, request, next) /\ Sendable(next, "cachedWait")
      BY <1>5, <2>1, Zenon DEF CacheHit
    <3>2. request.body.body[1] = t /\ request.kind = "sealed"
      BY DEF Seal, Body
    <3>. HIDE DEF request, next
    <3>3. Carries(t, next, request)
      BY <3>1, <3>2 DEF Carries
    <3>4. Goes(request, next, "cachedWait") /\ Kept("cachedWait")
      BY <3>1, <3>3
    <3>. QED  BY <3>4
  <2>2. CASE PostType1(t)
    <3>. DEFINE request == [kind |-> "type1", key |-> None, body |-> NoBody]
                next == [task[t] EXCEPT !.pc = "type1Wait"]
    <3>1. Post(t, request, next) /\ Sendable(next, "type1Wait")
      BY <1>5, <2>2, Zenon DEF PostType1
    <3>2. Carries(t, next, request)
      BY DEF Carries
    <3>. HIDE DEF request, next
    <3>3. Goes(request, next, "type1Wait") /\ Kept("type1Wait")
      BY <3>1, <3>2
    <3>. QED  BY <3>3
  <2>3. CASE PostSealed(t)
    <3>. DEFINE request == [kind |-> "sealed", key |-> None, body |-> Seal(task[t].session, Body(t), BodyLen)]
                next == [task[t] EXCEPT !.pc = "sealedWait", !.session = AfterSeal(task[t].session, BodyLen)]
    <3>1. Post(t, request, next)
      BY <2>3, Zenon DEF PostSealed
    <3>2. Sendable(next, "sealedWait")
      BY <1>5
    <3>3. request.body.body[1] = t /\ request.kind = "sealed" /\ task[t].mode = "blank"
      BY <2>3, Counted DEF Seal, Body, PostSealed
    <3>. HIDE DEF request, next
    <3>4. Carries(t, next, request)
      BY <3>2, <3>3 DEF Carries
    <3>5. Goes(request, next, "sealedWait") /\ Kept("sealedWait")
      BY <3>1, <3>2, <3>3, <3>4
    <3>. QED  BY <3>5
  <2>4. CASE PostType3(t)
    <3>. DEFINE s == AfterSeal(task[t].session, BodyLen)
                sealed == Seal(task[t].session, Body(t), BodyLen)
                x == [task[t] EXCEPT !.pc = "type3Wait"]
                z == [x EXCEPT !.session = s]
                Type3(body) == [kind |-> "type3", key |-> Key(task[t].session), body |-> body,
                                binding |-> ChannelBinding]
    <3>1. Sendable(x, "type3Wait") /\ Sendable(z, "type3Wait")
      BY <1>5
    <3>2. sealed.body[1] = t /\ Plain(t).body[1] = t
      BY DEF Seal, Body, Plain
    <3>3. \A body : Type3(body).kind = "type3" /\ Type3(body).body = body
      OBVIOUS
    <3>4. CASE task[t].mode = "blank"
      <4>1. Post(t, Type3(NoBody), x)
        BY <2>4, <3>4, Zenon DEF PostType3
      <4>. HIDE DEF x, Type3
      <4>2. Carries(t, x, Type3(NoBody))
        BY <3>1, <3>3, <3>4 DEF Carries
      <4>3. Goes(Type3(NoBody), x, "type3Wait") /\ Kept("type3Wait")
        BY <3>1, <4>1, <4>2
      <4>. QED  BY <4>3
    <3>5. CASE task[t].mode = "plain"
      <4>1. Post(t, Type3(Plain(t)), x)
        BY <2>4, <3>5, Zenon DEF PostType3
      <4>. HIDE DEF x, Type3
      <4>2. Carries(t, x, Type3(Plain(t)))
        BY <3>1, <3>2, <3>3, <3>5 DEF Carries
      <4>3. Goes(Type3(Plain(t)), x, "type3Wait") /\ Kept("type3Wait")
        BY <3>1, <4>1, <4>2
      <4>. QED  BY <4>3
    <3>6. CASE task[t].mode = "sealed"
      <4>1. Post(t, Type3(sealed), z)
        BY <2>4, <3>6, Zenon DEF PostType3
      <4>. HIDE DEF z, Type3, sealed
      <4>2. Carries(t, z, Type3(sealed))
        BY <3>1, <3>2, <3>3, <3>6 DEF Carries
      <4>3. Goes(Type3(sealed), z, "type3Wait") /\ Kept("type3Wait")
        BY <3>1, <4>1, <4>2
      <4>. QED  BY <4>3
    <3>7. task[t].mode \in {"blank", "plain", "sealed"}
      BY DEF IInv, Shapes, TaskSound
    <3>. QED  BY <3>4, <3>5, <3>6, <3>7
  <2>. QED  BY <2>1, <2>2, <2>3, <2>4 DEF PostStep
<1>7. PICK request, next, wait : Goes(request, next, wait) /\ Kept(wait)
  BY <1>6
<1>. QED  BY <1>2, <1>4, <1>7, PostOnce

\* What runs is the body of the task that waits, which had it not run before.
LEMMA ServeOnce ==
    ASSUME IInv, Once, UNCHANGED config, NEW c \in Conns,
           ServeType1(c) \/ ServeType3(c) \/ ServeSealed(c) \/ ServerFails(c)
    PROVE  Once'
<1>1. conn[c].state = "asked" /\ UNCHANGED <<task, config>>
  BY DEF ServeType1, ServeType3, ServeSealed, ServerFails
<1>2. PICK t \in Tasks : task[t].conn = c
  BY <1>1 DEF IInv, OwnConns
<1>3. c # None
  BY TransportAssumption
<1>4. Carries(t, task[t], conn[c].msg)
  BY <1>1, <1>2, <1>3 DEF Once, TaskOnce
<1>. DEFINE m == conn[c].msg
            Answers(status) == \E key, body, ctx : Respond(c, status, key, body, ctx)
<1>5. CASE ServeType1(c) \/ ServerFails(c)
  <2>1. UNCHANGED executed /\ \E status : Answers(status)
    BY <1>5, Zenon DEF ServeType1, ServerFails
  <2>. QED  BY <1>1, <1>2, <2>1, RespondOnce
<1>6. ASSUME task[t].pc \notin NotRun, ~(task[t].pc = "type3Wait" /\ task[t].mode = "blank"),
             \E status \in {"200", "500"} : Answers(status), executed' = [executed EXCEPT ![t] = @ + 1]
      PROVE  Once'
  BY <1>1, <1>2, <1>6, RespondOnce
<1>7. CASE ServeSealed(c)
  <2>1. m.body.body[1] = t /\ task[t].pc \in {"cachedWait", "sealedWait"}
    BY <1>4, <1>7 DEF ServeSealed, Carries
  <2>2. \/ UNCHANGED executed /\ \E status : Answers(status)
        \/ \E s : RunSealed(c, s, m.body)
    BY <1>7, Zenon DEF ServeSealed
  <2>3. CASE UNCHANGED executed /\ \E status : Answers(status)
    BY <1>1, <1>2, <2>3, RespondOnce
  <2>4. CASE \E s : RunSealed(c, s, m.body)
    <3>1. /\ \E status \in {"200", "500"} : Answers(status)
          /\ executed' = [executed EXCEPT ![m.body.body[1]] = @ + 1]
      BY <2>4, Zenon DEF RunSealed, Ran
    <3>. QED  BY <1>6, <2>1, <3>1 DEF NotRun
  <2>. QED  BY <2>2, <2>3, <2>4
<1>8. CASE ServeType3(c)
  <2>1. /\ task[t].pc = "type3Wait" /\ task[t].mode \in {"blank", "plain", "sealed"}
        /\ task[t].mode = "blank"  => m.body = NoBody
        /\ task[t].mode = "plain"  => m.body.body[1] = t
        /\ task[t].mode = "sealed" => m.body.body[1] = t
    BY <1>4, <1>8 DEF ServeType3, Carries, IInv, Shapes, TaskSound
  <2>2. task[t].mode = "plain" <=> ~config.encrypt
    BY <2>1, Counted
  <2>3. \/ UNCHANGED executed /\ \E status : Answers(status)
        \/ m.body # NoBody /\ ~config.encrypt /\ (\E status \in {"200", "500"} : Answers(status)) /\ Ran(m.body.body)
        \/ m.body # NoBody /\ config.encrypt /\ \E s : RunSealed(c, s, m.body)
    BY <1>8, Zenon DEF ServeType3
  <2>4. CASE UNCHANGED executed /\ \E status : Answers(status)
    BY <1>1, <1>2, <2>4, RespondOnce
  <2>5. CASE m.body # NoBody /\ ~config.encrypt /\ (\E status \in {"200", "500"} : Answers(status)) /\ Ran(m.body.body)
    <3>1. executed' = [executed EXCEPT ![t] = @ + 1]
      BY <2>1, <2>2, <2>5 DEF Ran
    <3>. QED  BY <1>6, <2>1, <2>5, <3>1 DEF NotRun
  <2>6. CASE m.body # NoBody /\ config.encrypt /\ \E s : RunSealed(c, s, m.body)
    <3>1. /\ \E status \in {"200", "500"} : Answers(status)
          /\ executed' = [executed EXCEPT ![m.body.body[1]] = @ + 1]
      BY <2>6, Zenon DEF RunSealed, Ran
    <3>2. task[t].mode = "sealed"
      BY <2>1, <2>2, <2>6
    <3>. QED  BY <1>6, <2>1, <3>1, <3>2 DEF NotRun
  <2>. QED  BY <2>3, <2>4, <2>5, <2>6
<1>. QED  BY <1>5, <1>7, <1>8

\* What the server does to an idle connection concerns no task.
LEMMA IdleOnce ==
    ASSUME IInv, Once, UNCHANGED config, NEW c \in Conns, Expire(c) \/ IdleClosed(c)
    PROVE  Once'
<1>1. /\ UNCHANGED <<task, executed, config>> /\ conn[c].state = "idle"
      /\ \A d \in Conns \ {c} : conn'[d] = conn[d]
  BY DEF Expire, IdleClosed, IInv, Shapes
<1>2. \A u \in Tasks : Untouched(u)
  BY <1>1 DEF Untouched, IInv, OwnConns
<1>. QED  BY <1>1, <1>2, UntouchedOnce DEF Once

LEMMA InitOnce == Init => Once
<1>. SUFFICES ASSUME Init PROVE Once
  OBVIOUS
<1>1. Idle.pc = "idle" /\ Idle.attempt = 0 /\ Idle.conn = None
  BY DEF Idle
<1>2. DOMAIN executed = Tasks /\ \A t \in Tasks : task[t] = Idle /\ executed[t] = 0
  BY DEF Init
<1>. HIDE DEF Idle
<1>3. ASSUME NEW t \in Tasks PROVE TaskOnce(t)
  <2>1. executed[t] = 0 /\ task[t].attempt = 0 /\ task[t].conn = None /\ task[t].pc = "idle"
    BY <1>1, <1>2
  <2>2. executed[t] \in Nat /\ task[t].attempt \in Nat /\ executed[t] <= task[t].attempt + 1
    BY <2>1, SMT
  <2>. QED  BY <2>1, <2>2 DEF TaskOnce, NotRun
<1>. QED  BY <1>2, <1>3 DEF Once

LEMMA NextOnce == IInv /\ Once /\ [Next]_vars => Once'
<1>. SUFFICES ASSUME IInv, Once, [Next]_vars PROVE Once'
  OBVIOUS
<1>1. CASE UNCHANGED vars
  BY <1>1 DEF vars, Once, TaskOnce, Carries
<1>2. ASSUME NEW t \in Tasks, TaskStep(t) PROVE Once'
  BY <1>2, PostStepOnce, InnerOnce DEF TaskStep
<1>3. ASSUME NEW c \in Conns, ServerStep(c) \/ ServerFails(c) \/ Expire(c) \/ IdleClosed(c), UNCHANGED config
      PROVE  Once'
  BY <1>3, ServeOnce, IdleOnce DEF ServerStep
<1>4. ASSUME NEW t \in Tasks, UNCHANGED <<verifier, config>>,
             HttpError(t) \/ Cancel(t) \/ \E h \in Hosts : Call(t, h)
      PROVE  Once'
  BY <1>4, InnerOnce, BeginOnce
<1>. QED  BY <1>1, <1>2, <1>3, <1>4 DEF Next, Environment, ServerStep

\* However calls are refused, authenticated again, raced by others, broken off or
\* dropped, the server runs the body of a call at most once for each attempt
\* of it: a body goes out again within an attempt only when a 401 told that it was
\* not run (send_ntlm_sealed, send_soap_with_retry).
THEOREM RunsOncePerAttempt == Spec => []AtMostOncePerAttempt
<1>1. Init => IInv /\ Locked /\ Once
  BY InitIInv, InitOnce
<1>2. (IInv /\ Locked /\ Once) /\ [Next]_vars => (IInv /\ Locked /\ Once)'
  BY NextIInv, NextOnce
<1>3. Once => AtMostOncePerAttempt
  BY DEF Once, TaskOnce, AtMostOncePerAttempt
<1>. QED  BY <1>1, <1>2, <1>3, PTL DEF Spec

-----------------------------------------------------------------------------
(* Whose answer a call returns.                                              *)

\* The body of a message is that of t's call.
IsOf(t, message) == message.body # NoBody /\ message.body.body = Body(t)

\* An answer tells that the body of t's call was run, and is the reply to it.
IsReply(t, message) == IsOf(t, message) /\ executed[t] >= 1

\* The request t waits for carries its call's body, and an answer of status 200
\* is the reply to it, the answer to a blank Type 3 apart.
TaskOwn(t) ==
    LET r == task[t]
        x == conn[task[t].conn]
    IN /\ r.call \in Nat
       /\ r.result = "ok" => r.pc = "idle"
       /\ r.result = "ok" \/ r.pc = "store" => r.reply = Body(t) /\ executed[t] >= 1
       /\ r.conn # None =>
             /\ x.state = "asked" =>
                   /\ x.msg.kind = "type3" /\ r.mode # "blank" => IsOf(t, x.msg)
                   /\ x.msg.kind = "sealed" => IsOf(t, x.msg)
             /\ x.state = "answered" =>
                   /\ x.msg.status \in {"200", "401", "500", "503"}
                   /\ x.msg.status = "200" /\ ~(r.pc = "type3Wait" /\ r.mode = "blank")
                         => IsReply(t, x.msg)

Own == \A t \in Tasks : TaskOwn(t)

LEMMA BodyOfSealed ==
    ASSUME NEW t, NEW session
    PROVE  IsOf(t, [body |-> Seal(session, Body(t), BodyLen)])
  BY SMT DEF IsOf, Seal, NoBody

LEMMA BodyOfPlain ==
    ASSUME Own, NEW t \in Tasks
    PROVE  IsOf(t, [body |-> Plain(t)])
<1>1. Body(t) # None
  BY TransportAssumption DEF Own, TaskOwn, Body
<1>. QED  BY <1>1, SMT DEF IsOf, Plain, NoBody

LEMMA UntouchedOwn ==
    ASSUME Own, NEW u \in Tasks, Untouched(u) PROVE TaskOwn(u)'
<1>1. TaskOwn(u)
  BY DEF Own
<1>. QED  BY <1>1 DEF TaskOwn, Untouched, IsReply, IsOf, Body

\* A step that ends with no connection in use.
LEMMA LetGoOwn ==
    ASSUME IInv, Own, NEW t \in Tasks, NEW r, task' = [task EXCEPT ![t] = r], r.conn = None,
           LetGo(t), \A u \in Tasks \ {t} : executed'[u] = executed[u],
           r.call \in Nat, r.result = "ok" => r.pc = "idle",
           r.result = "ok" \/ r.pc = "store" => r.reply = <<t, r.call>> /\ executed'[t] >= 1
    PROVE  Own'
<1>1. task'[t] = r /\ \A u \in Tasks \ {t} : task'[u] = task[u]
  BY DEF IInv, Shapes
<1>3. ASSUME NEW u \in Tasks \ {t}, task[u].conn # None PROVE conn'[task[u].conn] = conn[task[u].conn]
  <2>1. CASE task[t].conn = None
    BY <2>1 DEF LetGo
  <2>2. CASE task[t].conn # None
    <3>1. PICK x : conn' = [conn EXCEPT ![task[t].conn] = x]
      BY <2>2 DEF LetGo, Freed
    <3>2. task[u].conn \in Conns /\ task[u].conn # task[t].conn
      BY <1>3, <2>2, SMT DEF IInv, OwnConns
    <3>. QED  BY <3>1, <3>2, SMT DEF IInv, Shapes
  <2>. QED  BY <2>1, <2>2
<1>4. TaskOwn(t)'
  BY <1>1 DEF TaskOwn, Body
<1>5. \A u \in Tasks \ {t} : TaskOwn(u)'
  BY <1>1, <1>3, UntouchedOwn DEF Untouched
<1>. QED  BY <1>4, <1>5 DEF Own

\* A step that sends a request.
LEMMA PostOwn ==
    ASSUME IInv, Own, NEW t \in Tasks, UNCHANGED executed,
           NEW request, NEW next, IsTask(next), Post(t, request, next),
           next.call = task[t].call, next.result # "ok", next.pc # "store",
           request.kind = "type3" /\ next.mode # "blank" => IsOf(t, request),
           request.kind = "sealed" => IsOf(t, request)
    PROVE  Own'
<1>1. PICK c \in Available(task[t].host) :
        /\ conn' = [conn EXCEPT ![c].state = "asked", ![c].host = task[t].host, ![c].msg = request]
        /\ task' = [task EXCEPT ![t] = [next EXCEPT !.conn = c]]
  BY Zenon DEF Post
<1>2. c \in Conns /\ conn[c].state \in {"idle", "closed"}
  BY AvailableFree
<1>. DEFINE r == [next EXCEPT !.conn = c]
<1>3. /\ r.conn = c /\ r.pc = next.pc /\ r.mode = next.mode /\ r.call = next.call
      /\ r.result = next.result
  BY SMT DEF IsTask
<1>4. conn'[c].state = "asked" /\ conn'[c].msg = request /\ \A d \in Conns \ {c} : conn'[d] = conn[d]
  BY <1>1, <1>2, SMT DEF IInv, Shapes, IsConn
<1>. HIDE DEF r
<1>5. task'[t] = r /\ \A u \in Tasks \ {t} : task'[u] = task[u]
  BY <1>1 DEF IInv, Shapes, r
<1>6. TaskOwn(t)'
  <2>1. task[t].call \in Nat
    BY DEF Own, TaskOwn
  <2>2. IsOf(t, request)' <=> IsOf(t, request)
    BY <1>3, <1>5, Zenon DEF IsOf, Body
  <2>. QED  BY <1>3, <1>4, <1>5, <2>1, <2>2 DEF TaskOwn, IsOf
<1>7. \A u \in Tasks \ {t} : Untouched(u)
  BY <1>2, <1>4, <1>5 DEF Untouched, IInv, OwnConns
<1>. QED  BY <1>6, <1>7, UntouchedOwn DEF Own

\* An answer of the server, to the task that waits for it.
LEMMA RespondOwn ==
    ASSUME IInv, Own, NEW c \in Conns, UNCHANGED task, conn[c].state = "asked",
           NEW t \in Tasks, task[t].conn = c,
           NEW status \in {"200", "401", "500", "503"}, NEW key, NEW body, NEW ctx,
           Respond(c, status, key, body, ctx),
           \A u \in Tasks \ {t} : executed'[u] = executed[u],
           status = "200" /\ ~(task[t].pc = "type3Wait" /\ task[t].mode = "blank")
               => body # NoBody /\ body.body = Body(t) /\ executed'[t] >= 1
    PROVE  Own'
<1>1. /\ conn'[c].state = "answered" /\ conn'[c].msg.status = status /\ conn'[c].msg.body = body
      /\ \A d \in Conns \ {c} : conn'[d] = conn[d]
  BY SMT DEF Respond, IInv, Shapes, IsConn
<1>2. TaskOwn(t) /\ c # None /\ task[t].pc \in Waits
  BY TransportAssumption DEF Own, IInv, Shapes, TaskSound
<1>3. TaskOwn(t)'
  <2>1. task[t].pc # "idle" /\ task[t].pc # "store"
    BY <1>2 DEF Waits
  <2>. QED  BY <1>1, <1>2, <2>1 DEF TaskOwn, IsReply, IsOf, Body
<1>4. \A u \in Tasks \ {t} : Untouched(u)
  BY <1>1 DEF Untouched, IInv, OwnConns
<1>. QED  BY <1>3, <1>4, UntouchedOwn DEF Own

\* What TaskOwn says of a task with a call.
LEMMA NotYetOk ==
    ASSUME Own, NEW t \in Tasks, task[t].pc # "idle"
    PROVE  task[t].call \in Nat /\ task[t].result # "ok"
  BY DEF Own, TaskOwn

\* A call that ends, or fails an attempt of it.
LEMMA EndOwn ==
    ASSUME IInv, Own, NEW t \in Tasks, LetGo(t), UNCHANGED executed, task[t].pc # "idle",
           NEW result, NEW reply, task' = [task EXCEPT ![t] = Ended(t, result, reply)],
           result = "ok" => reply = Body(t) /\ executed[t] >= 1
    PROVE  Own'
<1>1. IsTask(task[t]) /\ task[t].call \in Nat /\ task[t].result # "ok"
  BY NotYetOk DEF IInv, Shapes, TaskSound
<1>. DEFINE r == Ended(t, result, reply)
<1>2. /\ r.conn = None /\ r.call = task[t].call
      /\ \/ r.pc = "backoff" /\ r.result = task[t].result
         \/ r.pc = "idle" /\ r.result = result /\ r.reply = reply
  BY <1>1, SMT DEF Ended, IsTask
<1>. HIDE DEF r
<1>3. task' = [task EXCEPT ![t] = r]
  BY DEF r
<1>4. r.result = "ok" => r.pc = "idle" /\ r.reply = <<t, r.call>> /\ executed'[t] >= 1
  BY <1>1, <1>2 DEF Body
<1>5. r.pc # "store"
  BY <1>2
<1>. QED  BY <1>1, <1>2, <1>3, <1>4, <1>5, LetGoOwn

\* A step within an attempt, before its reply is there.
LEMMA WithinOwn ==
    ASSUME IInv, Own, NEW t \in Tasks, LetGo(t), UNCHANGED executed,
           NEW r, task' = [task EXCEPT ![t] = r], r.conn = None, r.call = task[t].call,
           task[t].pc # "idle", r.result = task[t].result, r.pc # "store"
    PROVE  Own'
<1>1. r.call \in Nat /\ r.result # "ok"
  BY NotYetOk
<1>. QED  BY <1>1, LetGoOwn

\* An answer that ends a call with Ok, or has it store its session, is its reply.
LEMMA OkReply ==
    ASSUME IInv, Own, NEW t \in Tasks, NEW pc, Answered(t, pc), Response(t).status = "200",
           ~(pc = "type3Wait" /\ task[t].mode = "blank")
    PROVE  ReplyOf(Response(t)) = Body(t) /\ executed[t] >= 1
<1>1. task[t].conn # None /\ conn[task[t].conn].state = "answered" /\ task[t].pc = pc
  BY AnsweredFacts
<1>. QED  BY <1>1 DEF Own, TaskOwn, IsReply, IsOf, Response, ReplyOf

LEMMA OkHasStatus200 ==
    ASSUME NEW session, NEW resp
    PROVE  /\ Unsealed(session, resp) = "ok" => resp.status = "200"
           /\ resp.status \in {"200", "401", "500", "503"} /\ resp.status # "401"
                /\ PlainResult(resp.status) = "ok" => resp.status = "200"
<1>1. Unsealed(session, resp) = "ok" => resp.status = "200"
  <2>1. CASE resp.body = NoBody
    BY <2>1, Zenon DEF Unsealed
  <2>2. CASE resp.body # NoBody /\ Opens(session, resp.body)
    BY <2>2, Zenon DEF Unsealed
  <2>3. CASE resp.body # NoBody /\ ~Opens(session, resp.body)
    BY <2>3, Zenon DEF Unsealed
  <2>. QED  BY <2>1, <2>2, <2>3
<1>2. PlainResult("500") # "ok" /\ PlainResult("503") # "ok"
  BY SMT DEF PlainResult
<1>. QED  BY <1>1, <1>2

\* Statuses are the four that the server answers with.
LEMMA AnsweredStatus ==
    ASSUME IInv, Own, NEW t \in Tasks, NEW pc, Answered(t, pc)
    PROVE  Response(t).status \in {"200", "401", "500", "503"} /\ task[t].pc = pc
  BY AnsweredFacts DEF Own, TaskOwn, Response

LEMMA BeginOwn ==
    ASSUME IInv, Own, NEW t \in Tasks, Retry(t) \/ \E h \in Hosts : Call(t, h)
    PROVE  Own'
<1>1. LetGo(t)
  BY LetsGo
<1>2. ASSUME NEW f, IsTask(f), f.conn = None, f.call \in Nat, f.result # "ok", Enter(t, f),
             \A u \in Tasks \ {t} : executed'[u] = executed[u]
      PROVE  Own'
  <2>1. PICK pc \in {"lock", "type1"}, mode \in {"blank", "plain"} :
            task' = [task EXCEPT ![t] = [f EXCEPT !.pc = pc, !.mode = mode]]
    BY <1>2, Zenon DEF Enter
  <2>. DEFINE r == [f EXCEPT !.pc = pc, !.mode = mode]
  <2>2. r.conn = None /\ r.call = f.call /\ r.pc = pc /\ r.result = f.result
    BY <1>2, SMT DEF IsTask
  <2>3. task' = [task EXCEPT ![t] = r]
    BY <2>1
  <2>. HIDE DEF r
  <2>4. r.call \in Nat /\ r.result # "ok" /\ r.pc # "store"
    BY <1>2, <2>1, <2>2
  <2>. QED  BY <1>1, <1>2, <2>2, <2>3, <2>4, LetGoOwn
<1>3. CASE Retry(t)
  <2>1. IsTask(task[t]) /\ task[t].conn = None /\ task[t].pc # "idle"
    BY <1>3 DEF Retry, IInv, Shapes, TaskSound, Waits
  <2>2. executed' = executed /\ Enter(t, task[t])
    BY <1>3 DEF Retry
  <2>. QED  BY <1>2, <2>1, <2>2, NotYetOk
<1>4. ASSUME NEW h \in Hosts, Call(t, h) PROVE Own'
  <2>. DEFINE f == [Idle EXCEPT !.host = h, !.call = task[t].call + 1]
  <2>1. IsTask(f) /\ f.conn = None /\ f.result = "none" /\ f.call = task[t].call + 1
    BY SMT DEF IsTask, Idle
  <2>2. task[t].call \in Nat
    BY DEF Own, TaskOwn
  <2>3. Enter(t, f) /\ executed' = [executed EXCEPT ![t] = 0]
    BY <1>4 DEF Call
  <2>. HIDE DEF f
  <2>4. \A u \in Tasks \ {t} : executed'[u] = executed[u]
    BY <2>3, SMT
  <2>5. f.call \in Nat /\ f.result # "ok"
    BY <2>1, <2>2, SMT
  <2>. QED  BY <1>2, <2>1, <2>3, <2>4, <2>5
<1>. QED  BY <1>3, <1>4

LEMMA InnerOwn ==
    ASSUME IInv, Own, NEW t \in Tasks, InnerStep(t) \/ HttpError(t) \/ Cancel(t)
    PROVE  Own'
<1>1. LetGo(t) /\ IsTask(task[t])
  BY LetsGo DEF IInv, Shapes, TaskSound
<1>2. CASE Retry(t)
  BY <1>2, BeginOwn
<1>3. ASSUME NEW pc, NEW r, Answered(t, pc), pc \in Waits, UNCHANGED executed, task' = [task EXCEPT ![t] = r],
             r.conn = None, r.call = task[t].call, r.result = task[t].result, r.pc # "store"
      PROVE  Own'
  <2>1. task[t].pc # "idle"
    BY <1>3, AnsweredStatus DEF Waits
  <2>. QED  BY <1>1, <1>3, <2>1, WithinOwn
<1>4. CASE NotChallenged(t) \/ Type3Rejected(t) \/ HttpError(t)
  <2>1. UNCHANGED executed /\ \E result \in {"auth", "ntlm", "http"} : \E reply :
          task' = [task EXCEPT ![t] = Ended(t, result, reply)]
    BY <1>4, Zenon DEF NotChallenged, Type3Rejected, HttpError
  <2>2. task[t].pc # "idle"
    BY <1>4 DEF NotChallenged, Type3Rejected, HttpError, Answered, IInv, Shapes, TaskSound, Waits
  <2>. QED  BY <1>1, <2>1, <2>2, EndOwn
<1>5. CASE CachedReplied(t) \/ PlainReplied(t)
  <2>1. \E pc \in {"cachedWait", "type3Wait"} : \E result :
            /\ Answered(t, pc) /\ UNCHANGED executed /\ task[t].pc = pc
            /\ task' = [task EXCEPT ![t] = Ended(t, result, ReplyOf(Response(t)))]
            /\ result = "ok" => Response(t).status = "200" /\ ~(pc = "type3Wait" /\ task[t].mode = "blank")
    <3>1. CASE CachedReplied(t)
      BY <3>1, OkHasStatus200, AnsweredStatus DEF CachedReplied
    <3>2. CASE PlainReplied(t)
      BY <3>2, OkHasStatus200, AnsweredStatus DEF PlainReplied
    <3>. QED  BY <1>5, <3>1, <3>2
  <2>2. PICK pc \in {"cachedWait", "type3Wait"} : \E result :
            /\ Answered(t, pc) /\ UNCHANGED executed /\ task[t].pc = pc
            /\ task' = [task EXCEPT ![t] = Ended(t, result, ReplyOf(Response(t)))]
            /\ result = "ok" => Response(t).status = "200" /\ ~(pc = "type3Wait" /\ task[t].mode = "blank")
    BY <2>1
  <2>3. PICK result :
            /\ task' = [task EXCEPT ![t] = Ended(t, result, ReplyOf(Response(t)))]
            /\ result = "ok" => Response(t).status = "200" /\ ~(pc = "type3Wait" /\ task[t].mode = "blank")
    BY <2>2
  <2>4. result = "ok" => ReplyOf(Response(t)) = Body(t) /\ executed[t] >= 1
    BY <2>2, <2>3, OkReply
  <2>. QED  BY <1>1, <2>2, <2>3, <2>4, EndOwn
<1>6. CASE Store(t)
  <2>1. /\ UNCHANGED executed /\ task' = [task EXCEPT ![t] = Ended(t, "ok", task[t].reply)]
        /\ task[t].pc = "store"
    BY <1>6 DEF Store
  <2>2. task[t].reply = Body(t) /\ executed[t] >= 1
    BY <2>1 DEF Own, TaskOwn
  <2>. QED  BY <1>1, <2>1, <2>2, EndOwn
<1>7. CASE CacheMiss(t)
  <2>. DEFINE r == [task[t] EXCEPT !.pc = "type1"]
  <2>1. r.conn = task[t].conn /\ r.call = task[t].call /\ r.result = task[t].result /\ r.pc = "type1"
    BY <1>1, SMT DEF IsTask
  <2>2. task' = [task EXCEPT ![t] = r] /\ task[t].pc = "lock" /\ UNCHANGED executed
    BY <1>7 DEF CacheMiss
  <2>3. task[t].conn = None
    BY <2>2 DEF IInv, Shapes, TaskSound, Waits
  <2>. HIDE DEF r
  <2>. QED  BY <1>1, <2>1, <2>2, <2>3, WithinOwn
<1>8. \A pc, s, reply, mode :
          LET a == Waiting(t, pc)
              b == [a EXCEPT !.session = s]
              d == [a EXCEPT !.mode = mode, !.session = s]
              e == [a EXCEPT !.session = s, !.reply = reply]
          IN /\ a.pc = pc /\ a.conn = None /\ a.call = task[t].call /\ a.result = task[t].result
             /\ b.pc = pc /\ b.conn = None /\ b.call = task[t].call /\ b.result = task[t].result
             /\ d.pc = pc /\ d.conn = None /\ d.call = task[t].call /\ d.result = task[t].result
             /\ e.pc = pc /\ e.conn = None /\ e.call = task[t].call /\ e.result = task[t].result
             /\ e.reply = reply
  BY <1>1, SMT DEF Waiting, IsTask
<1>9. CASE CachedRejected(t) \/ BlankAccepted(t)
  <2>1. PICK pc \in {"cachedWait", "type3Wait"}, next \in {"type1", "sealed"} :
            Answered(t, pc) /\ UNCHANGED executed /\ task' = [task EXCEPT ![t] = Waiting(t, next)]
    BY <1>9 DEF CachedRejected, BlankAccepted
  <2>2. pc \in Waits /\ next # "store"
    BY <2>1 DEF Waits
  <2>3. LET r == Waiting(t, next)
        IN r.pc = next /\ r.conn = None /\ r.call = task[t].call /\ r.result = task[t].result
    BY <1>8
  <2>. QED  BY <1>3, <2>1, <2>2, <2>3
<1>10. CASE Challenged(t)
  <2>1. Answered(t, "type1Wait") /\ UNCHANGED executed
        /\ task' = [task EXCEPT ![t] = [Waiting(t, "type3") EXCEPT !.session = FromAuth(Response(t).key)]]
    BY <1>10 DEF Challenged
  <2>2. LET r == [Waiting(t, "type3") EXCEPT !.session = FromAuth(Response(t).key)]
        IN r.pc = "type3" /\ r.conn = None /\ r.call = task[t].call /\ r.result = task[t].result
    BY <1>8
  <2>. QED  BY <1>3, <2>1, <2>2 DEF Waits
<1>11. CASE SealedRejected(t)
  <2>1. Answered(t, "sealedWait") /\ UNCHANGED executed
        /\ task' = [task EXCEPT ![t] = [Waiting(t, "type1") EXCEPT !.mode = "sealed", !.session = None]]
    BY <1>11 DEF SealedRejected
  <2>2. LET r == [Waiting(t, "type1") EXCEPT !.mode = "sealed", !.session = None]
        IN r.pc = "type1" /\ r.conn = None /\ r.call = task[t].call /\ r.result = task[t].result
    BY <1>8
  <2>. QED  BY <1>3, <2>1, <2>2 DEF Waits
<1>12. CASE SealedType3Replied(t) \/ SealedReplied(t)
  <2>. DEFINE stored(s) == [Waiting(t, "store") EXCEPT !.session = s, !.reply = ReplyOf(Response(t))]
              result == Unsealed(task[t].session, Response(t))
  <2>1. PICK pc \in {"type3Wait", "sealedWait"} :
            Answered(t, pc) /\ UNCHANGED executed /\ ~(pc = "type3Wait" /\ task[t].mode = "blank")
    BY <1>12 DEF SealedType3Replied, SealedReplied
  <2>2. \/ task' = [task EXCEPT ![t] = Ended(t, result, ReplyOf(Response(t)))] /\ result # "ok"
        \/ result = "ok" /\ \E s : task' = [task EXCEPT ![t] = stored(s)]
    BY <1>12, Zenon DEF SealedType3Replied, SealedReplied
  <2>3. task[t].pc # "idle"
    BY <2>1, AnsweredStatus
  <2>4. CASE task' = [task EXCEPT ![t] = Ended(t, result, ReplyOf(Response(t)))] /\ result # "ok"
    BY <1>1, <2>1, <2>3, <2>4, EndOwn
  <2>5. ASSUME result = "ok", NEW s, task' = [task EXCEPT ![t] = stored(s)]
        PROVE  Own'
    <3>1. /\ stored(s).pc = "store" /\ stored(s).conn = None /\ stored(s).call = task[t].call
          /\ stored(s).result = task[t].result /\ stored(s).reply = ReplyOf(Response(t))
      BY <1>8
    <3>2. Response(t).status = "200"
      BY <2>5, OkHasStatus200
    <3>. HIDE DEF stored, result
    <3>3. ReplyOf(Response(t)) = Body(t) /\ executed[t] >= 1
      BY <2>1, <3>2, OkReply
    <3>4. stored(s).reply = <<t, stored(s).call>> /\ executed'[t] >= 1
      BY <2>1, <3>1, <3>3 DEF Body
    <3>5. stored(s).call \in Nat /\ stored(s).result # "ok"
      BY <2>3, <3>1, NotYetOk
    <3>. QED  BY <1>1, <2>1, <2>5, <3>1, <3>4, <3>5, LetGoOwn
  <2>. QED  BY <2>2, <2>4, <2>5
<1>13. CASE Cancel(t)
  <2>. DEFINE r == [Idle EXCEPT !.call = task[t].call, !.attempt = task[t].attempt, !.result = "cancelled"]
  <2>1. r.pc = "idle" /\ r.conn = None /\ r.call = task[t].call /\ r.result = "cancelled"
    BY SMT DEF Idle
  <2>2. task' = [task EXCEPT ![t] = r] /\ UNCHANGED executed
    BY <1>13 DEF Cancel
  <2>3. task[t].call \in Nat
    BY DEF Own, TaskOwn
  <2>. HIDE DEF r
  <2>. QED  BY <1>1, <2>1, <2>2, <2>3, LetGoOwn
<1>. QED  BY <1>2, <1>4, <1>5, <1>6, <1>7, <1>9, <1>10, <1>11, <1>12, <1>13 DEF InnerStep

LEMMA PostStepOwn ==
    ASSUME IInv, Own, NEW t \in Tasks, PostStep(t)
    PROVE  Own'
<1>1. IsTask(task[t]) /\ task[t].mode \in {"blank", "plain", "sealed"}
  BY DEF IInv, Shapes, TaskSound
<1>2. executed' = executed /\ task[t].result # "ok"
  <2>1. executed' = executed /\ task[t].pc # "idle"
    BY DEF PostStep, CacheHit, PostType1, PostType3, PostSealed
  <2>. QED  BY <2>1, NotYetOk
<1>. DEFINE Sendable(next) ==
              /\ IsTask(next) /\ next.call = task[t].call /\ next.result = task[t].result
              /\ next.pc \in Waits /\ next.mode = task[t].mode
            Brings(next, request) ==
              /\ request.kind = "type3" /\ next.mode # "blank" => IsOf(t, request)
              /\ request.kind = "sealed" => IsOf(t, request)
<1>3. \A wait \in Waits : \A s :
          /\ Sendable([task[t] EXCEPT !.pc = wait])
          /\ Sendable([task[t] EXCEPT !.pc = wait, !.session = s])
          /\ Sendable([[task[t] EXCEPT !.pc = wait] EXCEPT !.session = s])
  BY <1>1, SMT DEF IsTask
<1>4. \A message, body : message.body = body =>
          (IsOf(t, message) <=> IsOf(t, [body |-> body]))
  BY SMT DEF IsOf
<1>5. \E request, next : Sendable(next) /\ Post(t, request, next) /\ Brings(next, request)
  <2>1. CASE CacheHit(t)
    <3>. DEFINE request == [kind |-> "sealed", key |-> None, body |-> Seal(cache.session, Body(t), BodyLen)]
                next == [task[t] EXCEPT !.pc = "cachedWait"]
    <3>1. Post(t, request, next) /\ Sendable(next)
      BY <1>3, <2>1, Zenon DEF CacheHit, Waits
    <3>2. request.body = Seal(cache.session, Body(t), BodyLen)
      OBVIOUS
    <3>3. IsOf(t, [body |-> Seal(cache.session, Body(t), BodyLen)])
      BY BodyOfSealed
    <3>. HIDE DEF request, next
    <3>4. IsOf(t, request)
      BY <1>4, <3>2, <3>3
    <3>. QED  BY <3>1, <3>4
  <2>2. CASE PostType1(t)
    <3>. DEFINE request == [kind |-> "type1", key |-> None, body |-> NoBody]
                next == [task[t] EXCEPT !.pc = "type1Wait"]
    <3>1. Post(t, request, next) /\ Sendable(next)
      BY <1>3, <2>2, Zenon DEF PostType1, Waits
    <3>2. request.kind = "type1"
      OBVIOUS
    <3>. HIDE DEF request, next
    <3>. QED  BY <3>1, <3>2
  <2>3. CASE PostSealed(t)
    <3>. DEFINE request == [kind |-> "sealed", key |-> None, body |-> Seal(task[t].session, Body(t), BodyLen)]
                next == [task[t] EXCEPT !.pc = "sealedWait", !.session = AfterSeal(task[t].session, BodyLen)]
    <3>1. Post(t, request, next)
      BY <2>3, Zenon DEF PostSealed
    <3>2. Sendable(next)
      BY <1>3 DEF Waits
    <3>3. request.body = Seal(task[t].session, Body(t), BodyLen)
      OBVIOUS
    <3>4. IsOf(t, [body |-> Seal(task[t].session, Body(t), BodyLen)])
      BY BodyOfSealed
    <3>. HIDE DEF request, next
    <3>5. IsOf(t, request)
      BY <1>4, <3>3, <3>4
    <3>. QED  BY <3>1, <3>2, <3>5
  <2>4. CASE PostType3(t)
    <3>. DEFINE s == AfterSeal(task[t].session, BodyLen)
                sealed == Seal(task[t].session, Body(t), BodyLen)
                x == [task[t] EXCEPT !.pc = "type3Wait"]
                z == [x EXCEPT !.session = s]
                Type3(body) == [kind |-> "type3", key |-> Key(task[t].session), body |-> body,
                                binding |-> ChannelBinding]
    <3>1. Sendable(x) /\ Sendable(z)
      BY <1>3 DEF Waits
    <3>2. \A body : Type3(body).kind = "type3" /\ Type3(body).body = body
      OBVIOUS
    <3>3. IsOf(t, Type3(sealed)) /\ IsOf(t, Type3(Plain(t)))
      BY <1>4, <3>2, BodyOfSealed, BodyOfPlain
    <3>4. CASE task[t].mode = "blank"
      <4>1. Post(t, Type3(NoBody), x)
        BY <2>4, <3>4, Zenon DEF PostType3
      <4>. HIDE DEF x, Type3
      <4>. QED  BY <3>1, <3>2, <3>4, <4>1
    <3>5. CASE task[t].mode = "plain"
      <4>1. Post(t, Type3(Plain(t)), x)
        BY <2>4, <3>5, Zenon DEF PostType3
      <4>. HIDE DEF x, Type3
      <4>. QED  BY <3>1, <3>2, <3>3, <4>1
    <3>6. CASE task[t].mode = "sealed"
      <4>1. Post(t, Type3(sealed), z)
        BY <2>4, <3>6, Zenon DEF PostType3
      <4>. HIDE DEF z, Type3, sealed
      <4>. QED  BY <3>1, <3>2, <3>3, <4>1
    <3>. QED  BY <1>1, <3>4, <3>5, <3>6
  <2>. QED  BY <2>1, <2>2, <2>3, <2>4 DEF PostStep
<1>6. PICK request, next : Sendable(next) /\ Post(t, request, next) /\ Brings(next, request)
  BY <1>5
<1>7. next.pc # "store"
  BY <1>6 DEF Waits
<1>. QED  BY <1>2, <1>6, <1>7, PostOwn

\* The server answers with status 200 and a body only what it ran.
LEMMA ServeOwn ==
    ASSUME IInv, Once, Own, NEW c \in Conns,
           ServeType1(c) \/ ServeType3(c) \/ ServeSealed(c) \/ ServerFails(c)
    PROVE  Own'
<1>1. conn[c].state = "asked" /\ UNCHANGED task
  BY DEF ServeType1, ServeType3, ServeSealed, ServerFails
<1>2. PICK t \in Tasks : task[t].conn = c
  BY <1>1 DEF IInv, OwnConns
<1>3. c # None
  BY TransportAssumption
<1>4. /\ Carries(t, task[t], conn[c].msg)
      /\ conn[c].msg.kind = "type3" /\ task[t].mode # "blank" => IsOf(t, conn[c].msg)
      /\ conn[c].msg.kind = "sealed" => IsOf(t, conn[c].msg)
  BY <1>1, <1>2, <1>3 DEF Once, TaskOnce, Own, TaskOwn
<1>. DEFINE m == conn[c].msg
<1>5. ASSUME UNCHANGED executed, NEW status \in {"401", "503"},
             \E key, body, ctx : Respond(c, status, key, body, ctx)
      PROVE  Own'
  BY <1>1, <1>2, <1>5, RespondOwn
<1>6. ASSUME executed' = [executed EXCEPT ![t] = @ + 1], NEW status \in {"200", "500"},
             NEW body, body # NoBody, body.body = Body(t), \E key, ctx : Respond(c, status, key, body, ctx)
      PROVE  Own'
  <2>1. executed'[t] >= 1
    BY <1>6, Counted, SMT DEF Once
  <2>2. \A u \in Tasks \ {t} : executed'[u] = executed[u]
    BY <1>6, SMT
  <2>. QED  BY <1>1, <1>2, <1>6, <2>1, <2>2, RespondOwn
<1>7. ASSUME NEW s, RunSealed(c, s, m.body), IsOf(t, m)
      PROVE  Own'
  <2>. DEFINE opened == AfterUnseal(s, m.body)
  <2>1. PICK status \in {"200", "500"} :
            /\ \E ctx : Respond(c, status, NoChallenge, Seal(opened, m.body.body, BodyLen), ctx)
            /\ executed' = [executed EXCEPT ![m.body.body[1]] = @ + 1]
    BY <1>7, Zenon DEF RunSealed, Ran
  <2>. HIDE DEF opened
  <2>2. m.body.body = Body(t) /\ m.body.body[1] = t
    BY <1>7 DEF IsOf, Body
  <2>3. Seal(opened, Body(t), BodyLen) # NoBody /\ Seal(opened, Body(t), BodyLen).body = Body(t)
    BY BodyOfSealed DEF IsOf
  <2>. QED  BY <1>6, <2>1, <2>2, <2>3
<1>8. CASE ServeType1(c) \/ ServerFails(c)
  <2>1. UNCHANGED executed
    BY <1>8 DEF ServeType1, ServerFails
  <2>2. CASE ServeType1(c)
    <3>1. \E key, body, ctx : Respond(c, "401", key, body, ctx)
      BY <2>2, Zenon DEF ServeType1
    <3>. QED  BY <1>5, <2>1, <3>1
  <2>3. CASE ServerFails(c)
    <3>1. PICK status \in {"503"} \cup (IF conn[c].msg.kind = "type1" THEN {"401"} ELSE {}) :
              Respond(c, status, NoChallenge, NoBody, conn[c].ctx)
      BY <2>3, Zenon DEF ServerFails
    <3>2. status \in {"401", "503"}
      OBVIOUS
    <3>. QED  BY <1>5, <2>1, <3>1, <3>2
  <2>. QED  BY <1>8, <2>2, <2>3
<1>9. CASE ServeSealed(c)
  <2>1. IsOf(t, m)
    BY <1>4, <1>9 DEF ServeSealed
  <2>2. \/ UNCHANGED executed /\ \E status \in {"401"} \cup BadSealStatus :
                                    \E key, body, ctx : Respond(c, status, key, body, ctx)
        \/ \E s : RunSealed(c, s, m.body)
    BY <1>9, Zenon DEF ServeSealed
  <2>. QED  BY <1>5, <1>7, <2>1, <2>2, TransportAssumption
<1>10. CASE ServeType3(c)
  <2>1. task[t].pc = "type3Wait" /\ task[t].mode \in {"blank", "plain", "sealed"}
        /\ (task[t].mode = "blank" => m.body = NoBody)
        /\ (task[t].mode # "blank" => IsOf(t, m))
        /\ (task[t].mode = "plain" <=> ~config.encrypt)
    <3>1. task[t].pc = "type3Wait" /\ task[t].mode \in {"blank", "plain", "sealed"}
      BY <1>4, <1>10 DEF ServeType3, Carries, IInv, Shapes, TaskSound
    <3>2. task[t].mode = "plain" <=> ~config.encrypt
      BY <3>1, Counted
    <3>. QED  BY <1>4, <1>10, <3>1, <3>2 DEF ServeType3, Carries
  <2>2. \/ UNCHANGED executed /\ \E key, body, ctx : Respond(c, "401", key, body, ctx)
        \/ /\ UNCHANGED executed /\ m.body = NoBody
           /\ \E key, body, ctx : Respond(c, "200", key, body, ctx)
        \/ /\ m.body # NoBody /\ Ran(m.body.body)
           /\ \E status \in {"200", "500"} : \E key, ctx : Respond(c, status, key, m.body, ctx)
        \/ m.body # NoBody /\ \E s : RunSealed(c, s, m.body)
    BY <1>10, Zenon DEF ServeType3
  <2>3. CASE UNCHANGED executed /\ \E key, body, ctx : Respond(c, "401", key, body, ctx)
    BY <1>5, <2>3
  <2>4. CASE /\ UNCHANGED executed /\ m.body = NoBody
             /\ \E key, body, ctx : Respond(c, "200", key, body, ctx)
    <3>1. task[t].mode = "blank"
      BY <2>1, <2>4 DEF IsOf
    <3>. QED  BY <1>1, <1>2, <2>1, <2>4, <3>1, RespondOwn
  <2>5. CASE m.body # NoBody /\ Ran(m.body.body) /\
             \E status \in {"200", "500"} : \E key, ctx : Respond(c, status, key, m.body, ctx)
    <3>1. m.body.body = Body(t) /\ m.body.body[1] = t
      BY <2>1, <2>5 DEF IsOf, Body
    <3>. QED  BY <1>6, <2>5, <3>1 DEF Ran
  <2>6. CASE m.body # NoBody /\ \E s : RunSealed(c, s, m.body)
    BY <1>7, <2>1, <2>6
  <2>. QED  BY <2>2, <2>3, <2>4, <2>5, <2>6
<1>. QED  BY <1>8, <1>9, <1>10

LEMMA IdleOwn ==
    ASSUME IInv, Own, NEW c \in Conns, Expire(c) \/ IdleClosed(c)
    PROVE  Own'
<1>1. /\ UNCHANGED <<task, executed>> /\ conn[c].state = "idle"
      /\ \A d \in Conns \ {c} : conn'[d] = conn[d]
  BY DEF Expire, IdleClosed, IInv, Shapes
<1>2. \A u \in Tasks : Untouched(u)
  BY <1>1 DEF Untouched, IInv, OwnConns
<1>. QED  BY <1>2, UntouchedOwn DEF Own

LEMMA InitOwn == Init => Own
<1>. SUFFICES ASSUME Init, NEW t \in Tasks PROVE TaskOwn(t)
  BY DEF Own
<1>1. Idle.pc = "idle" /\ Idle.call = 0 /\ Idle.conn = None /\ Idle.result = "none"
  BY DEF Idle
<1>2. task[t] = Idle
  BY DEF Init
<1>. QED  BY <1>1, <1>2 DEF TaskOwn

LEMMA NextOwn == IInv /\ Once /\ Own /\ [Next]_vars => Own'
<1>. SUFFICES ASSUME IInv, Once, Own, [Next]_vars PROVE Own'
  OBVIOUS
<1>1. CASE UNCHANGED vars
  <2>1. \A u \in Tasks : Untouched(u)
    BY <1>1 DEF vars, Untouched
  <2>. QED  BY <2>1, UntouchedOwn DEF Own
<1>2. ASSUME NEW t \in Tasks, TaskStep(t) PROVE Own'
  BY <1>2, PostStepOwn, InnerOwn DEF TaskStep
<1>3. ASSUME NEW c \in Conns, ServerStep(c) \/ ServerFails(c) \/ Expire(c) \/ IdleClosed(c)
      PROVE  Own'
  BY <1>3, ServeOwn, IdleOwn DEF ServerStep
<1>4. ASSUME NEW t \in Tasks, HttpError(t) \/ Cancel(t) \/ \E h \in Hosts : Call(t, h)
      PROVE  Own'
  BY <1>4, InnerOwn, BeginOwn
<1>. QED  BY <1>1, <1>2, <1>3, <1>4 DEF Next, Environment

\* A call that returns Ok returns the server's answer to this very call, whose
\* body was run, and exactly once if nothing was tried again: however callers
\* share the session, no reply reaches a call that did not ask for it
\* (send_sealed_body, unseal_body, send_soap_with_retry).
THEOREM OkIsTheReply == Spec => []OkIsOwnReply
<1>1. Init => IInv /\ Locked /\ Once /\ Own
  BY InitIInv, InitOnce, InitOwn
<1>2. (IInv /\ Locked /\ Once /\ Own) /\ [Next]_vars => (IInv /\ Locked /\ Once /\ Own)'
  BY NextIInv, NextOnce, NextOwn
<1>3. Once /\ Own => OkIsOwnReply
  <2>. SUFFICES ASSUME Once, Own, NEW t \in Tasks, task[t].result = "ok"
                PROVE  /\ task[t].reply = Body(t) /\ executed[t] >= 1
                       /\ task[t].attempt = 0 => executed[t] = 1
    BY DEF OkIsOwnReply
  <2>1. task[t].reply = Body(t) /\ executed[t] >= 1
    BY DEF Own, TaskOwn
  <2>2. executed[t] \in Nat /\ executed[t] <= task[t].attempt + 1
    BY Counted
  <2>. QED  BY <2>1, <2>2, SMT
<1>. QED  BY <1>1, <1>2, <1>3, PTL DEF Spec

-----------------------------------------------------------------------------
(* The two ends of an NtlmSession: what one seals the other opens.           *)

\* A session as NtlmSession makes them.
Record(a, b, c, d, e, f) == [sealKey |-> a, clientSeq |-> b, clientPos |-> c,
                             openKey |-> d, serverSeq |-> e, serverPos |-> f]
IsRecord(s) == \E a, b, c, d, e, f : s = Record(a, b, c, d, e, f)

Sent(s, pos, seq)  == [s EXCEPT !.clientPos = pos, !.clientSeq = seq]
Taken(s, pos, seq) == [s EXCEPT !.serverPos = pos, !.serverSeq = seq]

LEMMA SendingMoves ==
    ASSUME NEW a, NEW b, NEW c, NEW d, NEW e, NEW f, NEW x, NEW y
    PROVE  Sent(Record(a, b, c, d, e, f), x, y) = Record(a, y, x, d, e, f)
<1>. DEFINE s == Record(a, b, c, d, e, f)
            t == [s EXCEPT !.clientPos = x]
<1>1. t = Record(a, b, x, d, e, f)
  BY SMT DEF Record
<1>2. [Record(a, b, x, d, e, f) EXCEPT !.clientSeq = y] = Record(a, y, x, d, e, f)
  BY SMT DEF Record
<1>3. [s EXCEPT !.clientPos = x, !.clientSeq = y] = [t EXCEPT !.clientSeq = y]
  OBVIOUS
<1>. QED  BY <1>1, <1>2, <1>3 DEF Sent

LEMMA ReceivingMoves ==
    ASSUME NEW a, NEW b, NEW c, NEW d, NEW e, NEW f, NEW x, NEW y
    PROVE  Taken(Record(a, b, c, d, e, f), x, y) = Record(a, b, c, d, y, x)
<1>. DEFINE s == Record(a, b, c, d, e, f)
            t == [s EXCEPT !.serverPos = x]
<1>1. t = Record(a, b, c, d, e, x)
  BY SMT DEF Record
<1>2. [Record(a, b, c, d, e, x) EXCEPT !.serverSeq = y] = Record(a, b, c, d, y, x)
  BY SMT DEF Record
<1>3. [s EXCEPT !.serverPos = x, !.serverSeq = y] = [t EXCEPT !.serverSeq = y]
  OBVIOUS
<1>. QED  BY <1>1, <1>2, <1>3 DEF Taken

LEMMA RecordFields ==
    ASSUME NEW a, NEW b, NEW c, NEW d, NEW e, NEW f
    PROVE  LET s == Record(a, b, c, d, e, f)
           IN /\ s.sealKey = a /\ s.clientSeq = b /\ s.clientPos = c
              /\ s.openKey = d /\ s.serverSeq = e /\ s.serverPos = f
  BY Zenon DEF Record

LEMMA SealKeepsRecord ==
    ASSUME NEW s, IsRecord(s), NEW len
    PROVE  /\ AfterSeal(s, len) = Record(s.sealKey, (s.clientSeq + 1) % SeqModulus,
                                         s.clientPos + len + ChecksumLen,
                                         s.openKey, s.serverSeq, s.serverPos)
           /\ IsRecord(AfterSeal(s, len))
<1>1. PICK a, b, c, d, e, f : s = Record(a, b, c, d, e, f)
  BY DEF IsRecord
<1>2. /\ s.sealKey = a /\ s.clientSeq = b /\ s.clientPos = c
      /\ s.openKey = d /\ s.serverSeq = e /\ s.serverPos = f
  BY <1>1, RecordFields
<1>3. AfterSeal(s, len) = Record(a, (b + 1) % SeqModulus, c + len + ChecksumLen, d, e, f)
  <2>1. PICK x, y : x = s.clientPos + len + ChecksumLen /\ y = (s.clientSeq + 1) % SeqModulus
    OBVIOUS
  <2>2. AfterSeal(s, len) = Sent(s, x, y)
    BY <2>1, SMT DEF AfterSeal, Sent
  <2>3. Sent(Record(a, b, c, d, e, f), x, y) = Record(a, y, x, d, e, f)
    BY SendingMoves
  <2>. QED  BY <1>1, <1>2, <2>1, <2>2, <2>3, Zenon
<1>. QED  BY <1>2, <1>3 DEF IsRecord

LEMMA MirrorIsRecord ==
    ASSUME NEW s
    PROVE  /\ Mirror(s) = Record(s.openKey, s.serverSeq, s.serverPos,
                                 s.sealKey, s.clientSeq, s.clientPos)
           /\ IsRecord(Mirror(s))
  BY Zenon DEF Mirror, Record, IsRecord

LEMMA MirrorTwice ==
    ASSUME NEW s, IsRecord(s)
    PROVE  Mirror(Mirror(s)) = s
<1>1. PICK a, b, c, d, e, f : s = Record(a, b, c, d, e, f)
  BY DEF IsRecord
<1>2. Mirror(s) = Record(d, e, f, a, b, c)
  BY <1>1, MirrorIsRecord, RecordFields
<1>. QED  BY <1>1, <1>2, MirrorIsRecord, RecordFields

\* What one end seals, the other opens, and both then stand where they should.
LEMMA PeerOpens ==
    ASSUME NEW s, IsRecord(s), NEW body, NEW len
    PROVE  /\ Opens(Mirror(s), Seal(s, body, len))
           /\ AfterUnseal(Mirror(s), Seal(s, body, len)) = Mirror(AfterSeal(s, len))
<1>. DEFINE m == Seal(s, body, len)
            p == Mirror(s)
<1>1. /\ p.sealKey = s.openKey /\ p.clientSeq = s.serverSeq /\ p.clientPos = s.serverPos
      /\ p.openKey = s.sealKey /\ p.serverSeq = s.clientSeq /\ p.serverPos = s.clientPos
  BY Zenon DEF Mirror
<1>2. m.version = 1 /\ m.seq = s.clientSeq /\ m.len = len
      /\ m.sum = Checksum(s.sealKey, s.clientSeq, s.clientPos, TRUE)
  BY Zenon DEF Seal
<1>3. HeaderOk(p, m) /\ ChecksumOk(p, m)
  BY <1>1, <1>2 DEF HeaderOk, ChecksumOk
<1>. PICK x, y : x = s.clientPos + len + ChecksumLen /\ y = (s.clientSeq + 1) % SeqModulus
  OBVIOUS
<1>4. AfterUnseal(p, m) = Taken(p, x, y)
  BY <1>1, <1>2, <1>3, SMT DEF AfterUnseal, Taken
<1>5. p = Record(s.openKey, s.serverSeq, s.serverPos, s.sealKey, s.clientSeq, s.clientPos)
  BY MirrorIsRecord
<1>6. AfterUnseal(p, m) = Record(s.openKey, s.serverSeq, s.serverPos, s.sealKey,
                                 (s.clientSeq + 1) % SeqModulus, s.clientPos + len + ChecksumLen)
  <2>1. Taken(Record(s.openKey, s.serverSeq, s.serverPos, s.sealKey, s.clientSeq, s.clientPos), x, y)
            = Record(s.openKey, s.serverSeq, s.serverPos, s.sealKey, y, x)
    BY ReceivingMoves
  <2>. QED  BY <1>4, <1>5, <2>1, Zenon
<1>7. Mirror(AfterSeal(s, len)) =
          Record(s.openKey, s.serverSeq, s.serverPos, s.sealKey,
                 (s.clientSeq + 1) % SeqModulus, s.clientPos + len + ChecksumLen)
  BY SealKeepsRecord, MirrorIsRecord, RecordFields
<1>. QED  BY <1>3, <1>6, <1>7 DEF Opens

-----------------------------------------------------------------------------
(* One caller, that nothing happens to.                                      *)

\* A connection whose context is of the kind and stands opposite to session s.
IsCtx(ctx)         == DOMAIN ctx = {"kind", "session"}
Agrees(x, s, kind) == IsCtx(x.ctx) /\ x.ctx.kind = kind /\ x.ctx.session = Mirror(s)

\* The host's next request goes to such a connection.
InTouch(h, s, kind) ==
    \E c \in Conns : conn[c].state = "idle" /\ conn[c].host = h /\ Agrees(conn[c], s, kind)

\* The exchange on connection x of a body that s has sealed.
SealedExchange(x, s, body) ==
    /\ x.state = "asked" =>
          \E old : /\ IsRecord(old) /\ s = AfterSeal(old, BodyLen) /\ Agrees(x, old, "open")
                   /\ x.msg.kind = "sealed" /\ x.msg.body = Seal(old, body, BodyLen)
    /\ x.state = "answered" =>
          LET next == AfterUnseal(s, x.msg.body)
          IN /\ x.msg.status \in {"200", "500"} /\ x.msg.body # NoBody /\ Opens(s, x.msg.body)
             /\ IsRecord(next) /\ Agrees(x, next, "open")

Type1Exchange(x) ==
    /\ x.state = "asked" => x.msg.kind = "type1"
    /\ x.state = "answered" => /\ x.msg.status = "401" /\ x.msg.key # NoChallenge
                               /\ Agrees(x, FromAuth(x.msg.key), "challenged")

\* Good credentials are refused only for a binding to another channel.
Refusable(t) == ~GoodCredentials \/ BoundElsewhere(t)

Type3Exchange(t, x) ==
    /\ x.state = "asked" =>
          /\ x.msg.kind = "type3" /\ x.msg.key = Key(task[t].session)
          /\ x.msg.binding = ChannelBinding
          /\ x.msg.body = IF config.encrypt THEN NoBody ELSE Plain(t)
          /\ Agrees(x, task[t].session, "challenged")
    /\ x.state = "answered" =>
          \/ x.msg.status = "401" /\ Refusable(t)
          \/ x.msg.status \in {"200", "500"} /\ Agrees(x, task[t].session, "open")

\* A host has one connection at most, and only the caller's is in use.
Pool(t) ==
    /\ \A c, d \in Conns :
          conn[c].state # "closed" /\ conn[d].state # "closed" /\ conn[c].host = conn[d].host => c = d
    /\ \A c \in Conns : conn[c].state \in {"asked", "answered"} => task[t].conn = c
    /\ \A c \in Conns : conn[c].state \in {"closed", "idle", "asked", "answered"}

CacheInStep(t) ==
    cache # None =>
        /\ config.encrypt /\ IsRecord(cache.session) /\ task[t].pc \in {"idle", "lock", "cachedWait"}
        /\ task[t].pc # "cachedWait" => InTouch(cache.host, cache.session, "open")

\* What each stage of the call relies on.
Stage(t) ==
    /\ task[t].pc # "backoff"
    /\ task[t].pc \in Waits => task[t].conn # None
    /\ task[t].pc # "idle" => task[t].mode = IF config.encrypt THEN "blank" ELSE "plain"
    /\ task[t].pc \in {"lock", "cachedWait", "sealed", "sealedWait", "store"} => config.encrypt
    /\ task[t].result = "auth" => task[t].pc = "idle" /\ Refusable(t)
    /\ task[t].pc \in WithSession => IsRecord(task[t].session)
    /\ task[t].pc = "cachedWait" =>
          SealedExchange(conn[task[t].conn], cache.session, Body(t))
    /\ task[t].pc = "type1Wait" => Type1Exchange(conn[task[t].conn])
    /\ task[t].pc = "type3" => InTouch(task[t].host, task[t].session, "challenged")
    /\ task[t].pc = "type3Wait" => Type3Exchange(t, conn[task[t].conn])
    /\ task[t].pc \in {"sealed", "store"} => InTouch(task[t].host, task[t].session, "open")
    /\ task[t].pc = "sealedWait" =>
          SealedExchange(conn[task[t].conn], task[t].session, Body(t))

InStep(t) == Pool(t) /\ CacheInStep(t) /\ Stage(t)

Alone(t) == Tasks = {t} /\ IInv /\ Locked /\ InStep(t)

\* What is left of faults, expiries and cancels.
Budgets == [faults : 0 .. MaxFaults, expiries : 0 .. MaxExpiries, cancels : 0 .. MaxCancels]

-----------------------------------------------------------------------------
LEMMA SetAlone ==
    ASSUME NEW t, Alone(t), NEW r, task' = [task EXCEPT ![t] = r]
    PROVE  task'[t] = r
  BY SMT DEF Alone, IInv, Shapes

LEMMA AloneFacts ==
    ASSUME NEW t, Alone(t)
    PROVE  /\ t \in Tasks /\ IsTask(task[t])
           /\ task[t].pc # "idle" => task[t].host # None
           /\ task[t].conn # None <=> task[t].pc \in Waits
           /\ task[t].conn # None =>
                 /\ task[t].conn \in Conns
                 /\ conn[task[t].conn].state \in {"asked", "answered"}
                 /\ conn[task[t].conn].host = task[t].host
           /\ task[t].pc = "cachedWait" => IsCached(cache) /\ cache.host = task[t].host
           /\ DOMAIN conn = Conns /\ \A c \in Conns : IsConn(conn[c])
<1>1. t \in Tasks
  BY DEF Alone
<1>2. TaskSound(task[t]) /\ OwnConns
  BY <1>1 DEF Alone, IInv, Shapes
<1>3. task[t].conn # None <=> task[t].pc \in Waits
  BY <1>2 DEF TaskSound, Alone, InStep, Stage
<1>4. task[t].pc = "cachedWait" => IsCached(cache) /\ cache.host = task[t].host
  BY <1>1 DEF Alone, Locked, CacheOf
<1>5. DOMAIN conn = Conns /\ \A c \in Conns : IsConn(conn[c])
  BY DEF Alone, IInv, Shapes
<1>. QED  BY <1>1, <1>2, <1>3, <1>4, <1>5 DEF TaskSound, OwnConns

\* The connection a response was read from.
Kept(c) == [conn[c] EXCEPT !.state = "idle", !.msg = None]

LEMMA ReleasedKept ==
    ASSUME NEW t, Alone(t), task[t].conn # None
    PROVE  Released(task[t].conn) = Kept(task[t].conn)
<1>1. ASSUME NEW c \in Reusable(conn[task[t].conn].host) PROVE FALSE
  <2>1. c \in Conns /\ conn[c].state = "idle" /\ conn[c].host = conn[task[t].conn].host
    BY <1>1 DEF Reusable
  <2>2. task[t].conn \in Conns /\ conn[task[t].conn].state \in {"asked", "answered"}
    BY AloneFacts
  <2>3. c = task[t].conn
    BY <2>1, <2>2 DEF Alone, InStep, Pool
  <2>. QED  BY <2>1, <2>2, <2>3
<1>. QED  BY <1>1 DEF Released, Kept

\* The caller has no connection in use any more.
LEMMA LeavesPool ==
    ASSUME NEW t, Alone(t), NEW r, task' = [task EXCEPT ![t] = r], r.conn = None,
           \/ task[t].conn = None /\ UNCHANGED conn
           \/ /\ task[t].conn # None
              /\ \/ conn' = [conn EXCEPT ![task[t].conn] = Released(task[t].conn)]
                 \/ conn' = [conn EXCEPT ![task[t].conn] = Closed]
    PROVE  Pool(t)'
<1>1. task'[t] = r
  BY SetAlone
<1>2. CASE task[t].conn = None /\ UNCHANGED conn
  <2>1. \A d \in Conns : conn[d].state \notin {"asked", "answered"}
    BY <1>2, TransportAssumption DEF Alone, InStep, Pool
  <2>. QED  BY <1>2, <2>1 DEF Alone, InStep, Pool
<1>3. CASE /\ task[t].conn # None
           /\ \/ conn' = [conn EXCEPT ![task[t].conn] = Released(task[t].conn)]
              \/ conn' = [conn EXCEPT ![task[t].conn] = Closed]
  <2>. DEFINE c == task[t].conn
              x == IF conn' = [conn EXCEPT ![c] = Released(c)] THEN Kept(c) ELSE Closed
  <2>1. c \in Conns /\ conn[c].state \in {"asked", "answered"} /\ IsConn(conn[c]) /\ DOMAIN conn = Conns
    BY <1>3, AloneFacts
  <2>2. conn' = [conn EXCEPT ![c] = x]
    BY <1>3, ReleasedKept
  <2>3. x.state = "closed" \/ (x.state = "idle" /\ x.host = conn[c].host)
    <3>1. Kept(c).state = "idle" /\ Kept(c).host = conn[c].host
      BY <2>1, SMT DEF Kept, IsConn
    <3>. QED  BY <3>1, ClosedIsConn
  <2>. HIDE DEF x, c
  <2>4. conn'[c] = x /\ \A d \in Conns \ {c} : conn'[d] = conn[d]
    BY <2>1, <2>2, SMT
  <2>5. \A d \in Conns \ {c} : conn[d].state \notin {"asked", "answered"}
    BY DEF Alone, InStep, Pool, c
  <2>6. \A d \in Conns : conn'[d].state \notin {"asked", "answered"}
    BY <2>3, <2>4, <2>5
  <2>7. \A d \in Conns : conn'[d].state # "closed" => conn[d].state # "closed" /\ conn'[d].host = conn[d].host
    BY <2>1, <2>3, <2>4
  <2>8. \A d \in Conns : conn'[d].state \in {"closed", "idle", "asked", "answered"}
    BY <2>3, <2>4 DEF Alone, InStep, Pool
  <2>. QED  BY <2>6, <2>7, <2>8 DEF Alone, InStep, Pool
<1>. QED  BY <1>2, <1>3

\* Read to the end, the connection is the one for the host's next request.
LEMMA StaysInTouch ==
    ASSUME NEW t, Alone(t), task[t].conn # None, NEW h, h = task[t].host,
           conn' = [conn EXCEPT ![task[t].conn] = Released(task[t].conn)],
           NEW s, NEW kind, Agrees(conn[task[t].conn], s, kind)
    PROVE  InTouch(h, s, kind)'
<1>. DEFINE c == task[t].conn
<1>1. /\ c \in Conns /\ conn[c].host = h /\ IsConn(conn[c]) /\ DOMAIN conn = Conns
  BY AloneFacts
<1>2. conn' = [conn EXCEPT ![c] = Kept(c)]
  BY ReleasedKept
<1>3. conn'[c] = Kept(c)
  BY <1>1, <1>2
<1>4. Kept(c).state = "idle" /\ Kept(c).host = conn[c].host /\ Kept(c).ctx = conn[c].ctx
  BY <1>1, SMT DEF Kept, IsConn
<1>5. conn'[c].state = "idle" /\ conn'[c].host = h /\ Agrees(conn'[c], s, kind)
  BY <1>1, <1>3, <1>4 DEF Agrees
<1>. QED  BY <1>1, <1>5 DEF InTouch, Agrees

LEMMA StillInTouch ==
    ASSUME NEW h, NEW s, NEW kind, InTouch(h, s, kind), UNCHANGED conn
    PROVE  InTouch(h, s, kind)'
  BY DEF InTouch, Agrees

\* Steps that leave the caller without a connection.
LEMMA LeavesInStep ==
    ASSUME NEW t, Alone(t), NEW r, task' = [task EXCEPT ![t] = r], r.conn = None, UNCHANGED config,
           \/ task[t].conn = None /\ UNCHANGED conn
           \/ /\ task[t].conn # None
              /\ \/ conn' = [conn EXCEPT ![task[t].conn] = Released(task[t].conn)]
                 \/ conn' = [conn EXCEPT ![task[t].conn] = Closed],
           r.pc \in {"idle", "lock", "type1", "type3", "sealed", "store"},
           r.pc # "idle" => r.mode = IF config.encrypt THEN "blank" ELSE "plain",
           r.pc \in {"lock", "sealed", "store"} => config.encrypt,
           r.result = "auth" => r.pc = "idle" /\ Refusable(t)',
           r.pc \in WithSession => IsRecord(r.session),
           NEW h, NEW s, r.pc \in WithSession => h = r.host /\ s = r.session,
           r.pc = "type3" => InTouch(h, s, "challenged")',
           r.pc \in {"sealed", "store"} => InTouch(h, s, "open")',
           CacheInStep(t)'
    PROVE  InStep(t)'
<1>1. task'[t] = r
  BY SetAlone
<1>2. Pool(t)'
  BY LeavesPool
<1>3. /\ r.pc # "backoff" /\ r.pc \notin Waits
      /\ r.pc \notin {"cachedWait", "type1Wait", "type3Wait", "sealedWait"}
      /\ r.pc \in {"type3", "sealed", "store"} => r.pc \in WithSession
  BY DEF Waits, WithSession
<1>4. Stage(t)'
  BY <1>1, <1>3 DEF Stage
<1>. QED  BY <1>2, <1>4 DEF InStep

\* The call returns, the cache being in step or empty.
LEMMA EndInStep ==
    ASSUME NEW t, Alone(t), UNCHANGED <<verifier, config>>,
           NEW result, NEW reply, task' = [task EXCEPT ![t] = Ended(t, result, reply)],
           result # "http", result = "auth" => Refusable(t),
           \/ task[t].conn = None /\ UNCHANGED conn
           \/ /\ task[t].conn # None
              /\ \/ conn' = [conn EXCEPT ![task[t].conn] = Released(task[t].conn)]
                 \/ conn' = [conn EXCEPT ![task[t].conn] = Closed],
           cache' = None \/ (config.encrypt /\ IsRecord(cache'.session)),
           NEW h, NEW s, cache' # None => h = cache'.host /\ s = cache'.session /\ InTouch(h, s, "open")'
    PROVE  InStep(t)'
<1>. DEFINE r == Ended(t, result, reply)
<1>1. r.pc = "idle" /\ r.conn = None /\ r.result = result /\ r.host = task[t].host
  BY AloneFacts, SMT DEF Ended, IsTask
<1>2. r.pc \notin WithSession
  BY <1>1 DEF WithSession
<1>. HIDE DEF r
<1>3. task' = [task EXCEPT ![t] = r]
  BY DEF r
<1>4. task'[t] = r
  BY <1>3, SetAlone
<1>5. CacheInStep(t)'
  BY <1>1, <1>4 DEF CacheInStep
<1>6. Refusable(t) => Refusable(t)'
  BY <1>1, <1>4 DEF Refusable, BoundElsewhere, verifier
<1>. QED  BY <1>1, <1>2, <1>3, <1>5, <1>6, LeavesInStep

-----------------------------------------------------------------------------
(* The steps of the call between two requests.                               *)

LEMMA CallInStep ==
    ASSUME NEW t, Alone(t), NEW h \in Hosts, Call(t, h), UNCHANGED <<verifier, config>>
    PROVE  InStep(t)'
<1>. DEFINE f == [Idle EXCEPT !.host = h, !.call = task[t].call + 1]
            r == IF config.encrypt THEN [f EXCEPT !.pc = "lock", !.mode = "blank"]
                                   ELSE [f EXCEPT !.pc = "type1", !.mode = "plain"]
<1>1. task[t].pc = "idle" /\ UNCHANGED <<cache, conn>> /\ task' = [task EXCEPT ![t] = r]
  BY DEF Call, Enter
<1>2. /\ r.pc = IF config.encrypt THEN "lock" ELSE "type1"
      /\ r.mode = IF config.encrypt THEN "blank" ELSE "plain"
      /\ r.conn = None /\ r.result = "none"
  BY SMT DEF Idle
<1>. HIDE DEF r
<1>3. task'[t] = r
  BY <1>1, SetAlone
<1>4. task[t].conn = None /\ r.pc \notin WithSession
  BY <1>1, <1>2, AloneFacts DEF Waits, WithSession
<1>5. CacheInStep(t)'
  <2>1. cache # None => config.encrypt /\ IsRecord(cache.session) /\ InTouch(cache.host, cache.session, "open")
    BY <1>1 DEF Alone, InStep, CacheInStep
  <2>. QED  BY <1>1, <1>2, <1>3, <2>1 DEF CacheInStep, InTouch, Agrees
<1>. QED  BY <1>1, <1>2, <1>4, <1>5, LeavesInStep

LEMMA CacheMissInStep ==
    ASSUME NEW t, Alone(t), CacheMiss(t), UNCHANGED <<verifier, config>>
    PROVE  InStep(t)'
<1>. DEFINE r == [task[t] EXCEPT !.pc = "type1"]
<1>1. task[t].pc = "lock" /\ cache' = None /\ UNCHANGED conn /\ task' = [task EXCEPT ![t] = r]
  BY DEF CacheMiss
<1>2. task[t].conn = None
  BY <1>1, AloneFacts DEF Waits
<1>3. r.pc = "type1" /\ r.mode = task[t].mode /\ r.conn = None /\ r.result = task[t].result
  BY <1>2, AloneFacts, SMT DEF IsTask
<1>. HIDE DEF r
<1>4. r.mode = (IF config.encrypt THEN "blank" ELSE "plain") /\ r.result # "auth" /\ r.pc \notin WithSession
  BY <1>1, <1>3 DEF Alone, InStep, Stage, WithSession
<1>5. CacheInStep(t)'
  BY <1>1 DEF CacheInStep
<1>. QED  BY <1>1, <1>2, <1>3, <1>4, <1>5, LeavesInStep

\* The answer to what the cached session sealed.
LEMMA CachedReplyInStep ==
    ASSUME NEW t, Alone(t), CachedReplied(t), UNCHANGED <<verifier, config>>
    PROVE  InStep(t)'
<1>. DEFINE x    == Response(t)
            next == AfterUnseal(cache.session, x.body)
<1>1. /\ Answered(t, "cachedWait") /\ cache' = [cache EXCEPT !.session = ReadBy(cache.session, x)]
      /\ conn' = [conn EXCEPT ![task[t].conn] = Released(task[t].conn)]
      /\ task' = [task EXCEPT ![t] = Ended(t, Unsealed(cache.session, x), ReplyOf(x))]
  BY Zenon DEF CachedReplied
<1>2. /\ task[t].pc = "cachedWait" /\ task[t].conn # None /\ conn[task[t].conn].state = "answered"
      /\ x = conn[task[t].conn].msg
  BY <1>1 DEF Answered, Response
<1>3. /\ config.encrypt /\ IsCached(cache) /\ cache.host = task[t].host
      /\ x.status \in {"200", "500"} /\ x.body # NoBody /\ Opens(cache.session, x.body)
      /\ IsRecord(next) /\ Agrees(conn[task[t].conn], next, "open")
  BY <1>2, AloneFacts DEF Alone, InStep, Stage, SealedExchange
<1>. HIDE DEF x, next
<1>4. Unsealed(cache.session, x) \in {"ok", "soap"}
  BY <1>3 DEF Unsealed
<1>5. cache' = [cache EXCEPT !.session = next]
  BY <1>1, <1>3 DEF ReadBy, next
<1>6. cache'.session = next /\ cache'.host = cache.host
  BY <1>3, <1>5, SMT DEF IsCached
<1>. PICK h, s : h = task[t].host /\ s = next
  OBVIOUS
<1>7. InTouch(h, s, "open")'
  BY <1>1, <1>2, <1>3, StaysInTouch
<1>. QED  BY <1>1, <1>2, <1>3, <1>4, <1>6, <1>7, EndInStep

\* Undisturbed, a body is read to the end.
LEMMA ReadToEnd ==
    ASSUME budget \in Budgets, NEW c, ReadIgnored(c), UNCHANGED budget
    PROVE  conn' = [conn EXCEPT ![c] = Released(c)]
<1>. DEFINE n == budget.faults - 1
<1>1. n # budget.faults /\ [budget EXCEPT !.faults = n].faults = n
  BY TransportAssumption, SMT DEF Budgets
<1>2. budget # [budget EXCEPT !.faults = n]
  BY <1>1, Zenon
<1>. QED  BY <1>2, Zenon DEF ReadIgnored

LEMMA ChallengedInStep ==
    ASSUME NEW t, Alone(t), Challenged(t), UNCHANGED <<verifier, config>>,
           conn' = [conn EXCEPT ![task[t].conn] = Released(task[t].conn)]
    PROVE  InStep(t)'
<1>. DEFINE s == FromAuth(Response(t).key)
            r == [Waiting(t, "type3") EXCEPT !.session = s]
<1>1. Answered(t, "type1Wait") /\ UNCHANGED cache /\ task' = [task EXCEPT ![t] = r]
  BY Zenon DEF Challenged
<1>2. /\ task[t].pc = "type1Wait" /\ task[t].conn # None /\ conn[task[t].conn].state = "answered"
      /\ Response(t) = conn[task[t].conn].msg
  BY <1>1 DEF Answered, Response
<1>3. IsRecord(s)
  BY Zenon DEF FromAuth, Record, IsRecord
<1>4. Agrees(conn[task[t].conn], s, "challenged")
  BY <1>2 DEF Alone, InStep, Stage, Type1Exchange
<1>. HIDE DEF s
<1>5. /\ r.pc = "type3" /\ r.conn = None /\ r.session = s /\ r.host = task[t].host
      /\ r.mode = task[t].mode /\ r.result = task[t].result
  BY AloneFacts, SMT DEF Waiting, IsTask
<1>. HIDE DEF r
<1>6. r.mode = (IF config.encrypt THEN "blank" ELSE "plain") /\ r.result # "auth"
  BY <1>2, <1>5 DEF Alone, InStep, Stage
<1>7. cache' = None
  BY <1>1, <1>2 DEF Alone, InStep, CacheInStep
<1>. PICK h, k : h = task[t].host /\ k = s
  OBVIOUS
<1>8. InTouch(h, k, "challenged")'
  BY <1>2, <1>4, StaysInTouch
<1>. QED  BY <1>1, <1>2, <1>3, <1>5, <1>6, <1>7, <1>8, LeavesInStep DEF CacheInStep

\* Undisturbed, every Type 1 is challenged.
LEMMA AlwaysChallenged ==
    ASSUME NEW t, Alone(t), NotChallenged(t)
    PROVE  FALSE
<1>1. Answered(t, "type1Wait") /\ (Response(t).status # "401" \/ Response(t).key = NoChallenge)
  BY DEF NotChallenged
<1>. QED  BY <1>1 DEF Answered, Response, Alone, InStep, Stage, Type1Exchange

LEMMA RejectedInStep ==
    ASSUME NEW t, Alone(t), Type3Rejected(t), UNCHANGED <<verifier, config>>
    PROVE  InStep(t)'
<1>1. /\ Answered(t, "type3Wait") /\ Response(t).status = "401" /\ UNCHANGED cache
      /\ task' = [task EXCEPT ![t] = Ended(t, "auth", None)]
      /\ \/ conn' = [conn EXCEPT ![task[t].conn] = Released(task[t].conn)]
         \/ conn' = [conn EXCEPT ![task[t].conn] = Closed]
  BY Zenon DEF Type3Rejected, Dropped
<1>2. task[t].pc = "type3Wait" /\ task[t].conn # None /\ cache = None /\ Refusable(t)
  BY <1>1 DEF Answered, Response, Alone, InStep, Stage, CacheInStep, Type3Exchange
<1>. QED  BY <1>1, <1>2, EndInStep

LEMMA AcceptedInStep ==
    ASSUME NEW t, Alone(t), BlankAccepted(t), UNCHANGED <<verifier, config>>,
           conn' = [conn EXCEPT ![task[t].conn] = Released(task[t].conn)]
    PROVE  InStep(t)'
<1>. DEFINE r == Waiting(t, "sealed")
<1>1. /\ Answered(t, "type3Wait") /\ Response(t).status # "401" /\ task[t].mode = "blank"
      /\ UNCHANGED cache /\ task' = [task EXCEPT ![t] = r]
  BY Zenon DEF BlankAccepted
<1>2. /\ task[t].pc = "type3Wait" /\ task[t].conn # None /\ conn[task[t].conn].state = "answered"
      /\ conn[task[t].conn].msg.status # "401"
  BY <1>1 DEF Answered, Response
<1>3. /\ Agrees(conn[task[t].conn], task[t].session, "open") /\ task[t].result # "auth"
      /\ config.encrypt /\ cache = None /\ IsRecord(task[t].session)
  BY <1>1, <1>2 DEF Alone, InStep, Stage, CacheInStep, Type3Exchange, WithSession
<1>4. /\ r.pc = "sealed" /\ r.conn = None /\ r.session = task[t].session /\ r.host = task[t].host
      /\ r.mode = task[t].mode /\ r.result = task[t].result
  BY AloneFacts, SMT DEF Waiting, IsTask
<1>. HIDE DEF r
<1>. PICK h, k : h = task[t].host /\ k = task[t].session
  OBVIOUS
<1>5. InTouch(h, k, "open")'
  BY <1>2, <1>3, StaysInTouch
<1>. QED  BY <1>1, <1>2, <1>3, <1>4, <1>5, LeavesInStep DEF CacheInStep

LEMMA PlainReplyInStep ==
    ASSUME NEW t, Alone(t), PlainReplied(t), UNCHANGED <<verifier, config>>
    PROVE  InStep(t)'
<1>. DEFINE result == PlainResult(Response(t).status)
            reply  == ReplyOf(Response(t))
<1>1. /\ Answered(t, "type3Wait") /\ Response(t).status # "401" /\ UNCHANGED cache
      /\ task' = [task EXCEPT ![t] = Ended(t, result, reply)]
      /\ conn' = [conn EXCEPT ![task[t].conn] = Released(task[t].conn)]
  BY Zenon DEF PlainReplied
<1>2. /\ task[t].pc = "type3Wait" /\ task[t].conn # None /\ cache = None
      /\ Response(t).status \in {"200", "500"}
  BY <1>1 DEF Answered, Response, Alone, InStep, Stage, CacheInStep, Type3Exchange
<1>3. result \in {"ok", "soap"}
  BY <1>2 DEF PlainResult
<1>. HIDE DEF result, reply
<1>. QED  BY <1>1, <1>2, <1>3, EndInStep

\* Undisturbed, no request is refused but a Type 3, so that none is ever
\* repeated or sealed inside a Type 3.
LEMMA NeverRefused ==
    ASSUME NEW t, Alone(t),
           Retry(t) \/ CachedRejected(t) \/ SealedType3Replied(t) \/ SealedRejected(t)
    PROVE  FALSE
<1>1. ~Retry(t)
  BY DEF Retry, Alone, InStep, Stage
<1>2. ~CachedRejected(t)
  BY DEF CachedRejected, Answered, Response, Alone, InStep, Stage, SealedExchange
<1>3. ~SealedRejected(t)
  BY DEF SealedRejected, Answered, Response, Alone, InStep, Stage, SealedExchange
<1>4. ~SealedType3Replied(t)
  BY DEF SealedType3Replied, Answered, Alone, InStep, Stage
<1>. QED  BY <1>1, <1>2, <1>3, <1>4

LEMMA SealedReplyInStep ==
    ASSUME NEW t, Alone(t), SealedReplied(t), UNCHANGED <<verifier, config>>
    PROVE  InStep(t)'
<1>. DEFINE x      == Response(t)
            next   == AfterUnseal(task[t].session, x.body)
            result == Unsealed(task[t].session, x)
            r      == [Waiting(t, "store") EXCEPT !.session = ReadBy(task[t].session, x),
                                                  !.reply = ReplyOf(x)]
<1>1. /\ Answered(t, "sealedWait") /\ UNCHANGED cache
      /\ conn' = [conn EXCEPT ![task[t].conn] = Released(task[t].conn)]
      /\ \/ result = "ok" /\ task' = [task EXCEPT ![t] = r]
         \/ task' = [task EXCEPT ![t] = Ended(t, result, ReplyOf(x))]
  <2>1. r = [Waiting(t, "store") EXCEPT !.session = ReadBy(Waiting(t, "store").session, x),
                                        !.reply = ReplyOf(x)]
    BY AloneFacts, SMT DEF Waiting, IsTask
  <2>. QED  BY <2>1, Zenon DEF SealedReplied
<1>2. /\ task[t].pc = "sealedWait" /\ task[t].conn # None /\ conn[task[t].conn].state = "answered"
      /\ x = conn[task[t].conn].msg
  BY <1>1 DEF Answered, Response
<1>3. /\ config.encrypt /\ cache = None /\ task[t].mode = "blank" /\ task[t].result # "auth"
      /\ x.status \in {"200", "500"} /\ x.body # NoBody /\ Opens(task[t].session, x.body)
      /\ IsRecord(next) /\ Agrees(conn[task[t].conn], next, "open")
  BY <1>2, AloneFacts DEF Alone, InStep, Stage, CacheInStep, SealedExchange
<1>. HIDE DEF x, next
<1>4. result \in {"ok", "soap"}
  BY <1>3 DEF Unsealed
<1>. HIDE DEF result
<1>5. CASE task' = [task EXCEPT ![t] = r]
  <2>1. ReadBy(task[t].session, x) = next
    BY <1>3 DEF ReadBy, next
  <2>2. /\ r.pc = "store" /\ r.conn = None /\ r.session = next /\ r.host = task[t].host
        /\ r.mode = task[t].mode /\ r.result = task[t].result
    BY <2>1, AloneFacts, SMT DEF Waiting, IsTask
  <2>. HIDE DEF r
  <2>. PICK h, s : h = task[t].host /\ s = next
    OBVIOUS
  <2>3. InTouch(h, s, "open")'
    BY <1>1, <1>2, <1>3, StaysInTouch
  <2>. QED  BY <1>1, <1>2, <1>3, <1>5, <2>2, <2>3, LeavesInStep DEF CacheInStep
<1>6. CASE task' = [task EXCEPT ![t] = Ended(t, result, ReplyOf(x))]
  BY <1>1, <1>2, <1>3, <1>4, <1>6, EndInStep
<1>. QED  BY <1>1, <1>5, <1>6

LEMMA StoreInStep ==
    ASSUME NEW t, Alone(t), Store(t), UNCHANGED <<verifier, config>>
    PROVE  InStep(t)'
<1>1. /\ task[t].pc = "store" /\ cache' = [host |-> task[t].host, session |-> task[t].session]
      /\ task' = [task EXCEPT ![t] = Ended(t, "ok", task[t].reply)] /\ UNCHANGED conn
  BY DEF Store
<1>2. /\ config.encrypt /\ IsRecord(task[t].session) /\ task[t].conn = None
      /\ InTouch(task[t].host, task[t].session, "open")
  BY <1>1, AloneFacts DEF Alone, InStep, Stage, WithSession, Waits
<1>. PICK h, s : h = task[t].host /\ s = task[t].session
  OBVIOUS
<1>3. InTouch(h, s, "open")'
  BY <1>1, <1>2, StillInTouch
<1>4. cache'.host = h /\ cache'.session = s
  BY <1>1
<1>5. config.encrypt /\ IsRecord(cache'.session)
  BY <1>2, <1>4
<1>6. PICK y : task' = [task EXCEPT ![t] = Ended(t, "ok", y)]
  BY <1>1
<1>7. task[t].conn = None /\ UNCHANGED conn
  BY <1>1, <1>2
<1>8. "ok" # "http" /\ "ok" # "auth"
  OBVIOUS
<1>. QED  BY <1>3, <1>4, <1>5, <1>6, <1>7, <1>8, EndInStep, ZenonT(30)

-----------------------------------------------------------------------------
(* Requests.                                                                 *)

\* The request goes out on the host's one connection, if it has one.
LEMMA PostsInTouch ==
    ASSUME NEW t, Alone(t), task[t].conn = None, NEW request, NEW next, IsTask(next),
           NEW h, h = task[t].host, next.host = h, Post(t, request, next)
    PROVE  \E c \in Conns :
              /\ task'[t] = [next EXCEPT !.conn = c]
              /\ conn'[c].state = "asked" /\ conn'[c].msg = request
              /\ \A s, kind : InTouch(h, s, kind) => UNCHANGED verifier /\ Agrees(conn'[c], s, kind)
              /\ Pool(t)'
<1>1. PICK c \in Available(h) :
        /\ IF conn[c].state = "idle" THEN UNCHANGED verifier ELSE TlsHandshake(h)
        /\ conn' = [conn EXCEPT ![c].state = "asked", ![c].host = h, ![c].msg = request]
        /\ task' = [task EXCEPT ![t] = [next EXCEPT !.conn = c]]
  BY Zenon DEF Post
<1>2. c \in Conns /\ conn[c].state \in {"idle", "closed"}
  BY <1>1, AvailableFree
<1>3. DOMAIN conn = Conns /\ IsConn(conn[c])
  BY <1>2, AloneFacts
<1>4. /\ conn'[c].state = "asked" /\ conn'[c].host = h /\ conn'[c].msg = request
      /\ conn'[c].ctx = conn[c].ctx /\ \A d \in Conns \ {c} : conn'[d] = conn[d]
  BY <1>1, <1>2, <1>3, SMT DEF IsConn
<1>5. task'[t] = [next EXCEPT !.conn = c] /\ task'[t].conn = c
  <2>1. task'[t] = [next EXCEPT !.conn = c]
    BY <1>1, SetAlone
  <2>. QED  BY <2>1, SMT DEF IsTask
<1>6. \A d \in Conns : conn[d].state \notin {"asked", "answered"}
  BY TransportAssumption DEF Alone, InStep, Pool
<1>7. \A d, e \in Conns : conn[d].state # "closed" /\ conn[e].state # "closed" /\ conn[d].host = conn[e].host
                              => d = e
  BY DEF Alone, InStep, Pool
<1>8. \A d \in Conns : conn[d].state = "idle" /\ conn[d].host = h => c = d /\ conn[c].state = "idle"
  <2>. SUFFICES ASSUME NEW d \in Conns, conn[d].state = "idle", conn[d].host = h
                PROVE  c = d
    OBVIOUS
  <2>1. d \in Reusable(h)
    BY DEF Reusable
  <2>2. c \in Reusable(h)
    BY <1>1, <2>1 DEF Available
  <2>. QED  BY <1>7, <2>2 DEF Reusable
<1>9. \A s, kind : InTouch(h, s, kind) => UNCHANGED verifier /\ Agrees(conn'[c], s, kind)
  BY <1>1, <1>4, <1>8 DEF InTouch, Agrees
<1>10. Pool(t)'
  <2>1. \A d \in Conns : conn'[d].state \in {"asked", "answered"} => d = c
    BY <1>4, <1>6
  <2>2. \A d \in Conns \ {c} : conn'[d].state # "closed" => conn[d].state = "idle"
    <3>1. \A d \in Conns : conn[d].state \in {"closed", "idle"}
      BY <1>6 DEF Alone, InStep, Pool
    <3>. QED  BY <1>4, <3>1
  <2>3. \A d \in Conns \ {c} : conn'[d].state # "closed" => conn'[d].host # h
    BY <1>4, <1>8, <2>2
  <2>4. \A d \in Conns : conn'[d].state \in {"closed", "idle", "asked", "answered"}
    BY <1>4 DEF Alone, InStep, Pool
  <2>5. \A d, e \in Conns :
           conn'[d].state # "closed" /\ conn'[e].state # "closed" /\ conn'[d].host = conn'[e].host => d = e
    BY <1>4, <1>7, <2>3
  <2>. QED  BY <1>5, <2>1, <2>4, <2>5 DEF Pool
<1>. QED  BY <1>2, <1>4, <1>5, <1>9, <1>10

\* The call waits for an answer.
LEMMA WaitsInStep ==
    ASSUME NEW t, Alone(t), UNCHANGED config, Pool(t)', CacheInStep(t)',
           NEW c \in Conns, task'[t].conn = c, task'[t].pc \in Waits,
           task'[t].mode = IF config.encrypt THEN "blank" ELSE "plain", task'[t].result # "auth",
           task'[t].pc \in {"cachedWait", "sealedWait"} => config.encrypt,
           task'[t].pc \in WithSession => IsRecord(task'[t].session),
           task'[t].pc = "cachedWait" => SealedExchange(conn'[c], cache'.session, <<t, task'[t].call>>),
           task'[t].pc = "type1Wait" => Type1Exchange(conn'[c]),
           task'[t].pc = "type3Wait" => Type3Exchange(t, conn[task[t].conn])',
           task'[t].pc = "sealedWait" => SealedExchange(conn'[c], task'[t].session, <<t, task'[t].call>>)
    PROVE  InStep(t)'
<1>1. c # None
  BY TransportAssumption
<1>2. task'[t].pc \notin {"backoff", "idle", "lock", "sealed", "store", "type3"}
  BY DEF Waits
<1>3. Stage(t)'
  BY <1>1, <1>2 DEF Stage, Body
<1>. QED  BY <1>3 DEF InStep

\* What is sealed and sent on a connection that is in touch.
LEMMA SealsAndAsks ==
    ASSUME NEW s, IsRecord(s), NEW x, x.state = "asked", Agrees(x, s, "open"), NEW body,
           x.msg = [kind |-> "sealed", key |-> None, body |-> Seal(s, body, BodyLen)]
    PROVE  SealedExchange(x, AfterSeal(s, BodyLen), body) /\ IsRecord(AfterSeal(s, BodyLen))
<1>1. IsRecord(AfterSeal(s, BodyLen))
  BY SealKeepsRecord
<1>. DEFINE m == [kind |-> "sealed", key |-> None, body |-> Seal(s, body, BodyLen)]
<1>2. m.kind = "sealed" /\ m.body = Seal(s, body, BodyLen)
  BY Zenon
<1>3. x.msg = m
  OBVIOUS
<1>. HIDE DEF m
<1>. QED  BY <1>1, <1>2, <1>3 DEF SealedExchange

LEMMA CacheHitInStep ==
    ASSUME NEW t, Alone(t), CacheHit(t), UNCHANGED config
    PROVE  InStep(t)'
<1>. DEFINE s       == cache.session
            next    == [task[t] EXCEPT !.pc = "cachedWait"]
            request == [kind |-> "sealed", key |-> None, body |-> Seal(s, Body(t), BodyLen)]
<1>1. /\ task[t].pc = "lock" /\ cache # None /\ cache.host = task[t].host /\ Post(t, request, next)
      /\ cache' = [cache EXCEPT !.session = AfterSeal(s, BodyLen)]
  BY Zenon DEF CacheHit, CachedFor
<1>2. task[t].conn = None /\ IsTask(next) /\ next.host = task[t].host
  BY <1>1, AloneFacts, SMT DEF IsTask, Waits
<1>3. /\ IsCached(cache) /\ config.encrypt /\ IsRecord(s) /\ InTouch(task[t].host, s, "open")
      /\ task[t].mode = "blank" /\ task[t].result # "auth"
  BY <1>1 DEF Alone, InStep, CacheInStep, Stage, IInv, CacheSound
<1>4. PICK c \in Conns :
        /\ task'[t] = [next EXCEPT !.conn = c]
        /\ conn'[c].state = "asked" /\ conn'[c].msg = request
        /\ Agrees(conn'[c], s, "open") /\ Pool(t)'
  <2>. PICK h : h = task[t].host
    OBVIOUS
  <2>. HIDE DEF request, next
  <2>1. Post(t, request, next) /\ task[t].conn = None /\ IsTask(next) /\ next.host = h /\ InTouch(h, s, "open")
    BY <1>1, <1>2, <1>3
  <2>. QED  BY <2>1, PostsInTouch
<1>5. SealedExchange(conn'[c], AfterSeal(s, BodyLen), Body(t)) /\ IsRecord(AfterSeal(s, BodyLen))
  BY <1>3, <1>4, SealsAndAsks
<1>6. cache'.session = AfterSeal(s, BodyLen)
  BY <1>1, <1>3, SMT DEF IsCached
<1>7. /\ task'[t].pc = "cachedWait" /\ task'[t].conn = c /\ task'[t].mode = task[t].mode
      /\ task'[t].result = task[t].result /\ task'[t].call = task[t].call
  BY <1>4, AloneFacts, SMT DEF IsTask
<1>. HIDE DEF next, request
<1>8. CacheInStep(t)'
  BY <1>3, <1>5, <1>6, <1>7 DEF CacheInStep
<1>9. task'[t].pc \in Waits /\ task'[t].pc \notin WithSession
  BY <1>7 DEF Waits, WithSession
<1>. QED  BY <1>3, <1>4, <1>5, <1>6, <1>7, <1>8, <1>9, WaitsInStep DEF Body

LEMMA PostType1InStep ==
    ASSUME NEW t, Alone(t), PostType1(t), UNCHANGED config
    PROVE  InStep(t)'
<1>. DEFINE next    == [task[t] EXCEPT !.pc = "type1Wait"]
            request == [kind |-> "type1", key |-> None, body |-> NoBody]
<1>1. task[t].pc = "type1" /\ Post(t, request, next) /\ UNCHANGED cache
  BY Zenon DEF PostType1
<1>2. task[t].conn = None /\ IsTask(next) /\ next.host = task[t].host
  BY <1>1, AloneFacts, SMT DEF IsTask, Waits
<1>3. /\ cache = None /\ task[t].result # "auth"
      /\ task[t].mode = IF config.encrypt THEN "blank" ELSE "plain"
  BY <1>1 DEF Alone, InStep, CacheInStep, Stage
<1>4. PICK c \in Conns :
        /\ task'[t] = [next EXCEPT !.conn = c]
        /\ conn'[c].state = "asked" /\ conn'[c].msg = request /\ Pool(t)'
  <2>. PICK h : h = task[t].host
    OBVIOUS
  <2>. HIDE DEF request, next
  <2>1. Post(t, request, next) /\ task[t].conn = None /\ IsTask(next) /\ next.host = h
    BY <1>1, <1>2
  <2>2. \E c \in Conns :
          /\ task'[t] = [next EXCEPT !.conn = c]
          /\ conn'[c].state = "asked" /\ conn'[c].msg = request
          /\ \A s, kind : InTouch(h, s, kind) => UNCHANGED verifier /\ Agrees(conn'[c], s, kind)
          /\ Pool(t)'
    BY <2>1, PostsInTouch
  <2>. QED  BY <2>2
<1>5. Type1Exchange(conn'[c])
  <2>1. request.kind = "type1"
    OBVIOUS
  <2>. QED  BY <1>4, <2>1 DEF Type1Exchange
<1>6. /\ task'[t].pc = "type1Wait" /\ task'[t].conn = c /\ task'[t].mode = task[t].mode
      /\ task'[t].result = task[t].result
  BY <1>4, AloneFacts, SMT DEF IsTask
<1>. HIDE DEF next, request
<1>7. task'[t].pc \in Waits /\ task'[t].pc \notin WithSession
  BY <1>6 DEF Waits, WithSession
<1>8. CacheInStep(t)'
  BY <1>1, <1>3 DEF CacheInStep
<1>. QED  BY <1>3, <1>4, <1>5, <1>6, <1>7, <1>8, WaitsInStep

LEMMA PostType3InStep ==
    ASSUME NEW t, Alone(t), PostType3(t), UNCHANGED config
    PROVE  InStep(t)'
<1>. DEFINE s       == task[t].session
            body    == IF config.encrypt THEN NoBody ELSE Plain(t)
            next    == [task[t] EXCEPT !.pc = "type3Wait"]
            request == [kind |-> "type3", key |-> Key(s), body |-> body, binding |-> ChannelBinding]
<1>1. task[t].pc = "type3" /\ UNCHANGED cache
  BY DEF PostType3
<1>2. /\ cache = None /\ task[t].result # "auth" /\ InTouch(task[t].host, s, "challenged") /\ IsRecord(s)
      /\ task[t].mode = IF config.encrypt THEN "blank" ELSE "plain"
  BY <1>1 DEF Alone, InStep, CacheInStep, Stage, WithSession
<1>3. Post(t, request, next)
  <2>1. CASE config.encrypt
    BY <1>2, <2>1, Zenon DEF PostType3
  <2>2. CASE ~config.encrypt
    <3>1. task[t].mode = "plain" /\ body = Plain(t)
      BY <1>2, <2>2
    <3>. QED  BY <3>1, Zenon DEF PostType3
  <2>. QED  BY <2>1, <2>2
<1>4. task[t].conn = None /\ IsTask(next) /\ next.host = task[t].host
  BY <1>1, AloneFacts, SMT DEF IsTask, Waits
<1>5. PICK c \in Conns :
        /\ task'[t] = [next EXCEPT !.conn = c]
        /\ conn'[c].state = "asked" /\ conn'[c].msg = request
        /\ UNCHANGED verifier /\ Agrees(conn'[c], s, "challenged") /\ Pool(t)'
  <2>. PICK h : h = task[t].host
    OBVIOUS
  <2>. HIDE DEF request, next
  <2>. QED  BY <1>2, <1>3, <1>4, PostsInTouch
<1>6. /\ task'[t].pc = "type3Wait" /\ task'[t].conn = c /\ task'[t].mode = task[t].mode
      /\ task'[t].result = task[t].result /\ task'[t].session = s /\ task'[t].call = task[t].call
  BY <1>5, AloneFacts, SMT DEF IsTask
<1>7. request.kind = "type3" /\ request.key = Key(s) /\ request.body = body /\ request.binding = ChannelBinding
  BY Zenon
<1>. HIDE DEF next, request
<1>8. Type3Exchange(t, conn[task[t].conn])'
  BY <1>5, <1>6, <1>7 DEF Type3Exchange, ChannelBinding, verifier, Plain, Body
<1>9. task'[t].pc \in Waits /\ CacheInStep(t)'
  BY <1>1, <1>2, <1>6 DEF Waits, CacheInStep
<1>. QED  BY <1>2, <1>5, <1>6, <1>8, <1>9, WaitsInStep

LEMMA PostSealedInStep ==
    ASSUME NEW t, Alone(t), PostSealed(t), UNCHANGED config
    PROVE  InStep(t)'
<1>. DEFINE s       == task[t].session
            next    == [task[t] EXCEPT !.pc = "sealedWait", !.session = AfterSeal(s, BodyLen)]
            request == [kind |-> "sealed", key |-> None, body |-> Seal(s, Body(t), BodyLen)]
<1>1. task[t].pc = "sealed" /\ Post(t, request, next) /\ UNCHANGED cache
  BY Zenon DEF PostSealed
<1>2. task[t].conn = None /\ IsTask(next) /\ next.host = task[t].host
  BY <1>1, AloneFacts, SMT DEF IsTask, Waits
<1>3. /\ config.encrypt /\ cache = None /\ IsRecord(s) /\ InTouch(task[t].host, s, "open")
      /\ task[t].mode = "blank" /\ task[t].result # "auth"
  BY <1>1 DEF Alone, InStep, CacheInStep, Stage, WithSession
<1>4. PICK c \in Conns :
        /\ task'[t] = [next EXCEPT !.conn = c]
        /\ conn'[c].state = "asked" /\ conn'[c].msg = request
        /\ Agrees(conn'[c], s, "open") /\ Pool(t)'
  <2>. PICK h : h = task[t].host
    OBVIOUS
  <2>. HIDE DEF request, next
  <2>. QED  BY <1>1, <1>2, <1>3, PostsInTouch
<1>5. SealedExchange(conn'[c], AfterSeal(s, BodyLen), Body(t)) /\ IsRecord(AfterSeal(s, BodyLen))
  BY <1>3, <1>4, SealsAndAsks
<1>6. /\ task'[t].pc = "sealedWait" /\ task'[t].conn = c /\ task'[t].mode = task[t].mode
      /\ task'[t].result = task[t].result /\ task'[t].call = task[t].call
      /\ task'[t].session = AfterSeal(s, BodyLen)
  BY <1>4, AloneFacts, SMT DEF IsTask
<1>. HIDE DEF next, request
<1>7. task'[t].pc \in Waits /\ CacheInStep(t)'
  BY <1>1, <1>3, <1>6 DEF Waits, CacheInStep
<1>. QED  BY <1>3, <1>4, <1>5, <1>6, <1>7, WaitsInStep DEF Body

-----------------------------------------------------------------------------
(* Answers.                                                                  *)

LEMMA AskedOn ==
    ASSUME NEW t, Alone(t), NEW c \in Conns, conn[c].state = "asked"
    PROVE  task[t].conn = c /\ task[t].pc \in Waits /\ IsConn(conn[c]) /\ conn[c].host = task[t].host
<1>1. task[t].conn = c
  BY DEF Alone, InStep, Pool
<1>2. c # None
  BY TransportAssumption
<1>. QED  BY <1>1, <1>2, AloneFacts

\* The server answers the caller's request.
LEMMA AnswerInStep ==
    ASSUME NEW t, Alone(t), NEW c \in Conns, conn[c].state = "asked",
           UNCHANGED <<task, cache, verifier, config>>,
           NEW x, conn' = [conn EXCEPT ![c] = x], x.state = "answered", x.host = conn[c].host,
           task[t].pc = "cachedWait" => SealedExchange(x, cache.session, Body(t)),
           task[t].pc = "type1Wait" => Type1Exchange(x),
           task[t].pc = "type3Wait" => Type3Exchange(t, x),
           task[t].pc = "sealedWait" => SealedExchange(x, task[t].session, Body(t))
    PROVE  InStep(t)'
<1>1. task[t].conn = c /\ task[t].pc \in Waits
  BY AskedOn
<1>2. conn'[c] = x /\ \A d \in Conns \ {c} : conn'[d] = conn[d]
  BY AloneFacts
<1>3. Pool(t)'
  <2>1. \A d \in Conns : conn'[d].state \in {"asked", "answered"} => d = c
    BY <1>1, <1>2 DEF Alone, InStep, Pool
  <2>2. \A d \in Conns : conn'[d].host = conn[d].host /\ (conn'[d].state # "closed" => conn[d].state # "closed")
    BY <1>2
  <2>3. \A d \in Conns : conn'[d].state \in {"closed", "idle", "asked", "answered"}
    BY <1>2 DEF Alone, InStep, Pool
  <2>. QED  BY <1>1, <2>1, <2>2, <2>3 DEF Alone, InStep, Pool
<1>4. task[t].pc \notin {"backoff", "idle", "lock", "sealed", "store", "type3"}
  BY <1>1 DEF Waits
<1>5. CacheInStep(t)'
  BY <1>4 DEF Alone, InStep, CacheInStep
<1>6. Body(t)' = Body(t) /\ (Type3Exchange(t, x) => Type3Exchange(t, conn[task[t].conn])')
  BY <1>1, <1>2 DEF Body, Plain, Type3Exchange, ChannelBinding, Refusable, BoundElsewhere, verifier
<1>7. Stage(t)'
  BY <1>1, <1>2, <1>4, <1>6 DEF Alone, InStep, Stage
<1>. QED  BY <1>3, <1>5, <1>7 DEF InStep

LEMMA RespondFields ==
    ASSUME NEW c \in Conns, IsConn(conn[c]), NEW status, NEW key, NEW body, NEW ctx,
           Respond(c, status, key, body, ctx)
    PROVE  \E x : /\ conn' = [conn EXCEPT ![c] = x] /\ x.state = "answered" /\ x.host = conn[c].host
                  /\ x.ctx = ctx /\ x.msg.status = status /\ x.msg.key = key /\ x.msg.body = body
<1>. DEFINE m == [status |-> status, key |-> key, body |-> body]
            x == [conn[c] EXCEPT !.state = "answered", !.ctx = ctx, !.msg = m]
<1>1. m.status = status /\ m.key = key /\ m.body = body
  BY Zenon
<1>2. conn' = [conn EXCEPT ![c] = x]
  BY Zenon DEF Respond
<1>. HIDE DEF m
<1>3. x.state = "answered" /\ x.host = conn[c].host /\ x.ctx = ctx /\ x.msg = m
  BY SMT DEF IsConn
<1>. QED  BY <1>1, <1>2, <1>3

LEMMA ServeType1InStep ==
    ASSUME NEW t, Alone(t), NEW c \in Conns, ServeType1(c), UNCHANGED <<verifier, config>>
    PROVE  InStep(t)'
<1>. DEFINE key == FreshKey(conn[c].host)
            s   == FromAuth(key)
            ctx == [kind |-> "challenged", session |-> Mirror(s)]
<1>1. /\ conn[c].state = "asked" /\ conn[c].msg.kind = "type1" /\ UNCHANGED <<task, cache>>
      /\ Respond(c, "401", key, NoBody, ctx)
  BY Zenon DEF ServeType1
<1>2. /\ task[t].conn = c /\ task[t].pc \in Waits /\ IsConn(conn[c]) /\ conn[c].host = task[t].host
      /\ task[t].pc # "idle"
  BY <1>1, AskedOn DEF Waits
<1>3. task[t].pc = "type1Wait"
  BY <1>1, <1>2 DEF Alone, InStep, Stage, Waits, SealedExchange, Type3Exchange
<1>4. key # NoChallenge
  <2>1. conn[c].host # None
    BY <1>2, AloneFacts
  <2>2. key[1] = conn[c].host /\ NoChallenge[1] = None
    BY Zenon DEF FreshKey, NoChallenge
  <2>. QED  BY <2>1, <2>2
<1>5. IsCtx(ctx) /\ ctx.kind = "challenged" /\ ctx.session = Mirror(s)
  BY SMT DEF IsCtx
<1>. HIDE DEF ctx, key
<1>6. PICK x : /\ conn' = [conn EXCEPT ![c] = x] /\ x.state = "answered" /\ x.host = conn[c].host
               /\ x.ctx = ctx /\ x.msg.status = "401" /\ x.msg.key = key
  BY <1>1, <1>2, RespondFields
<1>7. Type1Exchange(x)
  BY <1>4, <1>5, <1>6 DEF Type1Exchange, Agrees
<1>. QED  BY <1>1, <1>3, <1>6, <1>7, AnswerInStep

LEMMA ServeType3InStep ==
    ASSUME NEW t, Alone(t), NEW c \in Conns, ServeType3(c), UNCHANGED <<verifier, config>>
    PROVE  InStep(t)'
<1>. DEFINE ctx      == conn[c].ctx
            s        == task[t].session
            open     == [ctx EXCEPT !.kind = "open"]
            accepted == /\ GoodCredentials /\ ctx.kind = "challenged"
                        /\ ctx.session.openKey[1] = conn[c].msg.key
                        /\ conn[c].msg.binding \in {None, conn[c].host}
<1>1. conn[c].state = "asked" /\ conn[c].msg.kind = "type3" /\ UNCHANGED <<task, cache>>
  BY DEF ServeType3
<1>2. task[t].conn = c /\ task[t].pc \in Waits /\ IsConn(conn[c]) /\ conn[c].host = task[t].host
  BY <1>1, AskedOn
<1>3. task[t].pc = "type3Wait"
  BY <1>1, <1>2 DEF Alone, InStep, Stage, Waits, SealedExchange, Type1Exchange
<1>4. /\ conn[c].msg.key = Key(s) /\ conn[c].msg.binding = ChannelBinding
      /\ conn[c].msg.body = (IF config.encrypt THEN NoBody ELSE Plain(t))
      /\ IsCtx(ctx) /\ ctx.kind = "challenged" /\ ctx.session = Mirror(s)
  BY <1>1, <1>2, <1>3 DEF Alone, InStep, Stage, Type3Exchange, Agrees
<1>5. accepted \/ Refusable(t)
  <2>1. Mirror(s).openKey = s.sealKey
    BY Zenon DEF Mirror
  <2>2. ctx.session.openKey[1] = conn[c].msg.key
    BY <1>4, <2>1 DEF Key
  <2>. QED  BY <1>2, <1>4, <2>2 DEF Refusable, BoundElsewhere, ChannelBinding
<1>6. \/ Refusable(t) /\ Respond(c, "401", NoChallenge, NoBody, NoCtx)
      \/ \E status \in {"200", "500"} : \E body : Respond(c, status, NoChallenge, body, open)
  <2>1. CASE ~accepted
    BY <1>5, <2>1, Zenon DEF ServeType3
  <2>2. CASE accepted /\ conn[c].msg.body = NoBody
    BY <2>2, Zenon DEF ServeType3
  <2>3. CASE accepted /\ conn[c].msg.body # NoBody
    <3>1. ~config.encrypt
      BY <1>4, <2>3
    <3>. QED  BY <2>3, <3>1, Zenon DEF ServeType3
  <2>. QED  BY <2>1, <2>2, <2>3
<1>7. CASE Refusable(t) /\ Respond(c, "401", NoChallenge, NoBody, NoCtx)
  <2>1. PICK x : /\ conn' = [conn EXCEPT ![c] = x] /\ x.state = "answered" /\ x.host = conn[c].host
                 /\ x.msg.status = "401"
    BY <1>2, <1>7, RespondFields
  <2>2. Type3Exchange(t, x)
    BY <1>7, <2>1 DEF Type3Exchange
  <2>. QED  BY <1>1, <1>3, <2>1, <2>2, AnswerInStep
<1>8. ASSUME NEW status \in {"200", "500"}, NEW body, Respond(c, status, NoChallenge, body, open)
      PROVE  InStep(t)'
  <2>1. PICK x : /\ conn' = [conn EXCEPT ![c] = x] /\ x.state = "answered" /\ x.host = conn[c].host
                 /\ x.ctx = open /\ x.msg.status = status
    BY <1>2, <1>8, RespondFields
  <2>2. IsCtx(open) /\ open.kind = "open" /\ open.session = ctx.session
    BY <1>4, SMT DEF IsCtx
  <2>3. Type3Exchange(t, x)
    BY <1>4, <2>1, <2>2 DEF Type3Exchange, Agrees
  <2>. QED  BY <1>1, <1>3, <2>1, <2>3, AnswerInStep
<1>. QED  BY <1>6, <1>7, <1>8

\* The server opens what session s has sealed, and s the server's reply.
LEMMA ReplyOpens ==
    ASSUME NEW old, IsRecord(old), NEW body, NEW reply
    PROVE  LET m      == Seal(old, body, BodyLen)
               s      == AfterSeal(old, BodyLen)
               opened == AfterUnseal(Mirror(old), m)
               answer == Seal(opened, reply, BodyLen)
               next   == AfterUnseal(s, answer)
           IN /\ Opens(Mirror(old), m) /\ m.body = body
              /\ Opens(s, answer) /\ IsRecord(next) /\ AfterSeal(opened, BodyLen) = Mirror(next)
<1>. DEFINE m      == Seal(old, body, BodyLen)
            s      == AfterSeal(old, BodyLen)
            opened == AfterUnseal(Mirror(old), m)
            answer == Seal(opened, reply, BodyLen)
            next   == AfterUnseal(s, answer)
<1>1. Opens(Mirror(old), m) /\ opened = Mirror(s) /\ IsRecord(s)
  BY PeerOpens, SealKeepsRecord
<1>2. m.body = body
  BY Zenon DEF Seal
<1>. HIDE DEF s, opened, m
<1>3. IsRecord(opened) /\ Mirror(opened) = s
  BY <1>1, MirrorIsRecord, MirrorTwice
<1>4. Opens(s, answer) /\ next = Mirror(AfterSeal(opened, BodyLen))
  BY <1>3, PeerOpens
<1>5. IsRecord(AfterSeal(opened, BodyLen))
  BY <1>3, SealKeepsRecord
<1>6. IsRecord(next) /\ Mirror(next) = AfterSeal(opened, BodyLen)
  BY <1>4, <1>5, MirrorIsRecord, MirrorTwice
<1>. QED  BY <1>1, <1>2, <1>4, <1>6 DEF s, opened, m

LEMMA ServeSealedInStep ==
    ASSUME NEW t, Alone(t), NEW c \in Conns, ServeSealed(c), UNCHANGED <<verifier, config>>
    PROVE  InStep(t)'
<1>. DEFINE m == conn[c].msg.body
            s == IF task[t].pc = "cachedWait" THEN cache.session ELSE task[t].session
<1>1. conn[c].state = "asked" /\ conn[c].msg.kind = "sealed" /\ UNCHANGED <<task, cache>>
  BY DEF ServeSealed
<1>2. task[t].conn = c /\ task[t].pc \in Waits /\ IsConn(conn[c])
  BY <1>1, AskedOn
<1>3. task[t].pc \in {"cachedWait", "sealedWait"} /\ SealedExchange(conn[c], s, Body(t))
  BY <1>1, <1>2 DEF Alone, InStep, Stage, Waits, Type1Exchange, Type3Exchange
<1>4. PICK old : /\ IsRecord(old) /\ s = AfterSeal(old, BodyLen) /\ Agrees(conn[c], old, "open")
                 /\ m = Seal(old, Body(t), BodyLen)
  BY <1>1, <1>3 DEF SealedExchange
<1>. DEFINE opened == AfterUnseal(Mirror(old), m)
            answer == Seal(opened, m.body, BodyLen)
            next   == AfterUnseal(s, answer)
            ctx    == [kind |-> "open", session |-> AfterSeal(opened, BodyLen)]
<1>5. /\ Opens(Mirror(old), m) /\ Opens(s, answer)
      /\ IsRecord(next) /\ AfterSeal(opened, BodyLen) = Mirror(next)
  BY <1>4, ReplyOpens
<1>6. conn[c].ctx.kind = "open" /\ conn[c].ctx.session = Mirror(old)
  BY <1>4 DEF Agrees
<1>7. RunSealed(c, Mirror(old), m)
  BY <1>5, <1>6, Zenon DEF ServeSealed
<1>8. PICK status \in {"200", "500"} : Respond(c, status, NoChallenge, answer, ctx)
  BY <1>7, Zenon DEF RunSealed
<1>9. IsCtx(ctx) /\ ctx.kind = "open" /\ ctx.session = Mirror(next)
  BY <1>5, SMT DEF IsCtx
<1>10. answer # NoBody
  BY SMT DEF Seal, NoBody
<1>. HIDE DEF ctx, answer
<1>11. PICK x : /\ conn' = [conn EXCEPT ![c] = x] /\ x.state = "answered" /\ x.host = conn[c].host
                /\ x.ctx = ctx /\ x.msg.status = status /\ x.msg.body = answer
  BY <1>2, <1>8, RespondFields
<1>12. SealedExchange(x, s, Body(t))
  BY <1>5, <1>9, <1>10, <1>11 DEF SealedExchange, Agrees
<1>. QED  BY <1>1, <1>3, <1>11, <1>12, AnswerInStep

-----------------------------------------------------------------------------
\* What holds of a single caller: as long as nothing happened to it, its steps
\* find the pool, the server's contexts and the cache as they left them.
AloneInv(t) == budget \in Budgets /\ (Undisturbed => InStep(t))

\* What happens to the caller is counted.
LEMMA SpentIsCounted ==
    ASSUME budget \in Budgets, NEW what \in {"faults", "expiries", "cancels"},
           budget[what] > 0, budget' = [budget EXCEPT ![what] = @ - 1]
    PROVE  budget' \in Budgets /\ ~Undisturbed'
<1>. USE TransportAssumption DEF Budgets
<1>1. budget'[what] = budget[what] - 1
  BY SMT
<1>2. budget' \in Budgets
  BY SMT
<1>3. CASE what = "faults"
  <2>1. budget'.faults # MaxFaults
    BY <1>1, <1>3, SMT
  <2>. QED  BY <2>1 DEF Undisturbed
<1>4. CASE what = "expiries"
  <2>1. budget'.expiries # MaxExpiries
    BY <1>1, <1>4, SMT
  <2>. QED  BY <1>2, <2>1 DEF Undisturbed
<1>5. CASE what = "cancels"
  <2>1. budget'.cancels # MaxCancels
    BY <1>1, <1>5, SMT
  <2>. QED  BY <1>2, <2>1 DEF Undisturbed
<1>. QED  BY <1>2, <1>3, <1>4, <1>5

LEMMA InitAlone ==
    ASSUME NEW t, Tasks = {t}, Init
    PROVE  AloneInv(t)
<1>1. task[t] = Idle /\ cache = None /\ \A c \in Conns : conn[c] = Closed
  BY DEF Init
<1>2. Idle.pc = "idle" /\ Idle.result = "none" /\ Closed.state = "closed"
  BY Zenon DEF Idle, Closed
<1>3. InStep(t)
  BY <1>1, <1>2 DEF InStep, Pool, CacheInStep, Stage, Waits, WithSession
<1>4. budget \in Budgets
  BY TransportAssumption DEF Init, Budgets
<1>. QED  BY <1>3, <1>4 DEF AloneInv

LEMMA PostAlone ==
    ASSUME NEW t, AloneInv(t), Tasks = {t}, IInv, Locked, PostStep(t), UNCHANGED config
    PROVE  AloneInv(t)'
<1>1. UNCHANGED budget
  BY DEF PostStep, CacheHit, PostType1, PostType3, PostSealed
<1>2. Undisturbed => InStep(t)'
  BY CacheHitInStep, PostType1InStep, PostType3InStep, PostSealedInStep DEF PostStep, AloneInv, Alone
<1>. QED  BY <1>1, <1>2 DEF AloneInv, Undisturbed

LEMMA InnerAlone ==
    ASSUME NEW t, AloneInv(t), Tasks = {t}, IInv, Locked, InnerStep(t), UNCHANGED config
    PROVE  AloneInv(t)'
<1>. USE DEF AloneInv
<1>1. CASE Challenged(t) \/ BlankAccepted(t)
  <2>1. CASE UNCHANGED budget
    <3>1. conn' = [conn EXCEPT ![task[t].conn] = Released(task[t].conn)]
      BY <1>1, <2>1, ReadToEnd DEF Challenged, BlankAccepted
    <3>2. Undisturbed => InStep(t)'
      BY <1>1, <3>1, ChallengedInStep, AcceptedInStep DEF Alone, InnerStep
    <3>. QED  BY <2>1, <3>2 DEF Undisturbed
  <2>2. CASE budget.faults > 0 /\ budget' = [budget EXCEPT !.faults = @ - 1]
    BY <2>2, SpentIsCounted
  <2>. QED  BY <1>1, <2>1, <2>2 DEF Challenged, BlankAccepted, ReadIgnored
<1>2. CASE ~(Challenged(t) \/ BlankAccepted(t))
  <2>1. UNCHANGED budget
    BY <1>2 DEF InnerStep, Retry, CacheMiss, CachedRejected, CachedReplied, NotChallenged, Type3Rejected,
       PlainReplied, SealedType3Replied, SealedRejected, SealedReplied, Store
  <2>2. Undisturbed => InStep(t)'
    BY <1>2, CacheMissInStep, CachedReplyInStep, AlwaysChallenged, RejectedInStep, PlainReplyInStep,
       NeverRefused, SealedReplyInStep, StoreInStep DEF InnerStep, Alone
  <2>. QED  BY <2>1, <2>2 DEF Undisturbed
<1>. QED  BY <1>1, <1>2

LEMMA NextAlone ==
    ASSUME NEW t, AloneInv(t), Tasks = {t}, IInv, Locked, [Next]_vars
    PROVE  AloneInv(t)'
<1>1. CASE UNCHANGED vars
  BY <1>1 DEF vars, verifier, AloneInv, Undisturbed, InStep, Pool, CacheInStep, Stage, InTouch, Body, Plain,
     Refusable, BoundElsewhere, Type3Exchange, ChannelBinding
<1>2. CASE TaskStep(t)
  BY <1>2, PostAlone, InnerAlone DEF TaskStep
<1>3. ASSUME NEW c \in Conns, ServerStep(c) PROVE AloneInv(t)'
  <2>1. UNCHANGED <<budget, verifier, config>>
    BY <1>3 DEF ServerStep, ServeType1, ServeType3, ServeSealed
  <2>2. Undisturbed => InStep(t)'
    BY <1>3, <2>1, ServeType1InStep, ServeType3InStep, ServeSealedInStep DEF ServerStep, AloneInv, Alone
  <2>. QED  BY <2>1, <2>2 DEF AloneInv, Undisturbed
<1>4. CASE Environment
  <2>1. CASE \E h \in Hosts : Call(t, h)
    <3>1. PICK h \in Hosts : Call(t, h) /\ UNCHANGED <<budget, verifier, config>>
      BY <1>4, <2>1 DEF Environment, Call
    <3>2. Undisturbed => InStep(t)'
      BY <3>1, CallInStep DEF AloneInv, Alone
    <3>. QED  BY <3>1, <3>2 DEF AloneInv, Undisturbed
  <2>2. CASE HttpError(t) \/ \E c \in Conns : ServerFails(c)
    BY <2>2, SpentIsCounted DEF HttpError, ServerFails, AloneInv
  <2>3. CASE Cancel(t)
    BY <2>3, SpentIsCounted DEF Cancel, AloneInv
  <2>4. CASE \E c \in Conns : Expire(c) \/ IdleClosed(c)
    BY <2>4, SpentIsCounted DEF Expire, IdleClosed, AloneInv
  <2>. QED  BY <1>4, <2>1, <2>2, <2>3, <2>4 DEF Environment
<1>. QED  BY <1>1, <1>2, <1>3, <1>4 DEF Next

LEMMA AloneIsInStep ==
    ASSUME NEW t, Tasks = {t}, IInv, Locked, AloneInv(t)
    PROVE  InStepAlone
<1>. SUFFICES ASSUME Undisturbed PROVE CachedSessionInSync /\ (task[t].result = "auth" => Refusable(t))
  BY DEF InStepAlone, Refusable
<1>1. Alone(t)
  BY DEF Alone, AloneInv
<1>2. ASSUME NEW c \in Conns, cache # None, conn[c].state = "idle", conn[c].host = cache.host
      PROVE  conn[c].ctx.session = Mirror(cache.session)
  <2>1. CASE task[t].pc = "cachedWait"
    <3>. DEFINE d == task[t].conn
    <3>1. d \in Conns /\ conn[d].state \in {"asked", "answered"} /\ conn[d].host = cache.host
      BY <1>1, <2>1, AloneFacts DEF Waits
    <3>2. c = d
      BY <1>1, <1>2, <3>1 DEF Alone, InStep, Pool
    <3>. QED  BY <1>2, <3>1, <3>2
  <2>2. CASE task[t].pc # "cachedWait"
    <3>1. InTouch(cache.host, cache.session, "open")
      BY <1>1, <1>2, <2>2 DEF Alone, InStep, CacheInStep
    <3>2. PICK d \in Conns : /\ conn[d].state = "idle" /\ conn[d].host = cache.host
                             /\ conn[d].ctx.session = Mirror(cache.session)
      BY <3>1 DEF InTouch, Agrees
    <3>3. c = d
      BY <1>1, <1>2, <3>2 DEF Alone, InStep, Pool
    <3>. QED  BY <3>2, <3>3
  <2>. QED  BY <2>1, <2>2
<1>3. CachedSessionInSync
  BY <1>2 DEF CachedSessionInSync
<1>4. task[t].result = "auth" => Refusable(t)
  BY <1>1 DEF Alone, InStep, Stage
<1>. QED  BY <1>3, <1>4

\* One caller that nothing happens to stays in step with every server, over any
\* sequence of calls to any hosts: its cached session fits the context of the
\* pooled connection on every counter, and good credentials are refused only for
\* a binding to another host's certificate (send_ntlm_sealed, do_handshake).
THEOREM OneCallerStaysInStep ==
    ASSUME NEW t, Tasks = {t}
    PROVE  Spec => []InStepAlone
<1>1. Init => AloneInv(t)
  BY InitAlone
<1>2. IInv /\ Locked /\ AloneInv(t) /\ [Next]_vars => AloneInv(t)'
  BY NextAlone
<1>3. IInv /\ Locked /\ AloneInv(t) => InStepAlone
  BY AloneIsInStep
<1>. QED  BY <1>1, <1>2, <1>3, InvariantHolds, PTL DEF Spec

-----------------------------------------------------------------------------
(* Type correctness.                                                         *)

Queued == {"lock", "cachedWait", "store"}

\* A session with all its fields, each of its type.
Proper(s) == IsASession(s) /\ IsSession(s)

ProperTask(r) ==
    /\ r.pc \in {"idle", "backoff", "lock", "cachedWait", "type1", "type1Wait",
                 "type3", "type3Wait", "sealed", "sealedWait", "store"}
    /\ r.call \in 0 .. MaxCalls /\ r.attempt \in 0 .. MaxRetries /\ r.result \in Results
    /\ r.session = None \/ Proper(r.session)
    /\ r.pc \in WithSession => Proper(r.session)
    /\ r.conn # None <=> r.pc \in Waits
    /\ r.pc # "idle" => r.host \in Hosts
    /\ r.pc \in {"lock", "cachedWait"} => config.encrypt

\* Whatever is sealed has a length, by which the keystream moves.
ProperRequest(m) ==
    /\ m.kind = "sealed" => m.body.len \in Nat
    /\ m.kind = "type3" /\ config.encrypt => m.body = NoBody \/ m.body.len \in Nat

ProperResponse(m) ==
    /\ m.status \in {"200", "401", "500", "503"}
    /\ m.key # NoChallenge => m.key \in Keys
    /\ config.encrypt => m.body = NoBody \/ m.body.len \in Nat

ProperCtx(ctx) ==
    /\ IsCtx(ctx) /\ ctx.kind \in {"none", "challenged", "open"}
    /\ ctx.kind # "none" => Proper(ctx.session)

ProperConn(x) ==
    /\ x.state \in {"closed", "idle", "asked", "answered"}
    /\ ProperCtx(x.ctx)
    /\ x.state # "closed" => x.host \in Hosts
    /\ x.state = "asked" => ProperRequest(x.msg)
    /\ x.state = "answered" => ProperResponse(x.msg)

ProperTasks == \A t \in Tasks : ProperTask(task[t])
ProperConns == \A c \in Conns : ProperConn(conn[c])

\* An answer is somebody's, too.
AnswersAwaited == \A c \in Conns : conn[c].state = "answered" => \E t \in Tasks : task[t].conn = c

\* A task stands in the queue once, and only while it asks for the mutex.
In(t, q)  == \E i \in DOMAIN q : q[i] = t
NoTwice(q) == \A i, j \in DOMAIN q : q[i] = q[j] => i = j
InQueue   == NoTwice(queue) /\ \A t \in Tasks : In(t, queue) <=> task[t].pc \in Queued

\* A task that waits with the cached session finds it there.
CacheUsed == cache # None \/ \E t \in Tasks : task[t].pc = "cachedWait"

ProperRest ==
    /\ CacheUsed => Proper(cache.session) /\ cache.host \in Hosts
    /\ config \in Configs
    /\ captured \in known \cup {None} /\ known \subseteq Hosts

Types == ProperTasks /\ ProperConns /\ AnswersAwaited /\ InQueue /\ ProperRest
Sound == IInv /\ Locked /\ Once /\ Types

-----------------------------------------------------------------------------
LEMMA SealedProper ==
    ASSUME NEW s, Proper(s), NEW len \in Nat PROVE Proper(AfterSeal(s, len))
<1>1. AfterSeal(s, len) = [s EXCEPT !.clientPos = s.clientPos + len + ChecksumLen,
                                    !.clientSeq = (s.clientSeq + 1) % SeqModulus]
  BY DEF AfterSeal
<1>. DEFINE pos == s.clientPos + len + ChecksumLen
            seq == (s.clientSeq + 1) % SeqModulus
<1>2. pos \in Nat /\ seq \in 0 .. (SeqModulus - 1)
  BY SeqModulusAssumption, SMT DEF Proper, IsSession, ChecksumLen
<1>. HIDE DEF pos, seq
<1>. QED  BY <1>1, <1>2, SMT DEF Proper, IsASession, IsSession, pos, seq

LEMMA UnsealedProper ==
    ASSUME NEW s, Proper(s), NEW m, m.len \in Nat PROVE Proper(AfterUnseal(s, m))
<1>. DEFINE pos == s.serverPos + m.len + ChecksumLen
            seq == IF ChecksumOk(s, m) THEN (s.serverSeq + 1) % SeqModulus ELSE s.serverSeq
<1>1. AfterUnseal(s, m) = IF ~HeaderOk(s, m) THEN s ELSE [s EXCEPT !.serverPos = pos, !.serverSeq = seq]
  BY Zenon DEF AfterUnseal
<1>2. pos \in Nat /\ seq \in 0 .. (SeqModulus - 1)
  BY SeqModulusAssumption, SMT DEF Proper, IsSession, ChecksumLen
<1>. HIDE DEF pos, seq
<1>3. Proper([s EXCEPT !.serverPos = pos, !.serverSeq = seq])
  BY <1>2, SMT DEF Proper, IsASession, IsSession
<1>. QED  BY <1>1, <1>3

LEMMA NewProper ==
    ASSUME NEW key \in Keys PROVE Proper(FromAuth(key)) /\ Proper(Mirror(FromAuth(key)))
<1>1. 0 \in 0 .. (SeqModulus - 1)
  BY SeqModulusAssumption, SMT
<1>. HIDE DEF Keys
<1>. QED  BY <1>1, SMT DEF Proper, IsASession, IsSession, FromAuth, Mirror

LEMMA KeyProper == ASSUME NEW s, Proper(s) PROVE Key(s) \in Keys
<1>. HIDE DEF Keys
<1>. QED  BY SMT DEF Proper, IsSession, Key

\* There is a key that nobody holds.
LEMMA KeysSuffice ==
    ASSUME NEW h \in Hosts PROVE FreshKey(h) \in Keys
<1>. DEFINE K == 1 .. MaxKeys
            A == {conn[c].ctx.session : c \in Conns}
            B == {task[t].session : t \in Tasks}
            x == IF cache = None THEN None ELSE cache.session
            used == {Key(s) : s \in Sessions \ {None}}
            a == [c \in Conns |-> conn[c].ctx.session]
            b == [t \in Tasks |-> task[t].session]
<1>1. IsFiniteSet(A) /\ Cardinality(A) <= Cardinality(Conns)
  <2>1. a \in Surjection(Conns, A)
    BY Zenon DEF Surjection
  <2>. QED  BY <2>1, FS_Surjection, KeysAssumption
<1>2. IsFiniteSet(B) /\ Cardinality(B) <= Cardinality(Tasks)
  <2>1. b \in Surjection(Tasks, B)
    BY Zenon DEF Surjection
  <2>. QED  BY <2>1, FS_Surjection, KeysAssumption
<1>3. Sessions = (A \cup B) \cup {x}
  BY Zenon DEF Sessions
<1>. HIDE DEF A, B, x
<1>4. IsFiniteSet(A \cup B) /\ Cardinality(A \cup B) <= Cardinality(A) + Cardinality(B)
  <2>1. /\ IsFiniteSet(A \cup B)
        /\ Cardinality(A \cup B) = Cardinality(A) + Cardinality(B) - Cardinality(A \cap B)
    BY <1>1, <1>2, FS_Union
  <2>2. IsFiniteSet(A \cap B)
    <3>1. A \cap B \in SUBSET A
      OBVIOUS
    <3>. QED  BY <1>1, <3>1, FS_Subset
  <2>. QED  BY <1>1, <1>2, <2>1, <2>2, FS_CardinalityType, SMT
<1>5. IsFiniteSet(Sessions) /\ Cardinality(Sessions) < MaxKeys
  <2>1. IsFiniteSet(Sessions) /\ Cardinality(Sessions) <= Cardinality(A \cup B) + 1
    <3>1. /\ IsFiniteSet((A \cup B) \cup {x})
          /\ Cardinality((A \cup B) \cup {x}) =
                IF x \in A \cup B THEN Cardinality(A \cup B) ELSE Cardinality(A \cup B) + 1
      BY <1>4, FS_AddElement
    <3>2. Cardinality(A \cup B) \in Nat
      BY <1>4, FS_CardinalityType
    <3>. QED  BY <1>3, <3>1, <3>2, SMT
  <2>2. /\ Cardinality(A) \in Nat /\ Cardinality(B) \in Nat /\ Cardinality(A \cup B) \in Nat
        /\ Cardinality(Tasks) \in Nat /\ Cardinality(Conns) \in Nat /\ Cardinality(Sessions) \in Nat
    BY <1>1, <1>2, <1>4, <2>1, FS_CardinalityType, KeysAssumption
  <2>. QED  BY <1>1, <1>2, <1>4, <2>1, <2>2, KeysAssumption, TransportAssumption, SMT
<1>6. IsFiniteSet(K) /\ Cardinality(K) = MaxKeys
  <2>1. MaxKeys \in Nat
    BY TransportAssumption
  <2>2. IsFiniteSet(1 .. MaxKeys) /\ Cardinality(1 .. MaxKeys) = IF 1 > MaxKeys THEN 0 ELSE MaxKeys - 1 + 1
    BY <2>1, FS_Interval, SMT
  <2>. QED  BY <2>1, <2>2, SMT
<1>7. \E k \in K : <<h, k>> \notin used
  <2>. SUFFICES ASSUME \A k \in K : <<h, k>> \in used PROVE FALSE
    OBVIOUS
  <2>. DEFINE f == [k \in K |-> CHOOSE s \in Sessions : Key(s) = <<h, k>>]
  <2>. HIDE DEF K
  <2>1. \A k \in K : \E s \in Sessions : Key(s) = <<h, k>>
    BY Zenon
  <2>2. \A k \in K : f[k] \in Sessions /\ Key(f[k]) = <<h, k>>
    BY <2>1, Zenon
  <2>3. f \in [K -> Sessions]
    BY <2>2, Zenon
  <2>. HIDE DEF f
  <2>4. PICK j \in K, k \in K : j # k /\ f[j] = f[k]
    BY <1>5, <1>6, <2>3, FS_PigeonHole
  <2>5. <<h, j>> = <<h, k>>
    BY <2>2, <2>4
  <2>. QED  BY <2>4, <2>5
<1>. DEFINE n == CHOOSE k \in K : <<h, k>> \notin used
<1>8. FreshKey(h) = <<h, n>>
  BY Zenon DEF FreshKey
<1>9. n \in K
  BY <1>7, Zenon
<1>. HIDE DEF n
<1>. QED  BY <1>8, <1>9 DEF Keys

-----------------------------------------------------------------------------
(* The queue.                                                                *)

LEMMA RemovesOne ==
    ASSUME queue \in Seq(Tasks), NoTwice(queue), NEW t
    PROVE  /\ NoTwice(Remove(t)) /\ ~In(t, Remove(t))
           /\ \A u \in Tasks \ {t} : In(u, Remove(t)) <=> In(u, queue)
<1>1. CASE ~ \E i \in 1 .. Len(queue) : queue[i] = t
  <2>1. DOMAIN queue = 1 .. Len(queue)
    BY SMT
  <2>. QED  BY <1>1, <2>1 DEF Remove, In
<1>2. CASE \E i \in 1 .. Len(queue) : queue[i] = t
  <2>1. PICK i \in 1 .. Len(queue) :
            queue[i] = t /\ Remove(t) = SubSeq(queue, 1, i - 1) \o SubSeq(queue, i + 1, Len(queue))
    BY <1>2, Zenon DEF Remove
  <2>. DEFINE before == SubSeq(queue, 1, i - 1)
              after  == SubSeq(queue, i + 1, Len(queue))
              n == Len(queue)
              q == before \o after
  <2>2. /\ before \in Seq(Tasks) /\ after \in Seq(Tasks) /\ Len(before) = i - 1 /\ Len(after) = n - i
        /\ \A j \in 1 .. (i - 1) : before[j] = queue[j]
        /\ \A j \in 1 .. (n - i) : after[j] = queue[j + i]
        /\ n \in Nat /\ i \in 1 .. n /\ DOMAIN queue = 1 .. n
    BY SMT
  <2>. HIDE DEF before, after, n
  <2>3. /\ DOMAIN q = 1 .. (n - 1)
        /\ \A j \in 1 .. (n - 1) : q[j] = IF j < i THEN queue[j] ELSE queue[j + 1]
    <3>1. DOMAIN q = 1 .. (n - 1)
      BY <2>1, <2>2, SMT DEF n
    <3>2. ASSUME NEW j \in 1 .. (n - 1) PROVE q[j] = IF j < i THEN queue[j] ELSE queue[j + 1]
      BY <2>1, <2>2, SMT DEF n
    <3>. QED  BY <3>1, <3>2
  <2>4. q = Remove(t)
    BY <2>1 DEF before, after, n
  <2>. HIDE DEF q
  <2>. DEFINE at(j) == IF j < i THEN j ELSE j + 1
  <2>5. \A j \in 1 .. (n - 1) : at(j) \in 1 .. n /\ at(j) # i /\ q[j] = queue[at(j)]
    BY <2>1, <2>2, <2>3, SMT
  <2>6. \A j, k \in 1 .. (n - 1) : at(j) = at(k) => j = k
    BY <2>2, SMT
  <2>7. \A k \in 1 .. n : k # i => \E j \in 1 .. (n - 1) : at(j) = k
    <3>. SUFFICES ASSUME NEW k \in 1 .. n, k # i PROVE \E j \in 1 .. (n - 1) : at(j) = k
      OBVIOUS
    <3>1. CASE k < i
      <4>1. k \in 1 .. (n - 1) /\ at(k) = k
        BY <2>2, <3>1, SMT
      <4>. QED  BY <4>1
    <3>2. CASE k > i
      <4>1. k - 1 \in 1 .. (n - 1) /\ at(k - 1) = k
        BY <2>2, <3>2, SMT
      <4>. QED  BY <4>1
    <3>. QED  BY <2>2, <3>1, <3>2, SMT
  <2>. HIDE DEF at
  <2>8. NoTwice(q)
    BY <2>2, <2>3, <2>5, <2>6 DEF NoTwice
  <2>9. \A k \in 1 .. n : queue[k] = t => k = i
    BY <2>1, <2>2 DEF NoTwice
  <2>10. ~In(t, q)
    BY <2>3, <2>5, <2>9 DEF In
  <2>11. \A u \in Tasks \ {t} : In(u, q) <=> In(u, queue)
    <3>. SUFFICES ASSUME NEW u \in Tasks, u # t PROVE In(u, q) <=> In(u, queue)
      OBVIOUS
    <3>1. ASSUME In(u, q) PROVE In(u, queue)
      BY <2>2, <2>3, <2>5, <3>1, Zenon DEF In
    <3>2. ASSUME In(u, queue) PROVE In(u, q)
      <4>1. PICK k \in 1 .. n : queue[k] = u
        BY <2>2, <3>2 DEF In
      <4>2. k # i
        BY <2>1, <4>1
      <4>. QED  BY <2>3, <2>5, <2>7, <4>1, <4>2, Zenon DEF In
    <3>. QED  BY <3>1, <3>2
  <2>. QED  BY <2>4, <2>8, <2>10, <2>11
<1>. QED  BY <1>1, <1>2

LEMMA AddsOne ==
    ASSUME queue \in Seq(Tasks), NoTwice(queue), NEW t \in Tasks, ~In(t, queue)
    PROVE  /\ NoTwice(Append(queue, t)) /\ In(t, Append(queue, t))
           /\ \A u \in Tasks \ {t} : In(u, Append(queue, t)) <=> In(u, queue)
<1>. DEFINE n == Len(queue)
            q == Append(queue, t)
<1>1. /\ n \in Nat /\ DOMAIN queue = 1 .. n /\ DOMAIN q = 1 .. (n + 1)
      /\ q[n + 1] = t /\ \A j \in 1 .. n : q[j] = queue[j]
  BY SMT
<1>. HIDE DEF n, q
<1>2. \A j \in 1 .. n : queue[j] # t
  BY <1>1 DEF In
<1>3. NoTwice(q)
  BY <1>1, <1>2, SMT DEF NoTwice
<1>4. In(t, q)
  BY <1>1, SMT DEF In
<1>5. \A u \in Tasks \ {t} : In(u, q) <=> In(u, queue)
  BY <1>1, SMT DEF In
<1>. QED  BY <1>3, <1>4, <1>5 DEF q

\* A step of task t enters the queue, leaves it, or keeps t where it is.
Moves(t, pc) ==
    \/ queue' = queue /\ (task[t].pc \in Queued <=> pc \in Queued)
    \/ queue' = Append(queue, t) /\ task[t].pc \notin Queued /\ pc \in Queued
    \/ queue' = Remove(t) /\ pc \notin Queued

LEMMA MoveInQueue ==
    ASSUME IInv, Locked, InQueue, NEW t \in Tasks, NEW r, task' = [task EXCEPT ![t] = r], Moves(t, r.pc)
    PROVE  InQueue'
<1>1. queue \in Seq(Tasks) /\ NoTwice(queue) /\ \A u \in Tasks : In(u, queue) <=> task[u].pc \in Queued
  BY DEF Locked, InQueue
<1>2. task'[t] = r /\ \A u \in Tasks \ {t} : task'[u] = task[u]
  BY DEF IInv, Shapes
<1>3. CASE queue' = queue /\ (task[t].pc \in Queued <=> r.pc \in Queued)
  BY <1>1, <1>2, <1>3 DEF InQueue
<1>4. CASE queue' = Append(queue, t) /\ task[t].pc \notin Queued /\ r.pc \in Queued
  BY <1>1, <1>2, <1>4, AddsOne DEF InQueue
<1>5. CASE queue' = Remove(t) /\ r.pc \notin Queued
  BY <1>1, <1>2, <1>5, RemovesOne DEF InQueue
<1>. QED  BY <1>3, <1>4, <1>5 DEF Moves

-----------------------------------------------------------------------------
(* The record of a task after each of its steps.                             *)

LEMMA EndedProper ==
    ASSUME NEW t, IsTask(task[t]), ProperTask(task[t]), task[t].pc # "idle", NEW result \in Results, NEW reply
    PROVE  ProperTask(Ended(t, result, reply)) /\ Ended(t, result, reply).pc \notin Queued
<1>. HIDE DEF Proper, Results
<1>1. task[t].attempt < MaxRetries => task[t].attempt + 1 \in 0 .. MaxRetries
  BY TransportAssumption, SMT DEF ProperTask
<1>. QED  BY <1>1, SMT DEF Ended, ProperTask, IsTask, WithSession, Waits, Queued

LEMMA WaitingProper ==
    ASSUME NEW t, IsTask(task[t]), ProperTask(task[t]), task[t].pc # "idle",
           NEW pc \in {"type1", "sealed"}, pc = "type1" \/ Proper(task[t].session)
    PROVE  ProperTask(Waiting(t, pc)) /\ Waiting(t, pc).pc = pc
<1>. HIDE DEF Proper, Results
<1>. QED  BY SMT DEF Waiting, ProperTask, IsTask, WithSession, Waits

LEMMA RestartProper ==
    ASSUME NEW t, IsTask(task[t]), ProperTask(task[t]), task[t].pc # "idle"
    PROVE  LET r == [Waiting(t, "type1") EXCEPT !.mode = "sealed", !.session = None]
           IN ProperTask(r) /\ r.pc = "type1"
<1>. HIDE DEF Proper, Results
<1>. QED  BY SMT DEF Waiting, ProperTask, IsTask, WithSession, Waits

LEMMA SessionSetProper ==
    ASSUME NEW t, IsTask(task[t]), ProperTask(task[t]), task[t].pc # "idle", NEW s, Proper(s)
    PROVE  /\ LET r == [Waiting(t, "type3") EXCEPT !.session = s]
              IN ProperTask(r) /\ r.pc = "type3"
           /\ \A reply : LET r == [Waiting(t, "store") EXCEPT !.session = s, !.reply = reply]
                         IN ProperTask(r) /\ r.pc = "store"
<1>. HIDE DEF Proper, Results
<1>. QED  BY SMT DEF Waiting, ProperTask, IsTask, WithSession, Waits

\* What is known of an answer when t reads it.
LEMMA AnswerProper ==
    ASSUME Sound, NEW t \in Tasks, NEW pc, Answered(t, pc)
    PROVE  /\ ProperResponse(Response(t)) /\ ProperTask(task[t]) /\ IsTask(task[t]) /\ task[t].pc = pc
  BY AnsweredFacts DEF Sound, Types, ProperTasks, ProperConns, ProperConn, Response, IInv, Shapes, TaskSound

LEMMA UnsealedIsResult ==
    ASSUME NEW s, NEW resp PROVE Unsealed(s, resp) \in Results
  BY Zenon DEF Unsealed, Results

LEMMA ReadProper ==
    ASSUME NEW s, Proper(s), NEW resp, resp.body = NoBody \/ resp.body.len \in Nat
    PROVE  Proper(ReadBy(s, resp))
  BY UnsealedProper DEF ReadBy

\* The task has a record of the right type and its place in the queue.
Steps(t) ==
    \E r : /\ task' = [task EXCEPT ![t] = r] /\ ProperTask(r) /\ Moves(t, r.pc)
          /\ r.pc # "cachedWait"

LEMMA EnterProper ==
    ASSUME NEW t, NEW fields, IsTask(fields), ProperTask([fields EXCEPT !.pc = "backoff"]),
           fields.host \in Hosts, fields.conn = None, task[t].pc \in {"idle", "backoff"}, Enter(t, fields)
    PROVE  Steps(t)
<1>. HIDE DEF Proper, Results
<1>1. CASE config.encrypt
  <2>. DEFINE r == [fields EXCEPT !.pc = "lock", !.mode = "blank"]
  <2>1. task' = [task EXCEPT ![t] = r] /\ queue' = Append(queue, t)
    BY <1>1 DEF Enter
  <2>2. ProperTask(r) /\ r.pc = "lock"
    BY <1>1, SMT DEF ProperTask, IsTask, WithSession, Waits
  <2>. HIDE DEF r
  <2>3. Moves(t, r.pc)
    BY <2>1, <2>2 DEF Moves, Queued
  <2>. QED  BY <2>1, <2>2, <2>3 DEF Steps
<1>2. CASE ~config.encrypt
  <2>. DEFINE r == [fields EXCEPT !.pc = "type1", !.mode = "plain"]
  <2>1. task' = [task EXCEPT ![t] = r] /\ queue' = queue
    BY <1>2 DEF Enter
  <2>2. ProperTask(r) /\ r.pc = "type1"
    BY SMT DEF ProperTask, IsTask, WithSession, Waits
  <2>. HIDE DEF r
  <2>3. Moves(t, r.pc)
    BY <2>1, <2>2 DEF Moves, Queued
  <2>. QED  BY <2>1, <2>2, <2>3 DEF Steps
<1>. QED  BY <1>1, <1>2

LEMMA EndSteps ==
    ASSUME NEW t, IsTask(task[t]), ProperTask(task[t]), task[t].pc # "idle", NEW result \in Results, NEW reply,
           task' = [task EXCEPT ![t] = Ended(t, result, reply)],
           queue' = Remove(t) \/ (queue' = queue /\ task[t].pc \notin Queued)
    PROVE  Steps(t)
<1>. DEFINE r == Ended(t, result, reply)
<1>1. ProperTask(r) /\ r.pc \notin Queued
  BY EndedProper
<1>. HIDE DEF r
<1>2. r.pc # "cachedWait"
  BY <1>1 DEF Queued
<1>3. Moves(t, r.pc)
  BY <1>1 DEF Moves
<1>4. task' = [task EXCEPT ![t] = r]
  BY DEF r
<1>. QED  BY <1>1, <1>2, <1>3, <1>4 DEF Steps

LEMMA BeginSteps ==
    ASSUME Sound, NEW t \in Tasks, Retry(t) \/ \E h \in Hosts : Call(t, h)
    PROVE  Steps(t)
<1>1. IsTask(task[t]) /\ ProperTask(task[t])
  BY DEF Sound, IInv, Shapes, TaskSound, Types, ProperTasks
<1>2. CASE Retry(t)
  <2>1. task[t].pc = "backoff" /\ Enter(t, task[t])
    BY <1>2 DEF Retry
  <2>2. ProperTask([task[t] EXCEPT !.pc = "backoff"])
    <3>. HIDE DEF Proper, Results
    <3>. QED  BY <1>1, <2>1, SMT DEF ProperTask, IsTask, WithSession, Waits
  <2>3. task[t].host \in Hosts /\ task[t].conn = None
    BY <1>1, <2>1 DEF ProperTask, Waits
  <2>. QED  BY <1>1, <2>1, <2>2, <2>3, EnterProper
<1>3. CASE \E h \in Hosts : Call(t, h)
  <2>1. PICK h \in Hosts : Call(t, h)
    BY <1>3
  <2>. DEFINE f == [Idle EXCEPT !.host = h, !.call = task[t].call + 1]
  <2>0. task[t].call \in 0 .. MaxCalls /\ task[t].call < MaxCalls
    BY <1>1, <2>1 DEF Call, ProperTask
  <2>2. task[t].pc = "idle" /\ task[t].call + 1 \in 0 .. MaxCalls /\ Enter(t, f)
    <3>1. task[t].call + 1 \in 0 .. MaxCalls
      BY <2>0, TransportAssumption, SMT
    <3>. QED  BY <2>1, <3>1, Zenon DEF Call
  <2>3. IsTask(f) /\ f.host = h /\ f.conn = None
    BY SMT DEF IsTask, Idle
  <2>4. ProperTask([f EXCEPT !.pc = "backoff"])
    <3>. HIDE DEF Proper
    <3>. QED  BY <2>2, TransportAssumption, SMT DEF ProperTask, Idle, WithSession, Waits, Results
  <2>. HIDE DEF f
  <2>. QED  BY <2>2, <2>3, <2>4, EnterProper
<1>. QED  BY <1>2, <1>3

LEMMA InnerSteps ==
    ASSUME Sound, NEW t \in Tasks, InnerStep(t) \/ HttpError(t) \/ Cancel(t)
    PROVE  Steps(t)
<1>1. IsTask(task[t]) /\ ProperTask(task[t])
  BY DEF Sound, IInv, Shapes, TaskSound, Types, ProperTasks
<1>2. {"none", "ok", "auth", "http", "ntlm", "http_status", "soap"} \subseteq Results
  BY DEF Results
<1>3. CASE Retry(t)
  BY <1>3, BeginSteps
<1>4. CASE CachedReplied(t)
  <2>1. task[t].pc = "cachedWait"
    BY <1>4, AnswerProper DEF CachedReplied
  <2>. QED  BY <1>1, <1>4, <2>1, UnsealedIsResult, EndSteps DEF CachedReplied
<1>5. CASE NotChallenged(t)
  <2>1. task[t].pc = "type1Wait" /\ queue' = queue
    BY <1>5, AnswerProper DEF NotChallenged
  <2>2. \E result \in Results : task' = [task EXCEPT ![t] = Ended(t, result, None)]
    BY <1>2, <1>5, Zenon DEF NotChallenged
  <2>. QED  BY <1>1, <2>1, <2>2, EndSteps DEF Queued
<1>6. CASE Type3Rejected(t)
  <2>1. task[t].pc = "type3Wait" /\ queue' = queue
    BY <1>6, AnswerProper DEF Type3Rejected
  <2>. QED  BY <1>1, <1>2, <1>6, <2>1, EndSteps DEF Queued, Type3Rejected
<1>7. CASE PlainReplied(t)
  <2>1. task[t].pc = "type3Wait" /\ queue' = queue /\ ProperResponse(Response(t)) /\ Response(t).status # "401"
    BY <1>7, AnswerProper DEF PlainReplied
  <2>2. PlainResult(Response(t).status) \in Results
    <3>1. Response(t).status \in {"200", "500", "503"}
      BY <2>1 DEF ProperResponse
    <3>. QED  BY <3>1 DEF PlainResult, Results
  <2>. QED  BY <1>1, <1>7, <2>1, <2>2, EndSteps DEF Queued, PlainReplied
<1>8. CASE Store(t)
  BY <1>1, <1>2, <1>8, EndSteps DEF Store
<1>9. CASE HttpError(t)
  <2>1. task[t].pc # "idle"
    BY <1>1, <1>9 DEF HttpError, ProperTask, Waits
  <2>. QED  BY <1>1, <1>2, <1>9, <2>1, EndSteps DEF HttpError
<1>10. CASE Cancel(t)
  <2>. DEFINE r == [Idle EXCEPT !.call = task[t].call, !.attempt = task[t].attempt, !.result = "cancelled"]
  <2>1. task' = [task EXCEPT ![t] = r] /\ queue' = Remove(t)
    BY <1>10 DEF Cancel
  <2>2. task[t].call \in 0 .. MaxCalls /\ task[t].attempt \in 0 .. MaxRetries
    BY <1>1 DEF ProperTask
  <2>3. ProperTask(r) /\ r.pc = "idle"
    <3>. HIDE DEF Proper
    <3>. QED  BY <2>2, SMT DEF ProperTask, Idle, WithSession, Waits, Results
  <2>. HIDE DEF r
  <2>. QED  BY <2>1, <2>3 DEF Steps, Moves, Queued
<1>11. CASE CacheMiss(t)
  <2>. DEFINE r == [task[t] EXCEPT !.pc = "type1"]
  <2>1. task' = [task EXCEPT ![t] = r] /\ queue' = Remove(t) /\ task[t].pc = "lock"
    BY <1>11 DEF CacheMiss
  <2>2. ProperTask(r) /\ r.pc = "type1"
    <3>. HIDE DEF Proper, Results
    <3>. QED  BY <1>1, <2>1, SMT DEF ProperTask, IsTask, WithSession, Waits
  <2>. HIDE DEF r
  <2>. QED  BY <2>1, <2>2 DEF Steps, Moves, Queued
<1>12. CASE CachedRejected(t)
  <2>1. task[t].pc = "cachedWait" /\ queue' = Remove(t) /\ task' = [task EXCEPT ![t] = Waiting(t, "type1")]
    BY <1>12, AnswerProper DEF CachedRejected
  <2>. QED  BY <1>1, <2>1, WaitingProper DEF Steps, Moves, Queued
<1>13. CASE Challenged(t)
  <2>. DEFINE s == FromAuth(Response(t).key)
              r == [Waiting(t, "type3") EXCEPT !.session = s]
  <2>1. /\ task[t].pc = "type1Wait" /\ queue' = queue
        /\ ProperResponse(Response(t)) /\ Response(t).key # NoChallenge
    BY <1>13, AnswerProper DEF Challenged
  <2>2. task' = [task EXCEPT ![t] = r]
    BY <1>13, Zenon DEF Challenged
  <2>3. Proper(s)
    BY <2>1, NewProper DEF ProperResponse
  <2>. HIDE DEF s
  <2>4. ProperTask(r) /\ r.pc = "type3"
    BY <1>1, <2>1, <2>3, SessionSetProper
  <2>. HIDE DEF r
  <2>. QED  BY <2>1, <2>2, <2>4 DEF Steps, Moves, Queued
<1>14. CASE BlankAccepted(t)
  <2>1. task[t].pc = "type3Wait" /\ queue' = queue /\ task' = [task EXCEPT ![t] = Waiting(t, "sealed")]
    BY <1>14, AnswerProper DEF BlankAccepted
  <2>2. Proper(task[t].session)
    BY <1>1, <2>1 DEF ProperTask, WithSession
  <2>. QED  BY <1>1, <2>1, <2>2, WaitingProper DEF Steps, Moves, Queued
<1>15. CASE SealedRejected(t)
  <2>. DEFINE r == [Waiting(t, "type1") EXCEPT !.mode = "sealed", !.session = None]
  <2>1. task[t].pc = "sealedWait" /\ queue' = queue /\ task' = [task EXCEPT ![t] = r]
    BY <1>15, AnswerProper DEF SealedRejected
  <2>2. ProperTask(r) /\ r.pc = "type1"
    BY <1>1, <2>1, RestartProper
  <2>. HIDE DEF r
  <2>. QED  BY <2>1, <2>2 DEF Steps, Moves, Queued
<1>16. CASE SealedType3Replied(t) \/ SealedReplied(t)
  <2>. DEFINE stored(s) == [Waiting(t, "store") EXCEPT !.session = s, !.reply = ReplyOf(Response(t))]
  <2>1. /\ task[t].pc \in {"type3Wait", "sealedWait"}
        /\ task[t].pc = "type3Wait" => task[t].mode = "sealed"
        /\ ProperResponse(Response(t))
    BY <1>16, AnswerProper DEF SealedType3Replied, SealedReplied
  <2>2. Proper(task[t].session)
    BY <1>1, <2>1 DEF ProperTask, WithSession
  <2>3. config.encrypt
    <3>1. task[t].mode = "plain" <=> ~config.encrypt
      BY <2>1, Counted DEF Sound
    <3>2. task[t].mode \in {"sealed", "blank"}
      BY <2>1, Counted DEF Sound
    <3>. QED  BY <3>1, <3>2
  <2>4. Proper(ReadBy(task[t].session, Response(t))) /\ Proper(FromAuth(Key(task[t].session)))
    BY <2>1, <2>2, <2>3, ReadProper, KeyProper, NewProper DEF ProperResponse
  <2>5. \/ queue' = queue /\ \E result \in Results : \E reply :
              task' = [task EXCEPT ![t] = Ended(t, result, reply)]
        \/ queue' = Append(queue, t) /\ \E s : Proper(s) /\ task' = [task EXCEPT ![t] = stored(s)]
    <3>1. CASE SealedType3Replied(t)
      <4>. DEFINE result == Unsealed(task[t].session, Response(t))
                  s == FromAuth(Key(task[t].session))
      <4>1. \/ queue' = queue /\ task' = [task EXCEPT ![t] = Ended(t, result, ReplyOf(Response(t)))]
            \/ queue' = Append(queue, t) /\ task' = [task EXCEPT ![t] = stored(FromAuth(Key(Waiting(t, "store").session)))]
        BY <3>1, Zenon DEF SealedType3Replied
      <4>2. Waiting(t, "store").session = task[t].session
        BY <1>1, SMT DEF Waiting, IsTask
      <4>3. result \in Results
        BY UnsealedIsResult
      <4>. QED  BY <2>4, <4>1, <4>2, <4>3, Zenon
    <3>2. CASE SealedReplied(t)
      <4>. DEFINE result == Unsealed(task[t].session, Response(t))
      <4>1. \/ queue' = queue /\ task' = [task EXCEPT ![t] = Ended(t, result, ReplyOf(Response(t)))]
            \/ queue' = Append(queue, t) /\ task' = [task EXCEPT ![t] = stored(ReadBy(Waiting(t, "store").session, Response(t)))]
        BY <3>2, Zenon DEF SealedReplied
      <4>2. Waiting(t, "store").session = task[t].session
        BY <1>1, SMT DEF Waiting, IsTask
      <4>3. result \in Results
        BY UnsealedIsResult
      <4>. QED  BY <2>4, <4>1, <4>2, <4>3, Zenon
    <3>. QED  BY <1>16, <3>1, <3>2
  <2>6. CASE queue' = queue /\ \E result \in Results : \E reply :
              task' = [task EXCEPT ![t] = Ended(t, result, reply)]
    BY <1>1, <2>1, <2>6, EndSteps DEF Queued
  <2>7. CASE queue' = Append(queue, t) /\ \E s : Proper(s) /\ task' = [task EXCEPT ![t] = stored(s)]
    <3>1. PICK s : Proper(s) /\ task' = [task EXCEPT ![t] = stored(s)]
      BY <2>7
    <3>2. ProperTask(stored(s)) /\ stored(s).pc = "store"
      <4>1. task[t].pc # "idle"
        BY <2>1
      <4>2. \A reply : LET r == [Waiting(t, "store") EXCEPT !.session = s, !.reply = reply]
                       IN ProperTask(r) /\ r.pc = "store"
        BY <1>1, <3>1, <4>1, SessionSetProper
      <4>. QED  BY <4>2, Zenon
    <3>. HIDE DEF stored
    <3>. QED  BY <2>1, <2>7, <3>1, <3>2 DEF Steps, Moves, Queued
  <2>. QED  BY <2>5, <2>6, <2>7
<1>. QED  BY <1>3, <1>4, <1>5, <1>6, <1>7, <1>8, <1>9, <1>10, <1>11, <1>12, <1>13, <1>14, <1>15, <1>16
          DEF InnerStep

-----------------------------------------------------------------------------
(* Requests.                                                                 *)

\* A task sends a request, which its connection then holds.
Asks(t, next) ==
    /\ IsTask(next) /\ next.host = task[t].host /\ next.pc \in Waits
    /\ next.pc \in Queued <=> task[t].pc \in Queued
    /\ \A c \in Conns : ProperTask([next EXCEPT !.conn = c])
Sends(t) == \E request, next : Post(t, request, next) /\ ProperRequest(request) /\ Asks(t, next)

LEMMA NextProper ==
    ASSUME NEW t, IsTask(task[t]), ProperTask(task[t]), task[t].pc # "idle",
           NEW pc \in Waits, pc \in Queued <=> task[t].pc \in Queued, pc = "cachedWait" => config.encrypt
    PROVE  /\ pc \notin WithSession \/ Proper(task[t].session)
              => Asks(t, [task[t] EXCEPT !.pc = pc])
           /\ \A s : Proper(s) => /\ Asks(t, [task[t] EXCEPT !.pc = pc, !.session = s])
                               /\ Asks(t, [[task[t] EXCEPT !.pc = pc] EXCEPT !.session = s])
<1>. HIDE DEF Proper, Results
<1>1. \A c \in Conns : c # None
  BY TransportAssumption
<1>2. ASSUME pc \notin WithSession \/ Proper(task[t].session)
      PROVE  Asks(t, [task[t] EXCEPT !.pc = pc])
  <2>. DEFINE next == [task[t] EXCEPT !.pc = pc]
  <2>1. IsTask(next) /\ next.host = task[t].host /\ next.pc = pc
    BY SMT DEF IsTask
  <2>2. ASSUME NEW c \in Conns PROVE ProperTask([next EXCEPT !.conn = c])
    BY <1>1, <1>2, SMT DEF ProperTask, IsTask, WithSession, Waits
  <2>. HIDE DEF next
  <2>3. Asks(t, next)
    BY <2>1, <2>2 DEF Asks
  <2>. QED  BY <2>3 DEF next
<1>3. ASSUME NEW s, Proper(s) PROVE Asks(t, [task[t] EXCEPT !.pc = pc, !.session = s])
  <2>. DEFINE next == [task[t] EXCEPT !.pc = pc, !.session = s]
  <2>1. IsTask(next) /\ next.host = task[t].host /\ next.pc = pc
    BY SMT DEF IsTask
  <2>2. ASSUME NEW c \in Conns PROVE ProperTask([next EXCEPT !.conn = c])
    BY <1>1, <1>3, SMT DEF ProperTask, IsTask, WithSession, Waits
  <2>. HIDE DEF next
  <2>3. Asks(t, next)
    BY <2>1, <2>2 DEF Asks
  <2>. QED  BY <2>3 DEF next
<1>4. ASSUME NEW s PROVE [task[t] EXCEPT !.pc = pc, !.session = s] = [[task[t] EXCEPT !.pc = pc] EXCEPT !.session = s]
  OBVIOUS
<1>. QED  BY <1>2, <1>3, <1>4, Zenon

LEMMA SealProper == ASSUME NEW s, NEW body PROVE Seal(s, body, BodyLen).len \in Nat
  BY SMT DEF Seal, BodyLen

LEMMA PostSends ==
    ASSUME Sound, NEW t \in Tasks, PostStep(t)
    PROVE  Sends(t) /\ task[t].host \in Hosts /\ task[t].conn = None /\ queue' = queue
<1>1. IsTask(task[t]) /\ ProperTask(task[t]) /\ task[t].mode \in {"blank", "sealed", "plain"}
  BY DEF Sound, IInv, Shapes, TaskSound, Types, ProperTasks
<1>2. task[t].pc \in {"lock", "type1", "type3", "sealed"} /\ queue' = queue
  BY DEF PostStep, CacheHit, PostType1, PostType3, PostSealed
<1>3. task[t].host \in Hosts /\ task[t].conn = None
  BY <1>1, <1>2 DEF ProperTask, Waits
<1>4. CASE CacheHit(t)
  <2>. DEFINE request == [kind |-> "sealed", key |-> None, body |-> Seal(cache.session, Body(t), BodyLen)]
              next == [task[t] EXCEPT !.pc = "cachedWait"]
  <2>1. Post(t, request, next) /\ task[t].pc = "lock"
    BY <1>4, Zenon DEF CacheHit
  <2>2. Asks(t, next)
    <3>1. /\ "cachedWait" \in Waits /\ "cachedWait" \in Queued /\ task[t].pc \in Queued
          /\ "cachedWait" \notin WithSession /\ config.encrypt
      BY <1>1, <2>1 DEF ProperTask, Waits, WithSession, Queued
    <3>. QED  BY <1>1, <2>1, <3>1, NextProper
  <2>3. ProperRequest(request)
    BY SealProper DEF ProperRequest
  <2>. HIDE DEF request, next
  <2>. QED  BY <1>2, <1>3, <2>1, <2>2, <2>3 DEF Sends
<1>5. CASE PostType1(t)
  <2>. DEFINE request == [kind |-> "type1", key |-> None, body |-> NoBody]
              next == [task[t] EXCEPT !.pc = "type1Wait"]
  <2>1. Post(t, request, next) /\ task[t].pc = "type1"
    BY <1>5, Zenon DEF PostType1
  <2>2. Asks(t, next)
    <3>1. /\ "type1Wait" \in Waits /\ "type1Wait" \notin Queued /\ task[t].pc \notin Queued
          /\ "type1Wait" \notin WithSession
      BY <2>1 DEF Waits, WithSession, Queued
    <3>. QED  BY <1>1, <2>1, <3>1, NextProper
  <2>3. ProperRequest(request)
    BY DEF ProperRequest
  <2>. HIDE DEF request, next
  <2>. QED  BY <1>2, <1>3, <2>1, <2>2, <2>3 DEF Sends
<1>6. CASE PostSealed(t)
  <2>. DEFINE request == [kind |-> "sealed", key |-> None, body |-> Seal(task[t].session, Body(t), BodyLen)]
              s == AfterSeal(task[t].session, BodyLen)
              next == [task[t] EXCEPT !.pc = "sealedWait", !.session = s]
  <2>1. Post(t, request, next) /\ task[t].pc = "sealed"
    BY <1>6, Zenon DEF PostSealed
  <2>2. Proper(s)
    BY <1>1, <2>1, SealedProper DEF ProperTask, WithSession, BodyLen
  <2>. HIDE DEF s
  <2>3. Asks(t, next)
    BY <1>1, <2>1, <2>2, NextProper DEF Waits, Queued
  <2>4. ProperRequest(request)
    BY SealProper DEF ProperRequest
  <2>. HIDE DEF request, next
  <2>. QED  BY <1>2, <1>3, <2>1, <2>3, <2>4 DEF Sends
<1>7. CASE PostType3(t)
  <2>. DEFINE s == AfterSeal(task[t].session, BodyLen)
              sealed == Seal(task[t].session, Body(t), BodyLen)
              x == [task[t] EXCEPT !.pc = "type3Wait"]
              z == [x EXCEPT !.session = s]
              Type3(body) == [kind |-> "type3", key |-> Key(task[t].session), body |-> body,
                              binding |-> ChannelBinding]
  <2>1. task[t].pc = "type3"
    BY <1>7 DEF PostType3
  <2>2. Proper(task[t].session) /\ Proper(s)
    BY <1>1, <2>1, SealedProper DEF ProperTask, WithSession, BodyLen
  <2>3. Asks(t, x) /\ Asks(t, z)
    <3>. HIDE DEF s
    <3>1. "type3Wait" \in Waits /\ "type3Wait" \notin Queued /\ task[t].pc \notin Queued
      BY <2>1 DEF Waits, Queued
    <3>. QED  BY <1>1, <2>1, <2>2, <3>1, NextProper
  <2>4. task[t].mode = "plain" => ~config.encrypt
    BY <2>1, Counted DEF Sound
  <2>5. /\ ProperRequest(Type3(NoBody)) /\ ProperRequest(Type3(sealed))
        /\ ~config.encrypt => ProperRequest(Type3(Plain(t)))
    BY SealProper DEF ProperRequest
  <2>6. \/ Post(t, Type3(NoBody), x)
        \/ task[t].mode = "plain" /\ Post(t, Type3(Plain(t)), x)
        \/ Post(t, Type3(sealed), z)
    BY <1>1, <1>7, Zenon DEF PostType3
  <2>. HIDE DEF x, z, Type3
  <2>. QED  BY <1>2, <1>3, <2>3, <2>4, <2>5, <2>6 DEF Sends
<1>. QED  BY <1>4, <1>5, <1>6, <1>7 DEF PostStep

-----------------------------------------------------------------------------
(* Steps of a task, and of the server.                                       *)

LEMMA TaskSet ==
    ASSUME IInv, ProperTasks, UNCHANGED config, NEW t \in Tasks, NEW r, ProperTask(r), task' = [task EXCEPT ![t] = r]
    PROVE  ProperTasks'
<1>1. \A u \in Tasks : ProperTask(task'[u])
  <2>. HIDE DEF ProperTask
  <2>. QED  BY DEF IInv, Shapes, ProperTasks
<1>. QED  BY <1>1 DEF ProperTasks, ProperTask

LEMMA ConnSet ==
    ASSUME IInv, ProperConns, UNCHANGED config, NEW c \in Conns, NEW x, ProperConn(x), conn' = [conn EXCEPT ![c] = x]
    PROVE  ProperConns'
<1>1. \A d \in Conns : ProperConn(conn'[d])
  <2>. HIDE DEF ProperConn
  <2>. QED  BY DEF IInv, Shapes, ProperConns
<1>. QED  BY <1>1 DEF ProperConns, ProperConn, ProperRequest, ProperResponse

LEMMA SendsProper ==
    ASSUME Sound, NEW t \in Tasks, Sends(t), task[t].host \in Hosts, task[t].conn = None,
           UNCHANGED <<queue, config>>
    PROVE  /\ ProperTasks' /\ ProperConns' /\ AnswersAwaited' /\ InQueue'
           /\ captured' \in known' \cup {None} /\ known' \subseteq Hosts
<1>. USE DEF Sound
<1>1. PICK request, next : Post(t, request, next) /\ ProperRequest(request) /\ Asks(t, next)
  BY DEF Sends
<1>2. PICK c \in Available(task[t].host) :
        /\ IF conn[c].state = "idle" THEN UNCHANGED verifier ELSE TlsHandshake(task[t].host)
        /\ conn' = [conn EXCEPT ![c].state = "asked", ![c].host = task[t].host, ![c].msg = request]
        /\ task' = [task EXCEPT ![t] = [next EXCEPT !.conn = c]]
  BY <1>1, Zenon DEF Post
<1>3. c \in Conns /\ conn[c].state \in {"idle", "closed"}
  BY <1>2, AvailableFree
<1>. DEFINE r == [next EXCEPT !.conn = c]
            x == [conn[c] EXCEPT !.state = "asked", !.host = task[t].host, !.msg = request]
<1>4. /\ IsConn(conn[c]) /\ ProperConn(conn[c]) /\ DOMAIN conn = Conns
  BY <1>3 DEF IInv, Shapes, Types, ProperConns
<1>5. x.state = "asked" /\ x.host = task[t].host /\ x.msg = request /\ x.ctx = conn[c].ctx
  BY <1>4, SMT DEF IsConn
<1>6. conn' = [conn EXCEPT ![c] = x]
  BY <1>2, <1>3, Zenon
<1>7. ProperTask(r) /\ r.pc = next.pc
  BY <1>1, <1>3, SMT DEF Asks, IsTask
<1>8. task' = [task EXCEPT ![t] = r]
  BY <1>2
<1>. HIDE DEF r, x
<1>9. ProperTasks'
  BY <1>7, <1>8, TaskSet DEF Types
<1>10. ProperConn(x)
  BY <1>1, <1>4, <1>5 DEF ProperConn
<1>11. ProperConns'
  BY <1>3, <1>6, <1>10, ConnSet DEF Types
<1>12. AnswersAwaited'
  <2>. SUFFICES ASSUME NEW d \in Conns, conn'[d].state = "answered" PROVE \E u \in Tasks : task'[u].conn = d
    BY DEF AnswersAwaited
  <2>1. d # c /\ conn'[d] = conn[d]
    BY <1>4, <1>5, <1>6
  <2>2. PICK u \in Tasks : task[u].conn = d
    BY <2>1 DEF Types, AnswersAwaited
  <2>3. u # t
    BY <2>2, TransportAssumption
  <2>. QED  BY <1>8, <2>2, <2>3 DEF IInv, Shapes
<1>13. InQueue'
  <2>1. Moves(t, r.pc)
    BY <1>1, <1>7 DEF Moves, Asks
  <2>. QED  BY <1>8, <2>1, MoveInQueue DEF Types
<1>14. captured' \in known' \cup {None} /\ known' \subseteq Hosts
  BY <1>2 DEF TlsHandshake, verifier, Types, ProperRest
<1>. QED  BY <1>9, <1>11, <1>12, <1>13, <1>14

\* The connection of a task is given up: read to its end, left or closed.
GivesUp(t) ==
    IF task[t].conn = None THEN UNCHANGED conn
    ELSE \E x \in Dropped(task[t].conn) : conn' = [conn EXCEPT ![task[t].conn] = x]

LEMMA StepsGiveUp ==
    ASSUME IInv, NEW t \in Tasks, InnerStep(t) \/ HttpError(t) \/ Cancel(t) \/ \E h \in Hosts : Call(t, h)
    PROVE  GivesUp(t)
<1>. USE DEF Dropped, GivesUp
<1>1. CASE Retry(t) \/ CacheMiss(t) \/ Store(t) \/ \E h \in Hosts : Call(t, h)
  <2>1. UNCHANGED conn /\ task[t].pc \notin Waits
    BY <1>1 DEF Retry, CacheMiss, Store, Call, Waits
  <2>. QED  BY <2>1 DEF IInv, Shapes, TaskSound
<1>2. CASE HttpError(t) \/ Cancel(t)
  BY <1>2 DEF HttpError, Cancel
<1>3. CASE CachedRejected(t) \/ NotChallenged(t) \/ Type3Rejected(t) \/ SealedRejected(t)
  BY <1>3 DEF CachedRejected, NotChallenged, Type3Rejected, SealedRejected, Answered
<1>4. CASE CachedReplied(t) \/ PlainReplied(t) \/ SealedType3Replied(t) \/ SealedReplied(t)
  BY <1>4 DEF CachedReplied, PlainReplied, SealedType3Replied, SealedReplied, Answered
<1>5. CASE Challenged(t) \/ BlankAccepted(t)
  BY <1>5 DEF Challenged, BlankAccepted, ReadIgnored, Answered
<1>. QED  BY <1>1, <1>2, <1>3, <1>4, <1>5 DEF InnerStep

LEMMA ClosedProper == ProperConn(Closed) /\ Closed.state = "closed"
  BY SMT DEF ProperConn, ProperCtx, IsCtx, Closed, NoCtx

LEMMA ReleasedProper ==
    ASSUME NEW c, IsConn(conn[c]), ProperConn(conn[c]), conn[c].state # "closed"
    PROVE  ProperConn(Released(c)) /\ Released(c).state \in {"idle", "closed"}
<1>. DEFINE x == [conn[c] EXCEPT !.state = "idle", !.msg = None]
<1>1. x.state = "idle" /\ x.host = conn[c].host /\ x.ctx = conn[c].ctx
  BY SMT DEF IsConn
<1>2. Released(c) = x \/ Released(c) = Closed
  BY DEF Released
<1>. HIDE DEF x
<1>3. ProperConn(x)
  BY <1>1 DEF ProperConn
<1>. QED  BY <1>1, <1>2, <1>3, ClosedProper

LEMMA GivesUpProper ==
    ASSUME Sound, NEW t \in Tasks, Steps(t), GivesUp(t), UNCHANGED config
    PROVE  ProperTasks' /\ ProperConns' /\ AnswersAwaited' /\ InQueue'
<1>. USE DEF Sound
<1>1. PICK r : task' = [task EXCEPT ![t] = r] /\ ProperTask(r) /\ Moves(t, r.pc)
  BY DEF Steps
<1>2. ProperTasks' /\ InQueue'
  BY <1>1, TaskSet, MoveInQueue DEF Types
<1>3. \A u \in Tasks \ {t} : task'[u] = task[u]
  BY <1>1 DEF IInv, Shapes
<1>4. CASE task[t].conn = None
  <2>1. UNCHANGED conn
    BY <1>4 DEF GivesUp
  <2>2. ProperConns'
    BY <2>1 DEF Types, ProperConns, ProperConn, ProperRequest, ProperResponse
  <2>3. AnswersAwaited'
    <3>1. \A d \in Conns : task[t].conn # d
      BY <1>4, TransportAssumption
    <3>. QED  BY <1>3, <2>1, <3>1 DEF Types, AnswersAwaited
  <2>. QED  BY <1>2, <2>2, <2>3
<1>5. CASE task[t].conn # None
  <2>. DEFINE c == task[t].conn
  <2>1. c \in Conns /\ conn[c].state # "closed" /\ IsConn(conn[c]) /\ ProperConn(conn[c])
    BY <1>5 DEF IInv, OwnConns, Shapes, Types, ProperConns
  <2>2. PICK x \in Dropped(c) : conn' = [conn EXCEPT ![c] = x]
    BY <1>5 DEF GivesUp
  <2>3. ProperConn(x) /\ x.state # "answered"
    BY <2>1, <2>2, ReleasedProper, ClosedProper DEF Dropped
  <2>4. ProperConns'
    BY <2>1, <2>2, <2>3, ConnSet DEF Types
  <2>5. AnswersAwaited'
    <3>1. \A d \in Conns : conn'[d].state = "answered" => d # c /\ conn[d].state = "answered"
      BY <2>1, <2>2, <2>3 DEF IInv, Shapes
    <3>. QED  BY <1>3, <3>1 DEF Types, AnswersAwaited
  <2>. QED  BY <1>2, <2>4, <2>5
<1>. QED  BY <1>4, <1>5

LEMMA RespondProper ==
    ASSUME Sound, NEW c \in Conns, conn[c].state = "asked", UNCHANGED <<task, queue, config>>,
           NEW status, NEW key, NEW body, NEW ctx, Respond(c, status, key, body, ctx), ProperCtx(ctx),
           status \in {"200", "401", "500", "503"}, key = NoChallenge \/ key \in Keys,
           config.encrypt => body = NoBody \/ body.len \in Nat
    PROVE  ProperTasks' /\ ProperConns' /\ AnswersAwaited' /\ InQueue'
<1>. USE DEF Sound
<1>1. IsConn(conn[c]) /\ ProperConn(conn[c])
  BY DEF IInv, Shapes, Types, ProperConns
<1>2. PICK x : /\ conn' = [conn EXCEPT ![c] = x] /\ x.state = "answered" /\ x.host = conn[c].host
               /\ x.ctx = ctx /\ x.msg = [status |-> status, key |-> key, body |-> body]
  <2>. DEFINE x == [conn[c] EXCEPT !.state = "answered", !.ctx = ctx,
                                   !.msg = [status |-> status, key |-> key, body |-> body]]
  <2>1. /\ x.state = "answered" /\ x.host = conn[c].host /\ x.ctx = ctx
        /\ x.msg = [status |-> status, key |-> key, body |-> body]
    BY <1>1, SMT DEF IsConn
  <2>2. conn' = [conn EXCEPT ![c] = x]
    BY Zenon DEF Respond
  <2>. HIDE DEF x
  <2>. QED  BY <2>1, <2>2
<1>3. ProperResponse(x.msg)
  BY <1>2 DEF ProperResponse
<1>4. ProperConn(x)
  BY <1>1, <1>2, <1>3 DEF ProperConn
<1>5. ProperConns'
  BY <1>2, <1>4, ConnSet DEF Types
<1>6. \A d \in Conns \ {c} : conn'[d] = conn[d]
  BY <1>2 DEF IInv, Shapes
<1>7. AnswersAwaited'
  BY <1>6 DEF Types, AnswersAwaited, IInv, OwnConns
<1>8. ProperTasks' /\ InQueue'
  BY DEF Types, ProperTasks, ProperTask, InQueue
<1>. QED  BY <1>5, <1>7, <1>8

LEMMA RunSealedProper ==
    ASSUME Sound, NEW c \in Conns, conn[c].state = "asked", UNCHANGED <<task, queue, config>>,
           NEW s, Proper(s), NEW m, m.len \in Nat, RunSealed(c, s, m)
    PROVE  ProperTasks' /\ ProperConns' /\ AnswersAwaited' /\ InQueue'
<1>. DEFINE opened == AfterUnseal(s, m)
            ctx == [kind |-> "open", session |-> AfterSeal(opened, BodyLen)]
            reply == Seal(opened, m.body, BodyLen)
<1>1. PICK status \in {"200", "500"} : Respond(c, status, NoChallenge, reply, ctx)
  BY Zenon DEF RunSealed
<1>2. reply.len \in Nat
  BY SealProper
<1>3. ProperCtx(ctx)
  <2>1. Proper(AfterSeal(opened, BodyLen))
    BY UnsealedProper, SealedProper DEF BodyLen
  <2>. QED  BY <2>1, SMT DEF ProperCtx, IsCtx
<1>. HIDE DEF ctx, reply
<1>. QED  BY <1>1, <1>2, <1>3, RespondProper

LEMMA ServesProper ==
    ASSUME Sound, NEW c \in Conns, UNCHANGED config,
           ServeType1(c) \/ ServeType3(c) \/ ServeSealed(c) \/ ServerFails(c)
    PROVE  ProperTasks' /\ ProperConns' /\ AnswersAwaited' /\ InQueue'
<1>1. conn[c].state = "asked" /\ UNCHANGED <<task, queue, cache>>
  BY DEF ServeType1, ServeType3, ServeSealed, ServerFails
<1>2. /\ ProperCtx(conn[c].ctx) /\ ProperRequest(conn[c].msg) /\ conn[c].host \in Hosts
  BY <1>1 DEF Sound, Types, ProperConns, ProperConn
<1>3. ProperCtx(NoCtx)
  BY SMT DEF ProperCtx, IsCtx, NoCtx
<1>4. CASE ServeType1(c)
  <2>. DEFINE key == FreshKey(conn[c].host)
              ctx == [kind |-> "challenged", session |-> Mirror(FromAuth(key))]
  <2>1. Respond(c, "401", key, NoBody, ctx)
    BY <1>4, Zenon DEF ServeType1
  <2>2. key \in Keys
    BY <1>2, KeysSuffice
  <2>. HIDE DEF key
  <2>3. ProperCtx(ctx)
    <3>1. Proper(Mirror(FromAuth(key)))
      BY <2>2, NewProper
    <3>. QED  BY <3>1, SMT DEF ProperCtx, IsCtx
  <2>. HIDE DEF ctx
  <2>. QED  BY <1>1, <2>1, <2>2, <2>3, RespondProper
<1>5. CASE ServerFails(c)
  <2>1. \E status \in {"503", "401"} : Respond(c, status, NoChallenge, NoBody, conn[c].ctx)
    BY <1>5, Zenon DEF ServerFails
  <2>. QED  BY <1>1, <1>2, <2>1, RespondProper
<1>6. CASE ServeSealed(c)
  <2>. DEFINE m == conn[c].msg.body
  <2>1. m.len \in Nat
    BY <1>2, <1>6 DEF ServeSealed, ProperRequest
  <2>2. \/ Respond(c, "401", NoChallenge, NoBody, NoCtx)
        \/ \E status \in BadSealStatus :
              Respond(c, status, NoChallenge, NoBody, IF status = "401" THEN NoCtx ELSE conn[c].ctx)
        \/ conn[c].ctx.kind = "open" /\ RunSealed(c, conn[c].ctx.session, m)
    BY <1>6, Zenon DEF ServeSealed
  <2>3. CASE Respond(c, "401", NoChallenge, NoBody, NoCtx)
    BY <1>1, <1>3, <2>3, RespondProper
  <2>4. CASE \E status \in BadSealStatus :
              Respond(c, status, NoChallenge, NoBody, IF status = "401" THEN NoCtx ELSE conn[c].ctx)
    <3>1. PICK status \in {"401", "503"} : \E ctx \in {NoCtx, conn[c].ctx} :
              Respond(c, status, NoChallenge, NoBody, ctx)
      BY <2>4, TransportAssumption, Zenon
    <3>2. PICK ctx \in {NoCtx, conn[c].ctx} : Respond(c, status, NoChallenge, NoBody, ctx)
      BY <3>1
    <3>. QED  BY <1>1, <1>2, <1>3, <3>2, RespondProper
  <2>5. CASE conn[c].ctx.kind = "open" /\ RunSealed(c, conn[c].ctx.session, m)
    <3>1. Proper(conn[c].ctx.session)
      BY <1>2, <2>5 DEF ProperCtx
    <3>. QED  BY <1>1, <2>1, <2>5, <3>1, RunSealedProper
  <2>. QED  BY <2>2, <2>3, <2>4, <2>5
<1>7. CASE ServeType3(c)
  <2>. DEFINE ctx == conn[c].ctx
              body == conn[c].msg.body
              open == [ctx EXCEPT !.kind = "open"]
  <2>1. config.encrypt => body = NoBody \/ body.len \in Nat
    BY <1>2, <1>7 DEF ServeType3, ProperRequest
  <2>2. \/ Respond(c, "401", NoChallenge, NoBody, NoCtx)
        \/ ctx.kind = "challenged" /\ Respond(c, "200", NoChallenge, NoBody, open)
        \/ /\ ctx.kind = "challenged" /\ ~config.encrypt
           /\ \E status \in {"200", "500"} : Respond(c, status, NoChallenge, body, open)
        \/ /\ ctx.kind = "challenged" /\ body # NoBody /\ config.encrypt
           /\ RunSealed(c, ctx.session, body)
    BY <1>7, ZenonT(40) DEF ServeType3
  <2>3. ctx.kind = "challenged" => Proper(ctx.session) /\ ProperCtx(open)
    <3>. HIDE DEF Proper
    <3>. QED  BY <1>2, SMT DEF ProperCtx, IsCtx
  <2>. HIDE DEF ctx, body, open
  <2>4. CASE Respond(c, "401", NoChallenge, NoBody, NoCtx)
    BY <1>1, <1>3, <2>4, RespondProper
  <2>5. CASE ctx.kind = "challenged" /\ Respond(c, "200", NoChallenge, NoBody, open)
    BY <1>1, <2>3, <2>5, RespondProper
  <2>6. CASE /\ ctx.kind = "challenged" /\ ~config.encrypt
             /\ \E status \in {"200", "500"} : Respond(c, status, NoChallenge, body, open)
    BY <1>1, <2>3, <2>6, RespondProper
  <2>7. CASE /\ ctx.kind = "challenged" /\ body # NoBody /\ config.encrypt
             /\ RunSealed(c, ctx.session, body)
    BY <1>1, <2>1, <2>3, <2>7, RunSealedProper
  <2>. QED  BY <2>2, <2>4, <2>5, <2>6, <2>7
<1>. QED  BY <1>4, <1>5, <1>6, <1>7

LEMMA IdlesProper ==
    ASSUME Sound, NEW c \in Conns, UNCHANGED config, Expire(c) \/ IdleClosed(c)
    PROVE  ProperTasks' /\ ProperConns' /\ AnswersAwaited' /\ InQueue'
<1>. USE DEF Sound
<1>1. /\ UNCHANGED <<task, queue>> /\ conn[c].state = "idle"
      /\ IsConn(conn[c]) /\ ProperConn(conn[c])
  BY DEF Expire, IdleClosed, IInv, Shapes, Types, ProperConns
<1>2. \E x : ProperConn(x) /\ x.state # "answered" /\ conn' = [conn EXCEPT ![c] = x]
  <2>1. CASE Expire(c)
    <3>. DEFINE x == [conn[c] EXCEPT !.ctx = NoCtx]
    <3>1. x.state = "idle" /\ x.host = conn[c].host /\ x.ctx = NoCtx
      BY <1>1, SMT DEF IsConn
    <3>2. ProperCtx(NoCtx)
      BY SMT DEF ProperCtx, IsCtx, NoCtx
    <3>3. conn' = [conn EXCEPT ![c] = x]
      BY <2>1, Zenon DEF Expire
    <3>. HIDE DEF x
    <3>. QED  BY <1>1, <3>1, <3>2, <3>3 DEF ProperConn
  <2>2. CASE IdleClosed(c)
    BY <2>2, ClosedProper DEF IdleClosed
  <2>. QED  BY <2>1, <2>2
<1>3. PICK x : ProperConn(x) /\ x.state # "answered" /\ conn' = [conn EXCEPT ![c] = x]
  BY <1>2
<1>4. ProperConns'
  BY <1>3, ConnSet DEF Types
<1>5. AnswersAwaited'
  BY <1>1, <1>3 DEF IInv, Shapes, Types, AnswersAwaited
<1>6. ProperTasks' /\ InQueue'
  BY <1>1 DEF Types, ProperTasks, ProperTask, InQueue
<1>. QED  BY <1>4, <1>5, <1>6

\* What is put into the cache.
LEMMA StepsNotWaiting ==
    ASSUME Sound, NEW t \in Tasks, Steps(t) PROVE task'[t].pc # "cachedWait"
  BY DEF Steps, Sound, IInv, Shapes

\* What others wait with stays in the cache.
LEMMA WaitersKeepCache ==
    ASSUME Sound, NEW t \in Tasks, task'[t].pc # "cachedWait",
           \A u \in Tasks \ {t} : task'[u] = task[u], cache' = cache \/ (cache' = None /\ Holds(t))
    PROVE  CacheUsed' => Proper(cache'.session) /\ cache'.host \in Hosts
<1>. SUFFICES ASSUME CacheUsed' PROVE cache' = cache /\ CacheUsed
  BY DEF Sound, Types, ProperRest
<1>1. CASE cache' # None
  BY <1>1 DEF CacheUsed
<1>2. CASE \E u \in Tasks : task'[u].pc = "cachedWait"
  <2>1. PICK u \in Tasks : task'[u].pc = "cachedWait"
    BY <1>2
  <2>2. u # t /\ task[u].pc = "cachedWait"
    BY <2>1
  <2>3. ~Holds(t)
    BY <2>2 DEF Sound, Locked, Holds
  <2>. QED  BY <2>2, <2>3 DEF CacheUsed
<1>. QED  BY <1>1, <1>2 DEF CacheUsed

LEMMA CacheProper ==
    ASSUME Sound, NEW t \in Tasks, TaskStep(t)
    PROVE  CacheUsed' => Proper(cache'.session) /\ cache'.host \in Hosts
<1>. USE DEF Sound
<1>1. /\ CacheUsed => Proper(cache.session) /\ cache.host \in Hosts
      /\ ProperTask(task[t])
  BY DEF Types, ProperRest, ProperTasks
<1>2. CASE CacheHit(t)
  <2>1. cache # None /\ cache' = [cache EXCEPT !.session = AfterSeal(cache.session, BodyLen)]
    BY <1>2, Zenon DEF CacheHit, CachedFor
  <2>2. CacheUsed /\ IsCached(cache)
    BY <2>1 DEF CacheUsed, IInv, CacheSound
  <2>3. cache'.session = AfterSeal(cache.session, BodyLen) /\ cache'.host = cache.host
    BY <2>1, <2>2, SMT DEF IsCached
  <2>. QED  BY <1>1, <2>2, <2>3, SealedProper DEF BodyLen
<1>3. CASE CachedReplied(t)
  <2>1. task[t].pc = "cachedWait" /\ ProperResponse(Response(t))
        /\ cache' = [cache EXCEPT !.session = ReadBy(cache.session, Response(t))]
    BY <1>3, AnswerProper, Zenon DEF CachedReplied
  <2>2. config.encrypt /\ CacheUsed /\ IsCached(cache)
    BY <1>1, <2>1 DEF ProperTask, Locked, CacheOf, CacheUsed
  <2>3. cache'.session = ReadBy(cache.session, Response(t)) /\ cache'.host = cache.host
    BY <2>1, <2>2, SMT DEF IsCached
  <2>. QED  BY <1>1, <2>1, <2>2, <2>3, ReadProper DEF ProperResponse
<1>4. CASE Store(t)
  <2>1. cache' = [host |-> task[t].host, session |-> task[t].session] /\ task[t].pc = "store"
    BY <1>4 DEF Store
  <2>. QED  BY <1>1, <2>1 DEF ProperTask, WithSession
<1>5. CASE PostType1(t) \/ PostType3(t) \/ PostSealed(t)
  <2>1. cache' = cache /\ task[t].pc \notin Queued
    BY <1>5 DEF PostType1, PostType3, PostSealed, Queued
  <2>2. PICK request, next : Post(t, request, next) /\ Asks(t, next)
    BY <1>5, PostSends DEF PostStep, Sends
  <2>3. PICK c : task' = [task EXCEPT ![t] = [next EXCEPT !.conn = c]]
    BY <2>2, Zenon DEF Post
  <2>4. [next EXCEPT !.conn = c].pc = next.pc
    BY <2>2, SMT DEF Asks, IsTask
  <2>5. task'[t].pc # "cachedWait" /\ \A u \in Tasks \ {t} : task'[u] = task[u]
    BY <2>1, <2>2, <2>3, <2>4 DEF Asks, Queued, IInv, Shapes
  <2>. QED  BY <2>1, <2>5, WaitersKeepCache
<1>6. CASE InnerStep(t) /\ ~CachedReplied(t) /\ ~Store(t)
  <2>1. Steps(t)
    BY <1>6, InnerSteps
  <2>2. task'[t].pc # "cachedWait" /\ \A u \in Tasks \ {t} : task'[u] = task[u]
    BY <2>1, StepsNotWaiting DEF Steps, IInv, Shapes
  <2>3. cache' = cache \/ (cache' = None /\ Holds(t))
    <3>1. CachedRejected(t) => Holds(t)
      BY AnsweredFacts DEF CachedRejected, Locked
    <3>. QED  BY <1>6, <3>1 DEF InnerStep, Retry, CacheMiss, CachedRejected, Challenged, NotChallenged,
                   Type3Rejected, BlankAccepted, PlainReplied, SealedType3Replied, SealedRejected, SealedReplied
  <2>. QED  BY <2>2, <2>3, WaitersKeepCache
<1>. QED  BY <1>2, <1>3, <1>4, <1>5, <1>6 DEF TaskStep, PostStep

-----------------------------------------------------------------------------
LEMMA InitTypes == Init => Types
<1>. SUFFICES ASSUME Init PROVE Types
  OBVIOUS
<1>1. ProperTask(Idle) /\ Idle.pc = "idle"
  <2>1. 0 \in 0 .. MaxCalls /\ 0 \in 0 .. MaxRetries
    BY TransportAssumption, SMT
  <2>. HIDE DEF Proper
  <2>. QED  BY <2>1, SMT DEF ProperTask, Idle, WithSession, Waits, Results
<1>. HIDE DEF Idle
<1>2. ProperTasks /\ ProperConns /\ AnswersAwaited
  BY <1>1, ClosedProper DEF Init, ProperTasks, ProperConns, AnswersAwaited
<1>3. InQueue
  <2>1. queue = <<>> /\ DOMAIN queue = {}
    BY SMT DEF Init
  <2>. QED  BY <1>1, <2>1 DEF Init, InQueue, In, NoTwice, Queued
<1>4. ProperRest
  BY <1>1 DEF Init, ProperRest, CacheUsed
<1>. QED  BY <1>2, <1>3, <1>4 DEF Types

LEMMA NextTypes == Sound /\ [Next]_vars => Types'
<1>. SUFFICES ASSUME Sound, [Next]_vars PROVE Types'
  OBVIOUS
<1>1. CASE UNCHANGED vars
  BY <1>1 DEF vars, verifier, Sound, Types, ProperTasks, ProperTask, ProperConns, ProperConn, ProperRequest,
     ProperResponse, AnswersAwaited, InQueue, ProperRest, CacheUsed
<1>2. ASSUME NEW t \in Tasks, TaskStep(t) PROVE Types'
  <2>1. UNCHANGED config
    BY <1>2 DEF TaskStep
  <2>2. /\ ProperTasks' /\ ProperConns' /\ AnswersAwaited' /\ InQueue'
        /\ captured' \in known' \cup {None} /\ known' \subseteq Hosts
    <3>1. CASE PostStep(t)
      BY <2>1, <3>1, PostSends, SendsProper
    <3>2. CASE InnerStep(t)
      <4>1. Steps(t) /\ GivesUp(t) /\ UNCHANGED verifier
        BY <3>2, InnerSteps, StepsGiveUp DEF InnerStep, Sound
      <4>. QED  BY <2>1, <4>1, GivesUpProper DEF verifier, Sound, Types, ProperRest
    <3>. QED  BY <1>2, <3>1, <3>2 DEF TaskStep
  <2>3. ProperRest'
    BY <1>2, <2>1, <2>2, CacheProper DEF ProperRest, Sound, Types
  <2>. QED  BY <2>2, <2>3 DEF Types
<1>3. ASSUME NEW c \in Conns, UNCHANGED <<verifier, config>>,
             ServerStep(c) \/ ServerFails(c) \/ Expire(c) \/ IdleClosed(c)
      PROVE  Types'
  <2>1. UNCHANGED <<task, cache, verifier, config>>
    BY <1>3 DEF ServerStep, ServeType1, ServeType3, ServeSealed, ServerFails, Expire, IdleClosed
  <2>2. ProperTasks' /\ ProperConns' /\ AnswersAwaited' /\ InQueue'
    BY <1>3, ServesProper, IdlesProper DEF ServerStep
  <2>. QED  BY <2>1, <2>2 DEF Types, ProperRest, CacheUsed, verifier, Sound
<1>4. ASSUME NEW t \in Tasks, UNCHANGED <<verifier, config>>,
             HttpError(t) \/ Cancel(t) \/ \E h \in Hosts : Call(t, h)
      PROVE  Types'
  <2>1. Steps(t) /\ UNCHANGED cache
    BY <1>4, InnerSteps, BeginSteps DEF HttpError, Cancel, Call
  <2>2. ProperTasks' /\ ProperConns' /\ AnswersAwaited' /\ InQueue'
    BY <1>4, <2>1, StepsGiveUp, GivesUpProper DEF Sound
  <2>3. CacheUsed' => Proper(cache'.session) /\ cache'.host \in Hosts
    BY <2>1, StepsNotWaiting, WaitersKeepCache DEF Steps, Sound, IInv, Shapes
  <2>. QED  BY <1>4, <2>2, <2>3 DEF Types, ProperRest, verifier, Sound
<1>. QED  BY <1>1, <1>2, <1>3, <1>4 DEF Next, Environment, ServerStep

\* One task has a connection in use, and none any other; a task stands at the mutex once.
LEMMA TypesCounted ==
    ASSUME Sound PROVE TypeOK
<1>. USE DEF Sound
<1>1. ASSUME NEW t \in Tasks
      PROVE  /\ task[t].pc \in {"idle", "backoff", "lock", "cachedWait", "type1", "type1Wait",
                                 "type3", "type3Wait", "sealed", "sealedWait", "store"}
             /\ task[t].mode \in {"blank", "sealed", "plain"}
             /\ task[t].call \in 0 .. MaxCalls /\ task[t].attempt \in 0 .. MaxRetries
             /\ task[t].result \in Results
             /\ task[t].session = None \/ IsSession(task[t].session)
             /\ task[t].conn # None <=> task[t].pc \in {"cachedWait", "type1Wait", "type3Wait", "sealedWait"}
  BY DEF Types, ProperTasks, ProperTask, Proper, Waits, IInv, Shapes, TaskSound
<1>2. ASSUME NEW c \in Conns
      PROVE  /\ conn[c].state \in {"closed", "idle", "asked", "answered"}
             /\ Cardinality({t \in Tasks : task[t].conn = c}) =
                    IF conn[c].state \in {"asked", "answered"} THEN 1 ELSE 0
             /\ conn[c].ctx.kind \in {"none", "challenged", "open"}
  <2>. DEFINE users == {t \in Tasks : task[t].conn = c}
  <2>1. c # None
    BY TransportAssumption
  <2>2. CASE conn[c].state \in {"asked", "answered"}
    <3>1. PICK t \in Tasks : task[t].conn = c
      BY <2>2 DEF Types, AnswersAwaited, IInv, OwnConns
    <3>2. users = {t}
      BY <2>1, <3>1 DEF IInv, OwnConns
    <3>. QED  BY <2>2, <3>2, FS_Singleton DEF Types, ProperConns, ProperConn, ProperCtx
  <2>3. CASE conn[c].state \notin {"asked", "answered"}
    <3>1. users = {}
      BY <2>1, <2>3 DEF IInv, OwnConns
    <3>. QED  BY <2>3, <3>1, FS_EmptySet DEF Types, ProperConns, ProperConn, ProperCtx
  <2>. QED  BY <2>2, <2>3
<1>3. ASSUME NEW t \in Tasks
      PROVE  Cardinality({i \in DOMAIN queue : queue[i] = t}) =
                 IF task[t].pc \in {"lock", "cachedWait", "store"} THEN 1 ELSE 0
  <2>. DEFINE places == {i \in DOMAIN queue : queue[i] = t}
  <2>1. CASE task[t].pc \in Queued
    <3>1. PICK i \in DOMAIN queue : queue[i] = t
      BY <2>1 DEF Types, InQueue, In
    <3>2. places = {i}
      BY <3>1 DEF Types, InQueue, NoTwice
    <3>. QED  BY <2>1, <3>2, FS_Singleton DEF Queued
  <2>2. CASE task[t].pc \notin Queued
    <3>1. places = {}
      BY <2>2 DEF Types, InQueue, In
    <3>. QED  BY <2>2, <3>1, FS_EmptySet DEF Queued
  <2>. QED  BY <2>1, <2>2
<1>4. /\ cache = None \/ (cache.host \in Hosts /\ IsSession(cache.session))
      /\ DOMAIN executed = Tasks /\ config \in Configs
      /\ captured \in known \cup {None} /\ known \subseteq Hosts
  BY DEF Types, ProperRest, CacheUsed, Proper, Once
<1>. QED  BY <1>1, <1>2, <1>3, <1>4 DEF TypeOK

\* Every variable has its type, a connection in use is used by one call, a free
\* one by none, and a call stands at the mutex once, exactly while it asks for it, holds it for the
\* cached session or stores one (send_ntlm_sealed, send_soap_with_retry).
THEOREM TypeCorrect == Spec => []TypeOK
<1>1. Init => Sound
  BY InitIInv, InitOnce, InitTypes DEF Sound
<1>2. Sound /\ [Next]_vars => Sound'
  BY NextIInv, NextOnce, NextTypes DEF Sound
<1>3. Sound => TypeOK
  BY TypesCounted
<1>. QED  BY <1>1, <1>2, <1>3, PTL DEF Spec
=============================================================================
