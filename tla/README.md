# Formal models of winrm-rs

TLA+ models of the WinRM client in this repository, the TLC configurations that
check them on small instances, and proofs checked by TLAPS.

## 1. Inventory

| Component (under `src/src/`) | State it keeps | Operations | Hard behaviour |
|---|---|---|---|
| HTTP transport (`transport.rs`, `auth/ntlm.rs`, `error.rs`) | reqwest's connection pool; one cached `NtlmSession` with its host behind a `tokio::sync::Mutex` | `send_soap_with_retry`, `send_soap`, `send_ntlm_sealed`, `send_sealed_body`, `do_handshake` | concurrent calls share pool and cache while NTLM authenticates *connections*; retries; dropped futures; sessions that expire |
| NTLM message security (`ntlm/mod.rs`) | per direction a key, a sequence number, an RC4 keystream | `from_auth`, `seal`, `sign`, `unseal` | both ends must advance alike; a failed `unseal` has consumed keystream |
| NTLM messages, cryptography (`ntlm/messages.rs`, `ntlm/crypto.rs`) | none | build Types 1 and 3, parse Type 2, target info, MIC, key exchange | lengths and offsets of 16 bits, one target info edited in place, both ends derive one key |
| Command execution (`client.rs`, `shell.rs`, `soap/parser.rs`) | the locals of one call; on the server a shell, a command, its unread output | `run_command`, `run_in_shell`, `Shell::run_command`, `*_with_cancel` | requests repeated after a lost answer, timeout, cancellation, output cap, clean-up on every path |
| Shell handle (`shell.rs`, `client.rs`) | `shell_id`, `closed`, resource URI | open, start, receive, send, signal, disconnect, reconnect, close, `Drop` | two futures on one handle, calls in orders the type does not forbid, leaks |
| PSRP messages and framing (`psrp/protocol.rs`) | undecoded bytes, partial messages by object id | `encode_fragments`, `Reassembler::feed`, `decode_message`, CLIXML built and searched as text | interleaved fragments, arbitrary cuts, lost fragments; what is escaped, and names found in data |
| PSRP execution (`psrp/mod.rs`) | locals of one call; on the server a runspace pool and a pipeline | `run_powershell`, `recv_chunk` | grouping of messages, limits on polls, requests repeated after a lost answer, early returns |
| File transfer (`transfer.rs`) | position in the file | `upload_file`, `download_file` | a chunk that fails or runs twice, a shell left open |
| WQL enumeration (`client.rs`) | items, enumeration context | `run_wql` | pulling until the end, the cap, an answer that is lost |
| TLS certificate capture (`tls.rs`) | the last certificate seen, behind a mutex | `verify_server_cert`, `CertHandle::get` | one slot for connections to several hosts |
| CredSSP (`auth/credssp.rs`, `asn1.rs`) | TLS and NTLM state of one handshake | `send_authenticated`; DER of `TSRequest`, SPNEGO, `TSCredentials` | a long fixed sequence of tokens; DER lengths at 127, 255, 65535 bytes |
| Basic, Kerberos, certificate (`auth/*.rs`) | none | one request with one header | which error a status, a fault or a server token becomes |
| SOAP (`soap/*.rs`) | none | request builders, parsing by text search | what is escaped and what is not; tags found by spelling, in data too |
| Configuration (`config.rs`, `builder.rs`, `command.rs`, `lib.rs`) | none | plain data | - |

Everything above the transport calls `send_soap_with_retry` and nothing else;
the transport calls `NtlmSession` through `seal_body` and `unseal_body`, and so
does CredSSP with a session of its own. Shell handle, command execution, file
transfer and WQL build their requests in `soap/envelope.rs` and read the answers
with `soap/parser.rs`. `run_powershell` uses the shell handle for its requests
and the reassembler for what they return. The server is outside the repository.
It is modelled by what the code assumes of it and by the failures the code has
branches for.

What makes each component correct is stated by the properties of its runs
(section 3); `PROJECT.json` lists the hazards they are for, each at its line.

## 2. Modules

| Module | Models | Correspondence |
|---|---|---|
| `NtlmSession` | `NtlmSession` as operators on records | `Seal`/`AfterSeal` are what `seal` returns and leaves behind, `Opens`/`AfterUnseal` the same for `unseal`. A signature is the record of what HMAC-MD5 under RC4 ties together: key, sequence number, keystream offset, unaltered bytes. |
| `InOrderChannel` | abstract specification: bodies accepted are those sealed, in order, once | - |
| `SealedChannel` | a client session, the server's mirror of it, and a wire that loses, repeats, reorders and damages | one action per call of `seal`, `sign`, `unseal` on either side |
| `SealedTransport` | `HttpTransport` with NTLM: pool, cache, mutex, handshake, fallback, retry, cancellation | one step of a call is the code between two `.await`s; `task[t].pc` names the await it is at; `queue` is the mutex (holder first); `conn` holds connections and the server's security context of each; `captured` is the slot of `CertCapturingVerifier`, which the TLS handshake of a new connection fills and that of a resumed session does not |
| `CommandRun` | one run, by `WinrmClient::run_command` or `Shell::run_command` | `pc` is the request the call is at; `Answered`, `Again`, `Failed` are `send_soap_with_retry` around it |
| `SoapEnvelope` | the request builders of `soap/envelope.rs` | an envelope is a header, its texts and values; a text is what it says and how often it was escaped, so a text inserted raw or escaped twice is told apart |
| `SoapParser` | `soap/parser.rs` | a document is a sequence of tags and texts; `Spelt`, `Content`, `StartAndEnd` are the searches, one operator per parse function |
| `DirectAuth` | `auth/basic.rs`, `certificate.rs`, `kerberos.rs`, `WinrmError::from_http_status` | the result a status, a fault and a server token become, in the order the code looks |
| `ShellHandle` | `Shell` and the operations by shell id of `client.rs`, used by several futures | `handle` is the `Shell`, `saved` and `known` are the ids the caller keeps; a call builds its request with `SoapEnvelope`, waits in `wire`, is retried, and is taken with `SoapParser` through `DirectAuth`; `late` is what was given up and may still be served |
| `WqlEnumeration` | `run_wql` | `request`, `attempt`, `items` are its locals, `enums` the enumerations the service keeps |
| `PsrpReassembler` | `encode_fragments` (as the server's fragmenter) and `feed` | one action per way through the loop of `feed`; bytes are counted, blobs are sequences of symbols |
| `PsrpText` | what the messages of `psrp/protocol.rs` say | a document is a sequence of tags and characters; the operators bear the functions' names; the service, external, reads and writes CLIXML as PowerShell does |
| `PsrpRun` | `run_powershell` and `recv_chunk` | one action per outcome of an exchange with `send_soap_with_retry` around it: answered, its answer lost, its request lost, refused; `attempt` counts; a chunk is the sequence of messages decoded from it, built and read with `PsrpText`; `stdout` and `stderr` hold messages, of which `TextOf` makes the text the code appends |
| `FileTransfer` | `upload_file`, `download_file` over the shell they open | `i` is the chunk of the loop, `run` the script that is polled, `others` the bag of scripts that earlier ends left running on the server; a script is what it does to the remote file, in steps |
| `CredSsp` | `CredSspAuth::send_authenticated` on its connection | `step` is the token the exchange is at, `wire` the request or response of `post`; the server is a record of what it can and will do |
| `Octets` | byte strings | a sequence of atoms, each with its size; a slice that cuts an atom is `Torn` |
| `Der` | `asn1.rs` | encoders and decoders of the same names; tags and lengths are bytes whose values count |
| `NtlmMessages` | `ntlm/messages.rs`, `ntlm/crypto.rs` | a message is its fixed fields and the payload that its security buffers, `[len, offset]`, point into; `% 65536` where the code casts to `u16` |
| `NtlmHandshake` | a login by these messages, bare (`auth/ntlm.rs`) or in the DER of CredSSP | one action per message made or read |
| `SealedChannelProofs`, `SealedTransportProofs`, `CommandRunProofs`, `FileTransferProofs`, `CredSspProofs`, `ShellHandleProofs`, `NtlmHandshakeProofs` | theorems about the modules they are named for (`NtlmHandshakeProofs` on `Octets`, `Der` and `NtlmMessages` too) | - |
| `PsrpProofs` | theorems about `PsrpReassembler` and `PsrpRun` | - |

`SealedChannel`, `SealedTransport` and `CredSsp` extend `NtlmSession`: the first
asks what a session promises over any wire, the second how the client manages
sessions, connections and callers, the third what is signed and sealed in which
order while credentials are delegated. `ShellHandle` and `WqlEnumeration` extend
`DirectAuth`, which extends `SoapParser` and `SoapEnvelope`: they compose the
layers of one call, from the text of the request to the meaning of the answer.
`NtlmHandshake` extends `NtlmMessages` and `Der`. Modules `MC*` give constants
values for TLC. Operators called mutants in a comment are deliberate errors; no
specification uses them, they document what each property would catch.

Abstractions. Cryptography is perfect: a hash or a cipher stands for its key and
its input. HTTP statuses are those the code tells apart: 401, success (`200`),
500 with a SOAP fault, and any other (`503`); `DirectAuth` adds 403. In
`SealedTransport` a body is `<<caller, call>>`, so a reply can be attributed.
Keys are numbered per host and the number of a key nobody holds is drawn again.
`CommandRun` numbers output chunks; the records of `PsrpRun` are values in CLIXML; a file is a
sequence of units, and a chunk of it a few of them. In `CredSsp` the inner TLS is
its rounds, and DER and SPNEGO are the fields the client looks for (their bytes
are in `Der`). A certificate is the host it belongs to. A text of a request or a
message is a word with a length, and either holds characters that XML reserves
or does not.

## 3. Runs and bounds

| Run | Question | Instance |
|---|---|---|
| `sealed_channel` | What does a session promise over any wire? | two bodies, lengths 0 and 2, two messages per direction, sequence numbers modulo 4: a message can be overtaken, repeated and damaged before, between and after genuine ones |
| `transport_shared` | What do callers that share one client get, and can a call or the mutex get stuck? | two callers, two hosts, sealing over HTTP and plain over TLS (the two sides of `EncryptionMode::Auto`), one retry, one fault, one expiry, one cancellation, an undecryptable request refused with 401 or another status; three connections are all that two callers and two hosts can use at a time |
| `transport_alone` | Does one caller stay in step, is it authenticated, and does it recover? | one caller, two hosts, both sides of `Auto`, four calls, two faults, one expiry, one cancellation; four calls are needed to fail, fall back, fail again and be observed |
| `transport_binding` | Is a Type 3 bound to the TLS channel it is sent on? No. | one caller, two hosts over TLS, three calls, no fault at all |
| `command_run` | Does a run return all its output, its exit code, and leave nothing behind? | both entry points, up to three chunks around a cap of two (met, exceeded by the last, exceeded before it), one retry, two lost exchanges, one refusal, silence, cancellation |
| `shell_handle` | What does `Ok` mean, who can still close a shell, what reaches a command and its readers? | two futures (interchangeable), Basic, certificate and Kerberos, tags with and without prefix, one retry; budgets of calls: two shells opened, ended and reconnected (`Lives`), a command fed twice (`Feeds`), a command read three times (`Reads`), two commands interrupted while their shell goes away (`Signals`), each with one lost exchange, one refusal or one cancellation; ids for four shells and four commands, more than calls and repetitions can use up, and two that the caller proposes |
| `wql` | Does a query return every instance once, and why does it fail when it does? | four instances in every grouping into answers, one answer of none, no cap and caps of 1 and 3, contexts that stay, change with each answer or hold reserved characters, three namespaces, an instance that holds `EndOfSequence` or `Fault`, one retry, two lost exchanges |
| `psrp_fragments` | Does reassembly return the messages, whole and in order? | messages of three, two and one fragments, headers of two bytes, every cut and mixture, any loss |
| `psrp_run` | Does `run_powershell` run the script it was given, return the whole output and close its shell? | every script of up to two of ten characters: those XML reserves, a control character and its spelling, names of entities; two records, of ten kinds of value or an error, written with and without BOM and empty tags; states whose error names the state; pool limit 2 and pipeline limit 3 for 64 and 256, one retry, two failures (a loss that is repeated, and one more; both of one exchange end the call), one message of another kind, cancellation |
| `file_transfer` | Is the file at the other end the one that was sent, and what is left when it is not? | two transfers in a row over one path, chunks of two units, files of 0 to 4 (chunks absent, incomplete, exact and doubled), scripts that fail at any step, one retry, two losses, scripts left running |
| `credssp` | Who gets the credentials, and does the exchange end? | servers of each version, strictness, key and opinion of the user; TLS of 2 or 10 answers or without end against the limit of 10 rounds, two faulty answers, one break, answers without Content-Length |
| `messages` | Does a server that knows the password take the login, do both ends hold one key, is nothing altered taken? | user names of 4 and of 32768 UTF-16 units, a domain or none; target infos absent, empty, without a time, with a time of four bytes that is none, and of 1 to 45 and about 65160 to 65230 bytes, which carry tokens and the DER around them across 127, 255 and 65535; over HTTP, TLS with and without a captured certificate, CredSSP versions 2 and 6; one flag altered on the way |

Each property is preceded by a comment that states it in words. Deadlock is not
checked: calls end, budgets run out and then nothing is left to do. Only
`TypeOK` of `SealedChannel` and `SealedTransport` are run on their own: in the
other modules the properties mention every variable whose range matters.

A passing run shows its properties on the instance and no more. The question
answered "No" is a disagreement between the code and its own comment, quoted in
`PROJECT.json` under `findings`. Smaller disagreements, and behaviour a reader
might not expect, are exceptions that a property has to make:

- The session cached after the fallback of `send_ntlm_sealed` is at message 0,
  while the server's context has moved on by one. Usually the next request is
  refused with 401 and a handshake repairs it. But if the next request is lost
  before the server opens it, the two agree again in the direction of requests
  only, and then every call is run by the server and returned as an error.
  `HalfInStep` is that state, and `FailuresDoNotStick` has to exclude it; nothing
  else makes a failure stick.
- Callers that share a pool can authenticate one connection in turn, so
  `AuthFailed` does not always mean rejected credentials, as `error.rs:12` says
  it does (`EveryCallReturns` says only that a call returns). A single caller's good
  credentials are reported as rejected exactly when its Type 3 is bound to another
  host's certificate (`BoundElsewhere` in `InStepAlone`).
- A Receive repeated after a lost answer loses that output
  (`GapsOnlyFromLostAnswers`, `OutputIsComplete`), in a download too
  (`DownloadIsFaithful`) and in `run_powershell` (`holes` in `OkIsWholeOutput`), and
  a Pull its instances (`OkIsWholeAnswer`). Each of these returns `Ok` all the same.
- A run that fails, is cancelled or times out may leave its shell (`NothingLeftOnServer`);
  the comment of `shell.rs:136` on Ctrl+C describes no request the code sends.
- At the output cap `run_command` ends the command and closes its shell, `Shell::run_command` neither.
  Both return the `TimedOut` fault of a quiet command as an error (the `?` at
  `client.rs:259` and at `shell.rs:93`); only `recv_chunk` of PSRP asks again.
- `Drop` of a `Shell` only warns; the shell stays on the server until its idle
  timeout, although `shell.rs:22` says it is closed (`ShellsAreHeld`). The same
  becomes of a shell whose Create was lost and repeated, and of one whose `close`
  or `disconnect` failed: both take the handle.
- Not every request names the shell's own URI: `close`, `terminate` and Ctrl+C say `cmd` for a PSRP shell too, against
  `client.rs:90`, and a service that looks at it refuses them
  (`StrictUri` and `SaysCmd` in `ShellHandle`, excepted by `ResultsAreTrue`).
- `send_input` numbers nothing: pieces sent by two futures may overtake each other
  and a repeated Send may arrive twice (`InputArrives` names both).
- `run_powershell` has no cap and leaves its shell open when an exchange fails for good,
  with a fault or when the retries are used up.
- Output over PSRP is found by searching CLIXML, and is not always the text that was
  written: a newline inside a string stays `_x000A_`, an ampersand before `quot;` or `apos;` is
  unescaped twice, what is no string is not unescaped at all, the tag of a float
  is taken for that of a string, an object whose text is `None` or `Default` is
  printed as its members, an empty value prints no line unless it is the first
  (`Misread` in `OkIsWholeOutput`). A script that spells a control character as CLIXML
  does runs with that character (`respelt`).
- The first answer of a query is not held against the cap; every Pull is. A
  Pull always asks in `root/cimv2`, whatever namespace was enumerated. A property
  that is named or valued `EndOfSequence` ends the query early.
- The upload of an empty file sends nothing and returns `Ok(0)`.
- A script that runs on beside an upload (a retried start, an earlier upload that
  failed) may append its chunk, and `upload_file` still returns `Ok`.
- `validate_remote_path` measures a path before its quotes are doubled. A path of 260
  characters with nine quotes or more makes a full chunk's command line too long; `CommandLineFits`
  says which paths do, and none without quotes does.
- A response with an error status whose body breaks off while it is read keeps its status
  (`unwrap_or_default`, `basic.rs:55`) and is not retried, although its exchange was lost
  (`BreakOff` in `ShellHandle` and `WqlEnumeration`).
- CredSSP has no timeout, and reports a SOAP fault as `AuthFailed`.
- A name of 32768 UTF-16 units wraps the 16-bit length of its security buffer and
  the server refuses the login (`GoodLoginIsTaken` excludes it).

## 4. Fairness

`SealedTransport!FairSpec`: weak fairness of each task's own step (the executor
polls a woken task) and of the server's answer to what it is asked (an answer
that never comes ends in `HttpError` by reqwest's timeout, which the budget of
faults covers). No fairness of failures, cancellations or new calls. The mutex is
FIFO, as tokio's is.

`CommandRun!FairSpec`: the call is polled, a Receive is answered when there is
something to answer, tokio's timer fires. Steps that spend the budget of losses
or faults are not fair. Neither the end of the remote program
nor the `TimedOut` fault of a quiet one is assumed, which is why `RunReturns` has
an exception for `run_command`, whose loop has no timeout.

`PsrpRun!FairSpec`: the call is polled and the service hands over what it has
queued. Steps that spend the budget of failures are not fair: no exchange has to fail. The service may
fall silent for ever, also because the message that would end a loop went with a lost answer, and then
`run_powershell` waits for ever.

`FileTransfer!FairSpec`: the call is polled, and a script that does not end is
given up, which is the timeout of `Shell::run_command`. Scripts need not end.

`CredSsp!FairSpec`: the request is polled. Nothing is assumed of the server, and
as this transport has no timeout, `Returns` excepts a server that is silent.

`ShellHandle`, `WqlEnumeration` and `NtlmHandshake` state no liveness: one call of a
handle is one exchange, whose end is the transport's; a query ends when the
service says so or when it has no more answers to give, which `run_wql` does not
enforce without a cap; and a login is a fixed number of messages.

## 5. Proofs

`SealedChannelProofs` proves, for every set of bodies and of lengths and for
every modulus, all six properties of `sealed_channel`: `TypeCorrect`,
`KeystreamUse`, `GenuineMessageOpens`, `DesyncForever`, `RepliesRefine` and
`RequestsRefine`. Assumptions: the modulus is positive, lengths are natural
numbers, and a session seals fewer messages than the modulus
(`MaxMessagesAssumption`; the code counts in a `u32` and never renews a session
for it).

The properties are not inductive. `IInv` adds, for each direction: the keys of
the two ends; that the sender's counters are the number of messages sealed and
the end of the last one; that the `i`th message carries sequence number `i - 1` and
starts where the one before it ended; that the bodies accepted are those of the
first messages; that the receiver's sequence number counts them, and that its
keystream offset is never behind where the next one starts. Hence a damaged
message can only push the receiver ahead (`DesyncForever`), and one that opens
carries both the expected number and the expected offset, so it is the next
genuine one (the refinements). The proof has one step for the sender and one for
the receiver of a direction, and the two directions share it.

The two other users of `NtlmSession` rest on the same lemmas on one session, which stand in
a section of each: what one end seals the other opens, and after it the two are mirror images
again (`PeerOpens`, for any session, body and length).

`SealedTransportProofs` proves five properties, four of them of callers that share a transport,
for every number of callers, hosts, connections, calls, retries, faults and
expiries, from `TransportAssumption` (which says, besides the bounds, that
`None` is neither a caller, a host, a connection nor a body) and, for the types, from
`KeysAssumption` (callers and connections are finite sets, and `MaxKeys` is greater than the
number of sessions they and the cache can hold).

- `SealedForHost`: what is sealed was sealed for the host it goes to. `IInv` adds
  that a task which waits has a connection of its own, to its own host
  (`OwnConns`); that a challenge bears a key of the host that sent it
  (`ChallengeOfHost`); that the session a task carries, and the cached one, was
  negotiated with the host noted beside it (`Shapes`, `CacheSound`); that over TLS
  whoever has, or had, a connection has shown the verifier a certificate (`Seen`);
  and that nobody else changes the cache while the holder of the mutex waits with the
  cached session (`Locked`), which is what makes the mutex held across the awaits of
  `send_ntlm_sealed` necessary.
- `RunsOncePerAttempt`: a body runs at most once per attempt. `Once` counts the runs of
  a call against its attempts at each await: while the body has not been run in
  this attempt, or was refused with 401, they are fewer than the attempts begun; and a request
  carries the body of the task that owns the connection (`Carries`).
- `OkIsTheReply`: Ok carries the reply to the caller's own request. `Own` says that
  the request a task waits for bears its own body, plain or sealed, that an answer
  of status 200 is the reply to it and was run, but for the answer to a blank Type 3
  (`TaskOwn`), and that a task about to store its session holds such a reply already.
  That Ok without retries means one run follows with `Once`.

A step of a task is one of few shapes: it sends on a connection (`PostKeeps`,
`PostOnce`), lets its connection go (`LetGoKeeps`, `LetGoOnce`), or leaves it
alone; the server's answers share `ConnKeeps`, `RespondOnce` and `RespondOwn`. The lemmas on
shapes carry the invariant, and the lemmas on actions say which shape an action has.

- `TypeCorrect`: `TypeOK`, with the exclusive use of connections and of the mutex. `Types` adds
  that an answer is awaited as a request is (`AnswersAwaited`), so that a connection
  in use has exactly one user; that nobody stands in the queue twice, and who does is who asks
  (`InQueue`), for which `RemovesOne` says what leaving the queue does to the places of the
  others; that whatever is sealed has a length (`ProperRequest`, `ProperResponse`), by which the
  keystreams of both ends move; and that a task waiting with the cached session finds
  one (`CacheUsed`). That the server always draws a key of the finite set is a pigeonhole
  argument over the sessions held (`KeysSuffice`).

The fifth is of one caller:

- `OneCallerStaysInStep` proves `InStepAlone` under `Tasks = {t}`, for any number of hosts,
  connections, calls and retries. It does not hold of two: the pool may then hand one
  of them the connection on which the other was challenged (the run
  `transport_shared` has what is left). `AloneInv` says that what was spent of the budget is
  counted (`SpentIsCounted`), so that "nothing happened" cannot come back once it is lost, and
  that until then `InStep` holds: a host has one connection at most, as the caller's requests
  follow each other and each body is read to its end before the next (`Pool`); the cached
  session is the mirror image of the context on its host's idle connection
  (`CacheInStep`); and each await finds what it relies on, the challenged context when Type 3 is sent,
  the open one when the sealed body is, a request or an answer that opens in between
  (`Stage`, with `Type1Exchange`, `Type3Exchange`, `SealedExchange`). A step
  that closed a body unread, or left the cache behind, breaks `Pool` or `CacheInStep`.

`PsrpProofs` proves `MessagesAreWhole`: `NeverGarbled` for any set of
messages, size of fragments and of headers, mixture, cutting and loss, from
`PsrpAssumption`. `IInv` says that the wire holds fragments that were sent
(`Arrivals`), and that what is collected of a message whose start was seen is the
part its first `next` fragments carry (`Collected`). A fragment is added only if its
id is `next`, so the part grows by the right slice (`PrefixGrows`); the last
fragment completes the message, as rounding up leaves no remainder
(`FragmentsSuffice`).

`MessagesKeepOrder` proves `ReturnsInOrder` there. `InOrder` adds to `IInv` where things are on the
wire: the fragments of a message stand in their order and messages end in the order of
their last fragments (`Order`); every position begins at a byte, the sum of the sizes before it
(`Offsets`), which says how many whole fragments the buffered bytes hold; between
two calls of `feed` there is none (`Resting`); and as long as nothing was lost, every fragment
sent is on the wire (`Arrived`), what is kept of a message is what its taken fragments carry,
nothing once the last is taken (`Abreast`), and the messages handed over are those whose
last fragment was taken (`Handed`). `PsrpAssumption` says of the data that whether a
message decodes depends on its bytes alone, and that `None` is no entry of the table.

It also proves `ShellIsClosed` of `PsrpRun` (there `Run`), that a run which came to its own end has
closed its shell unless the Delete was lost or refused, for any limits on polls, number of
retries and any service. `IInv` adds that there
is no result before a loop is left, and that the closing step is reached only
with a result of the call's own (`ResultFromLoop`), so an early return is always
an error or a cancellation.

`CredSspProofs` proves `CredentialsNeedProof` for any limit of rounds, any
number of TLS answers, faults and breaks, and any modulus. `IInv` says that an
answer on the wire that holds the expected hash comes from a server that knows
the user and holds the key of the inner channel, and that the step "credentials"
is reached only with such a server: the first is what the server's steps keep,
the second what the comparison in `send_authenticated` makes of it. It rests on
the model of the server (a hash is made by one that knows both keys) and on
nothing about the messages exchanged before.

`LoginsSucceed` proves `GoodLoginSucceeds`, for any limit of rounds and any modulus.
First the session: by `PeerOpens` the MIC,
`pubKeyAuth`, the server's proof and the credentials, sealed in the order of the
code, are opened in that order (`ServerFollows`, `ClientFollows`, `CredentialsOpen`). Then
the exchange: `OnTheWay` says, for each step and as long as nothing went wrong, what is on
the connection and where both ends of the session stand; during the inner TLS it
ties the client's rounds to the server's answers (`InTls`), which bounds them by the number the
server needs. `Run` says that the body is run at most once and only in the last
exchange, `Framed` that without an answer of unknown length nothing is left unread. A step of
the client ends the attempt (`EndsEarly`) or goes on (`GoesOn`), a step of the server
answers (`Answers`); the lemmas on actions say which.

`FileTransferProofs` proves the three safety properties of `file_transfer` that depend on its steps
(`UploadsAreFaithful`, `DownloadsAreFaithful`, `NothingIsLeft`) for any sizes of
files and chunks, number of transfers, retries and losses, from `TransferAssumption` and
`AbsentAssumption` (a missing file is not a sequence of units). `IInv` says what the
transfer knows: while an upload is alone, the remote file is exactly the chunks
counted by `i`, or what was there before the first (`AsSent`), and while a script runs the file is a
beginning of the local one (`Uploading`); a failed upload leaves one script
running, whose chunk is the next (`LastScriptRuns`), so that even what that
script does later leaves a beginning of the file; a transfer that is alone and has not
failed has no script beside it (`Solitude`); without a lost answer there is nothing of the
transfer on the server besides the script it polls (`Tidy`).

`NtlmHandshakeProofs` proves the three properties of `messages` (`BothSidesAlwaysAgree`,
`GoodLoginIsAlwaysTaken`, `TakenIsNeverAltered`) for any persons, texts and target infos and any number of
altered messages, in the order in which a login goes through the layers:

- Octets. A slice at the end of one part, as long as the next, is that part (`SliceMiddle`), for a size is
  a sum over atoms whose proofs go by induction: `LeastNumber` and `Unfold`ing of the recursive function
  in `Total`. The prover accepts such functions, but no `RECURSIVE` operator.
- DER. `LengthsRoundTrip`: what `encode_length` writes for a length below 2^24, `decode_length` reads
  back, whatever bytes follow, and it takes exactly these bytes; one lemma per form (`OneByte` to `FourBytes`),
  over `Digits`. The bound is the code's: the fourth form keeps three bytes. On it rest the elements
  (`find_context_tag` finds the first with the tag, in a row that its induction walks), and on these
  `RequestDecoded`, `CredentialsDecoded` and the tokens of SPNEGO (`InitDecoded`, `AnswerDecoded`, `ResponseDecoded`).
- NTLM. `ChallengeParsed`; what is read of a list of pairs is the last value before its end (`PairsRead`), so the
  pairs the client appends count, and those behind the end would not; the parts of a Type 3 lie
  where its buffers say (`ThirdRead`); `KeyIs`: the key found there is the client's, if the sum is the client's too, and
  `SumsEqual`: two sums are equal only if the flags of all three messages are.
- The login. `IInv` says, for the step at which the login is, which message is under way and with which flags,
  and that nothing was altered exactly if these are the flags that were sent (`FirstIsSent`, `SecondIsSent`,
  `ThirdIsSent`); what the client has read is what the server sent (`Known`); and the three properties as far as a step needs
  them (`Agreed`, `Good`, `Credited`). There is one lemma per action, `NegotiateHolds` to `AlterHolds`.

They rest on assumptions, which TLC evaluates on the run. `TextsAssumption` and
`LengthsAssumption`: texts have lengths, at most `LongestText`, so that credentials made of
three of them have lengths of three bytes. `HandshakeAssumption`: the name of the service is a text that
fits its field, and a password is not the one the server compares with when it does not
know it. `InfosAssumption`: a target info ends with its end, is
made of pairs that have a head of four bytes, does not itself say that there is a MIC (only a
client does), and leaves room in 16 bits for the response that repeats it. Beyond that room the code cuts the length off, as it
does with a name, and no server takes the login. One hypothesis TLC cannot evaluate, `NoneIsApart`: `None` is no
number, no function and not the empty text. TLC's model value is that; in the logic it has to be said.

`CommandRunProofs` proves the four safety properties of `command_run`
(`RunsOncePerLoss`, `OutputIsWhole`, `ResultIsTrue`, `NothingLeft`) for every output
of the command, cap, number of retries, losses and refusals, from
`CommandAssumption` alone. `IInv` adds that every command on the server but one
was paid for by a lost answer (`RunsCounted`); that while the call runs there is one
shell, or none after a Create that failed (`OneShell`); that output stays within
the cap until the call decides to stop the command (`CapHeld`); that an exit code
is held exactly when the command was seen to end (`ExitKnown`); and that what the
client holds is what its Receives took from the server, less what went with lost
answers (`OutputKnown`). A retry repeats a request whose effect the server may
already have had, so each request has a lemma on its effect (`StartKeeps`,
`TakeKeeps`, `DeleteKeeps`, ...) that the answered, the lost and the refused case share.

`ShellHandleProofs` proves three properties of `shell_handle`, for any number of futures, shells,
commands, retries, losses, refusals and cancellations, each authentication, prefix of tags
and choice of ids, and any texts of the configuration:

- `ShellsAreKept`: `ShellsAreHeld`, that no shell is left on the service which the caller can
  neither close nor has lost in one of the ways named;
- `ResultsCanBeTrusted`: `ResultsAreTrue`, that Ok means the service did it, and that the service
  has a fault for an operation only for a reason;
- `InputAlwaysArrives`: `InputArrives`, that a command has every piece of input reported as sent, with
  its end; no more copies of a piece than exchanges it may have, and just one when none was lost; and pieces of
  calls that do not overlap in the order of the calls.

They rest on `ShellAssumption`, on `IdsAssumption` (ids are UUIDs: no two are the same, none
holds a character that XML reserves, and the caller proposes as many as it opens shells),
`NoneAssumption` (`None` stands for nothing else) and `TextsAssumption` (nobody
escaped the configuration before the client does); the third also on `CommandIdsAssumption` (ids of commands are
UUIDs too: none is the id of a shell, and none is empty, as the id of a Send to the shell itself). The
first two follow from one invariant, `IInv`, which was
checked on the instance of `shell_handle` before it was proved. Its parts, and why they are needed:

- `Sound`: no two shells of the service have an id in common, so that a request reaches
  the shell it names (`AddressedShell`) and no other.
- `Placed`, `Told`: every call, also one given up that may be served late, is about a shell and a
  command that the service has, under the URI the handle says; so is what the caller holds. Without it
  a fault could come of a handle that was wrong from the start.
- `OneHandle`: there is no handle while one is being opened, so none is overwritten.
- `Numbered`, `Once`: every creation has a number of its own, and one of which no exchange was lost has made
  one shell at most. A creation that was lost and repeated may have made two, of which the caller learns one: the
  other is the one `ShellsAreHeld` excuses.
- `Truthful`: an answer on its way says what is so (`Verdict`): if `send_soap` makes Ok of it, then
  what was asked is done (`Fulfilled`), and the id the parsers find is that of the shell or the command it
  was made for. It stays so whatever others do meanwhile, as the service forgets nothing and
  brings no deleted shell back (`GrowthKeeps`, `ServedGrows`).

The proof goes the way of a call. An id written by `xml_escape` into an answer is the id
`parse_shell_id` and `parse_command_id` read from it (`AnswerIsRead`), and `check_soap_fault` finds a fault in
the service's faults and in nothing else that it answers a creation with (`FaultIsFound`, `AnswerIsNoFault`); every
request is readable and names the shell, the URI and the command of its call (`CreationRequests`,
`LifeRequest`, `StartRequest`, `ReceiveRequest`, `SendRequest`, `SignalRequestReads`); what the service then does is
what was asked, or it refuses for a reason (`ServedIs`); one lemma per action says that it keeps
`IInv` (`CreateKeeps` to `CancelKeeps`).

`InputArrives` needs `IInv` and a second invariant, `FInv`, checked on the same instance with
three pieces sent before it was proved. What was sent is history, and the calls that sent it go, so `FInv`
ties the two together:

- `Pieces`: every Send under way or given up is one piece of the history, and no two under way are the same.
- `Counts`: a command has at most as many copies of a piece as exchanges of it are over (`Spent`): those its call
  has behind it, or all it may have once it returned, less those given up which may still be served. Serving
  one late therefore adds a copy and a spent exchange at once, and the exchange that a retry
  begins counts only when it is over. `InputArrives` alone is not inductive: it does not see the exchanges still to come.
- `Delivered`: an answer that `send_soap` makes Ok of means that the piece is in the input, also while the answer
  is on its way, and so does a result already reported.
- `Inputs`: a command has taken only what was sent to it, and its end only from a call that said so.
- `Alone`, `After`: a call that began with no other under way has no older one beside it, so it stands after all
  those that returned with no exchange lost.

A step is one of few kinds for the input: it takes a piece (`InputTaken`) or leaves the input as it is
(`InputsKept`), and one lemma per action says which and that `FInv` is kept (`SendFeeds` to
`ServeLateFeeds`; `NextFeeds` joins them with the steps that send nothing).

## 6. What is only model-checked

- `OutputIsComplete` of `ShellHandle`: it concatenates pieces with a fold, which is recursion over data.
- `OkIsWholeOutput` of `PsrpRun` and both properties of `WqlEnumeration`: what a search finds in a document made of
  any number of records.
- `CommandLineFits` of `FileTransfer`: arithmetic on the constants of `transfer.rs`, which TLC evaluates
  on the program's own numbers, for every length of path and number of quotes.
- All liveness (`EveryCallReturns`, `FailuresDoNotStick`, `Returns` and their like). Liveness under fairness
  and `ENABLED` are outside the prover's reach.

## 7. Not modelled, and why

- Configuration (`config.rs`, `builder.rs`, `command.rs`, `lib.rs`): data. The fields
  a behaviour depends on are CONSTANTS of the modules that read them; endpoint
  construction and the building of the reqwest client are left out.
- The wording of errors and faults, logging, and what a `Debug` prints.
- MD4, MD5, HMAC and RC4 as computations; the tests have the published vectors.
- Certificate verification, the bytes of the inner TLS, Kerberos tokens: they are
  those of rustls and of the GSSAPI library.
- The CLIXML of a command's stderr beyond its marker and its error tags; types,
  references and members of PSRP's objects that the code does not look at.
- The 2^32nd message of a session, whose counter overflows (`ntlm/mod.rs:144`):
  excluded by `MaxMessagesAssumption`.
- A service that never ends a query or a pipeline: without a cap `run_wql` pulls as
  long as it is given contexts, and output of `run_powershell` is collected
  without a limit. The models' budgets end them.

## 8. Plan

In order of weight.

1. `PsrpRun` over `PsrpReassembler`: the composition of both, in one run.
2. `WqlEnumeration`: the part of `ErrorsHaveAReason` about the cap and lost exchanges, which needs no document.
