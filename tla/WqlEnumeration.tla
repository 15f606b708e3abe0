---------------------------- MODULE WqlEnumeration ----------------------------
(***************************************************************************)
(* WinrmClient::run_wql (src/client.rs): a query is enumerated and what the   *)
(* first answer did not hold is pulled, answer by answer, with the context of *)
(* the answer before.  The requests are those of SoapEnvelope, the answers    *)
(* are taken by SoapParser.  The service, external, has an enumeration for    *)
(* every Enumerate it serves; the client never releases one.                  *)
(***************************************************************************)
EXTENDS DirectAuth

LOCAL INSTANCE SequencesExt

CONSTANTS Namespaces,  \* namespaces a query may name; None is the default
          Contexts,    \* ways the service may name contexts: per enumeration and answer
          Names,       \* the instances the query finds, by name
          Oddities,    \* what the second instance may hold: "nothing", "EndOfSequence", "Fault"
          MaxRetries,  \* WinrmConfig::max_retries
          Caps,        \* values of WinrmConfig::max_output_bytes, in instances; None is no cap
          MaxEmpty,    \* bound: answers without an instance
          MaxLosses    \* bound: lost exchanges

ASSUME WqlAssumption ==
    /\ MaxRetries \in Nat /\ MaxEmpty \in Nat /\ MaxLosses \in Nat
    /\ \A n \in DOMAIN Names : Names[n] \in STRING

VARIABLES config,   \* the query's namespace and the client's cap; how the service behaves
          request,  \* the request under way
          attempt,
          wire,     \* "asked", "lost" or an answer, by phase
          items,    \* what run_wql holds
          answers,  \* history: how many answers it has taken
          result,   \* "none" until it returns
          enums,    \* service: per enumeration, how many instances and answers it gave, if open
          empties, losses,
          lostPull  \* history: whether the answer of a Pull was lost

vars == <<config, request, attempt, wire, items, answers, result, enums, empties, losses, lostPull>>

Query == Plain("WHERE a < b")
Asked == [phase |-> "asked"]
Lost  == [phase |-> "lost"]

Init ==
    /\ config \in [namespace : Namespaces, cap : Caps, contexts : Contexts, odd : Oddities,
                   strict : BOOLEAN]
    /\ request = EnumerateWqlRequest(Query, config.namespace)
    /\ attempt = 0 /\ wire = Asked
    /\ items = <<>> /\ answers = 0 /\ result = "none"
    /\ enums = <<>> /\ empties = 0 /\ losses = 0 /\ lostPull = FALSE

-----------------------------------------------------------------------------
(* The service.                                                              *)

Instance(n) ==
    <<OpenWith("p", "Instance", <<<<"name", Names[n]>>>>)>>
    \o (CASE n # 2 \/ config.odd = "nothing" -> <<>>
          [] n = 2 /\ config.odd = "EndOfSequence" -> Element("p", "Text", <<Text("word", config.odd)>>)
          [] n = 2 /\ config.odd = "Fault" -> Element("p", "Fault", <<Text("word", "no")>>))
    \o <<Close("p", "Instance")>>

\* Instances m + 1 to n in order, as they stand in an answer.
Instances(m, n) == FlattenSeq([i \in 1 .. n - m |-> Instance(m + i)])

Answer(doc) == [phase |-> "answered", status |-> 200, token |-> None, doc |-> doc]
Refusal == [Answer(Element("s", "Fault", Element("s", "Code", Element("s", "Value",
                                                         <<Text("word", "s:Sender")>>))))
            EXCEPT !.status = 500]

\* Enumeration e goes on to its instance n, and ends with the last.
Advanced(e, old, n) ==
    LET over == n = Len(Names)
    IN [enum |-> [given |-> n, answers |-> old.answers + 1, open |-> ~over],
        wire |-> Answer(
            (IF over THEN <<Empty("w", "EndOfSequence", <<>>)>>
             ELSE Element("n", "EnumerationContext",
                    <<Text("id", XmlEscape(Plain(config.contexts[e][old.answers + 1])))>>))
            \o Element("w", "Items", Instances(old.given, n)))]

\* An answer may hold any number of the instances left, at times none.
Progress(given) ==
    {n \in given .. Len(Names) : n = given => empties < MaxEmpty}
Counted(given, n) == empties' = IF n = given THEN empties + 1 ELSE empties

\* A strict service wants a Pull to name the resource of its Enumerate.
Continued(context) ==
    {e \in DOMAIN enums : /\ enums[e].open
                          /\ <<Plain(config.contexts[e][enums[e].answers])>> = Read(context)
                          /\ config.strict => request.header.uri = WmiUri(config.namespace)}

Serve ==
    /\ wire = Asked
    /\ \/ /\ Readable(request) /\ request.header.action = "Enumerate"
          /\ Read(request.texts.query) = <<Query>>
          /\ \E n \in Progress(0) :
                LET a == Advanced(Len(enums) + 1, [given |-> 0, answers |-> 0], n)
                IN enums' = Append(enums, a.enum) /\ wire' = a.wire /\ Counted(0, n)
       \/ /\ Readable(request) /\ request.header.action = "Pull"
          /\ \E e \in Continued(request.texts.context) : \E n \in Progress(enums[e].given) :
                LET a == Advanced(e, enums[e], n)
                IN enums' = [enums EXCEPT ![e] = a.enum] /\ wire' = a.wire
                   /\ Counted(enums[e].given, n)
       \/ /\ \/ ~Readable(request)
             \/ request.header.action = "Enumerate" /\ Read(request.texts.query) # <<Query>>
             \/ request.header.action = "Pull" /\ Continued(request.texts.context) = {}
          /\ wire' = Refusal /\ UNCHANGED <<enums, empties>>
    /\ UNCHANGED <<config, request, attempt, items, answers, result, losses, lostPull>>

\* The exchange breaks before or after the service has served it.
Lose ==
    /\ wire.phase \in {"asked", "answered"} /\ losses < MaxLosses
    /\ losses' = losses + 1 /\ wire' = Lost
    /\ lostPull' = (lostPull \/ (request.header.action = "Pull" /\ wire # Asked))
    /\ UNCHANGED <<config, request, attempt, items, answers, result, enums, empties>>

\* The body of an error response breaks off, which leaves its status.
BreakOff ==
    /\ wire.phase = "answered" /\ ~Successful(wire.status) /\ HasFault(wire.doc)
    /\ losses < MaxLosses
    /\ losses' = losses + 1 /\ wire' = [wire EXCEPT !.doc = <<>>]
    /\ UNCHANGED <<config, request, attempt, items, answers, result, enums, empties, lostPull>>

-----------------------------------------------------------------------------
(* The client.                                                               *)

\* send_soap_with_retry
Retry ==
    /\ result = "none" /\ wire = Lost /\ attempt < MaxRetries
    /\ attempt' = attempt + 1 /\ wire' = Asked
    /\ UNCHANGED <<config, request, items, answers, result, enums, empties, losses, lostPull>>

Return(r) ==
    /\ result' = r
    /\ wire' = [phase |-> "none"]
    /\ UNCHANGED <<config, request, attempt, enums, empties, losses, lostPull>>

Fail ==
    /\ result = "none"
    /\ \/ wire = Lost /\ attempt = MaxRetries /\ Return("http")
       \/ /\ wire.phase = "answered" /\ SendSoap("basic", wire) # "ok"
          /\ Return(SendSoap("basic", wire))
    /\ UNCHANGED <<items, answers>>

Size(xml) == Len(SelectSeq(xml, LAMBDA t : t = Close("p", "Instance")))

\* The cap is looked at after a Pull only.
OverCap(xml, held) == config.cap # None /\ Size(xml) > config.cap

Take ==
    /\ result = "none" /\ wire.phase = "answered" /\ SendSoap("basic", wire) = "ok"
    /\ LET parsed == ParseEnumerateResponse(wire.doc)
           more   == items \o parsed.items
       IN /\ items' = more /\ answers' = answers + 1
          /\ IF answers > 0 /\ OverCap(more, items) THEN Return("transfer")
             ELSE IF parsed.context = None THEN Return("ok")
             ELSE /\ request' = PullRequest(parsed.context)
                  /\ attempt' = 0 /\ wire' = Asked
                  /\ UNCHANGED <<config, result, enums, empties, losses, lostPull>>

Next == Serve \/ Lose \/ BreakOff \/ Retry \/ Fail \/ Take

Spec == Init /\ [][Next]_vars

-----------------------------------------------------------------------------
(* Properties.                                                               *)

Held == {n \in DOMAIN Names : \E i \in DOMAIN items : items[i].attrs = <<<<"name", Names[n]>>>>}

\* What run_wql returns is the answers to the query, each once and in order.
\* It may lack instances only when the answer of a Pull was lost, for the
\* repeated Pull goes on where the lost one ended, or when an instance holds
\* the word that says the sequence is over.  It is within the cap, unless it is
\* the first answer, which is never held against the cap (run_wql,
\* parse_enumerate_response, send_soap_with_retry, WinrmConfig::max_output_bytes).
OkIsWholeAnswer ==
    result = "ok" =>
        /\ items = FlattenSeq([i \in DOMAIN Names |-> IF i \in Held THEN Instance(i) ELSE <<>>])
        /\ Held = DOMAIN Names \/ lostPull \/ (config.odd = "EndOfSequence" /\ 2 \in Held)
        /\ config.cap # None /\ answers > 1 => Size(items) <= config.cap

\* A query fails only for a reason: of the client's making when the service
\* wants the namespace in a Pull, when the namespace or a context holds
\* reserved characters, or when an instance has a property of the name Fault;
\* otherwise because an answer was lost, or more than the cap was received
\* (run_wql, enumerate_wql_request, pull_request, check_soap_fault).
ErrorsHaveAReason ==
    /\ result = "soap" =>
          \/ config.namespace \in Special
          \/ config.odd = "Fault" \/ lostPull
          \/ answers > 0 /\ config.strict /\ WmiUri(config.namespace) # WMI
          \/ answers > 0 /\ \E e \in DOMAIN enums : config.contexts[e][answers] \in Special
    /\ result = "http" => losses > MaxRetries
    /\ result = "status" => losses > 0
    /\ result = "transfer" => config.cap # None /\ Size(items) > config.cap

=============================================================================
