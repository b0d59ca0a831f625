------------------------------- MODULE McpServer -------------------------------
(* How the server settles one JSON-RPC message: the parser, the protocol       *)
(* metadata rules, the mirrored HTTP headers, the dispatch to a method, what    *)
(* each method answers and the envelope a result leaves in (transport/          *)
(* mcp_headers.go, server/handle.go, meta.go, envelope.go, caching.go,          *)
(* server/methods, jsonrpc/parse.go). The server keeps no state between         *)
(* messages, so everything here is an operator of the message, of its headers   *)
(* and of what the application's handler did; HttpServer and Negotiation run    *)
(* these operators.                                                             *)
(*                                                                              *)
(* A message is a record: what its JSON members hold, a member that the code    *)
(* tells apart only by presence or type being Absent or IllTyped.               *)
EXTENDS Integers, Sequences

CONSTANTS
    Absent, IllTyped,       \* a member that is missing; one of another JSON type
    Twice, Malformed,       \* a header stated twice; one no encoder could write
    Ids,                    \* usable request ids
    MetadataVersions,       \* WithProtocolVersions: accepted in params._meta
    Tools, Resources, Prompts,  \* the registered primitives
    Completable,            \* those of them that complete arguments
    Completions,            \* whether the completions capability is advertised
    CustomMethods,          \* methods an application's own handler serves
    ServerHint, MethodHint, ResourceHint  \* the configured caching advice

Scopes == {"public", "private"}

\* A stand-in for a value is no value a message or a header could state.
ASSUME ValuesAssumption ==
    /\ Absent # IllTyped /\ Twice # Malformed
    /\ {Absent, IllTyped} \cap {Twice, Malformed} = {}
    /\ \A v \in {Absent, IllTyped, Twice, Malformed} :
        v \notin STRING \cup Scopes \cup Int \cup Ids \cup Tools \cup Resources \cup Prompts

Discovery == "2026-07-28"
InitializeVersions == <<"2025-11-25", "2025-06-18">>
SpokenInitialize == {InitializeVersions[i] : i \in DOMAIN InitializeVersions}

\* The list a refused version is answered with, whichever layer refuses it.
SpokenVersions == MetadataVersions \cup SpokenInitialize

DiscoveryMethods == {"server/discover", "subscriptions/listen"}
NamedMethods == {"tools/call", "prompts/get", "resources/read"}
BuiltIn == DiscoveryMethods \cup NamedMethods \cup
    {"initialize", "ping", "tools/list", "resources/list",
     "resources/templates/list", "prompts/list", "completion/complete"}
CacheableMethods ==
    {"server/discover", "tools/list", "prompts/list", "resources/list",
     "resources/templates/list", "resources/read"}
Methods == BuiltIn \cup CustomMethods

ParseError == -32700
InvalidRequest == -32600
MethodNotFound == -32601
InvalidParams == -32602
InternalError == -32603
ResourceNotFound == -32002
HeaderMismatch == -32020
UnsupportedVersion == -32022
NoError == 0

\* What the members of a message may hold, and the headers of a POST.
Messages ==
    [json : BOOLEAN, id : Ids \cup {Absent, IllTyped}, jsonrpc : BOOLEAN,
     method : STRING \cup {IllTyped}, params : {"object", IllTyped},
     version : STRING \cup {Absent, IllTyped},
     capabilities : {"object", Absent, IllTyped},
     target : Tools \cup Resources \cup Prompts \cup STRING \cup {Absent, IllTyped},
     arguments : {"object", "nameless", Absent, IllTyped},
     requested : STRING \cup {Absent, IllTyped},
     retried : BOOLEAN, progress : BOOLEAN, readable : BOOLEAN]
Headers ==
    [declared : BOOLEAN, body : {"whole", "oversized", "cut"},
     version : STRING \cup {Absent, Twice, Malformed},
     method : STRING \cup {Absent, Twice, Malformed},
     name : Tools \cup Resources \cup Prompts \cup STRING \cup {Absent, Twice, Malformed},
     accept : SUBSET {"json", "sse", "any"}]

(* ---------------- what a raw message declares ---------------- *)

\* A request is legacy when it declares neither member of the protocol
\* metadata, unless its method came with that metadata.
LegacyMeta(m) == m.version = Absent /\ m.capabilities = Absent
Legacy(m) == LegacyMeta(m) /\ m.method \notin DiscoveryMethods

\* What a transport can read of a message without handling it.
Inspected(m) == m.json /\ m.id \in Ids /\ m.method # IllTyped
Modern(m) == Inspected(m) /\ ~Legacy(m)

NameOf(m) == IF m.method \in NamedMethods THEN m.target ELSE Absent

(* ---------------- the mirrored headers ---------------- *)

\* Mutant: a header left out always agrees.
AgreesWhenAbsent(value, member, required) ==
    value = Absent \/ (value \notin {Twice, Malformed} /\ member \in {Absent, IllTyped, value})
\* A header agrees with the member it mirrors: absent where it may be, and
\* otherwise readable and equal to what the body states, if it states anything.
HeaderAgrees(value, member, required) ==
    \/ value = Absent /\ ~required
    \/ /\ value \notin {Absent, Twice, Malformed}
       /\ member \in {Absent, IllTyped, value}

MirrorsBody(h, m, required) ==
    /\ HeaderAgrees(h.method, m.method, required)
    /\ HeaderAgrees(h.name, NameOf(m), required /\ m.method \in NamedMethods)

LegacyAdmission(h, m) ==
    IF h.version \in {Twice, Malformed} THEN HeaderMismatch
    ELSE IF h.version \in {Absent} \cup SpokenInitialize
    THEN IF MirrorsBody(h, m, FALSE) THEN NoError ELSE HeaderMismatch
    ELSE IF h.version \in MetadataVersions
    THEN IF MirrorsBody(h, m, TRUE) THEN InvalidParams ELSE HeaderMismatch
    ELSE UnsupportedVersion

\* The error the header validation refuses a POST with, or NoError to hand it
\* on: anything it cannot read as a request is the server's to refuse.
Admission(h, m) ==
    IF ~Inspected(m) THEN NoError
    ELSE IF Legacy(m) THEN LegacyAdmission(h, m)
    ELSE IF HeaderAgrees(h.version, m.version, TRUE) /\ MirrorsBody(h, m, TRUE)
         THEN NoError ELSE HeaderMismatch

(* ---------------- parsing ---------------- *)

\* The error the strict parser answers with, for a request and a notification.
ParseVerdict(m) ==
    IF ~m.json THEN ParseError
    ELSE IF m.id = IllTyped \/ ~m.jsonrpc \/ m.method = IllTyped THEN InvalidRequest
    ELSE IF m.params = IllTyped THEN InvalidParams
    ELSE NoError

IsNotification(m) == m.json /\ m.id = Absent

\* Only a usable id is echoed, and only once the message parsed far enough.
EchoedId(m) == IF m.json /\ m.id \in Ids THEN m.id ELSE Absent

(* ---------------- the metadata and the route ---------------- *)

MetaVerdict(m) ==
    IF Legacy(m) THEN NoError
    ELSE IF {m.version, m.capabilities} \cap {Absent, IllTyped} # {} THEN InvalidParams
    ELSE IF m.version \in MetadataVersions THEN NoError
    ELSE IF m.version \in SpokenInitialize THEN InvalidParams
    ELSE UnsupportedVersion

ArgumentsVerdict(m) ==
    IF m.method \in NamedMethods /\ m.arguments = IllTyped
    THEN InvalidParams ELSE NoError

RouteVerdict(m) ==
    IF m.method = "initialize" THEN IF LegacyMeta(m) THEN NoError ELSE MethodNotFound
    ELSE IF m.method \notin Methods THEN MethodNotFound
    ELSE ArgumentsVerdict(m)

\* The refusal a request meets before its method runs, in the order of handle.
Refusal(m) ==
    IF ParseVerdict(m) # NoError THEN ParseVerdict(m)
    ELSE IF MetaVerdict(m) # NoError THEN MetaVerdict(m)
    ELSE RouteVerdict(m)

(* ---------------- the methods ---------------- *)

\* What an application's handler did: a response, one marked as an error, a
\* validation failure, content with no shape in the result, a JSON-RPC error of
\* its own, or another failure.
Outcomes == {"ok", "error", "invalid", "unshaped", "refuses", "fails"}

Unset == [ttl |-> Absent, scope |-> Absent]
ZeroHint == [ttl |-> 0, scope |-> "private"]
Result(failed, written, type) ==
    [code |-> NoError, failed |-> failed, written |-> written, type |-> type]
Complete(failed) == Result(failed, Unset, "complete")
Failure(code) == [code |-> code, failed |-> TRUE, written |-> Unset, type |-> Absent]

\* A handler's own JSON-RPC error leaves with the code it chose; of any other
\* failure the client is told that there was one.
WithError(outcome, own) == Failure(IF outcome = "refuses" THEN own ELSE InternalError)

\* A method decodes its parameters whole: one member no Go value can hold (a
\* number out of range) leaves it with none, where the rules above read each
\* member alone and lose only that one.
Target(m) == IF m.readable THEN m.target ELSE Absent
Bag(m) == IF m.readable THEN m.arguments ELSE Absent

CallTool(m, outcome, own) ==
    IF Target(m) \notin Tools THEN Failure(InvalidParams)
    ELSE IF outcome \in {"refuses", "fails"} THEN WithError(outcome, own)
    ELSE Complete(outcome # "ok")

GetPrompt(m, outcome, own) ==
    IF Target(m) \notin Prompts THEN Failure(InvalidParams)
    ELSE IF outcome \in {"refuses", "fails"} THEN WithError(outcome, own)
    ELSE Complete(outcome # "ok")

\* The revision decides how a uri that resolves to nothing is reported; a
\* missing uri is a malformed request under each of them. A failure reported as
\* content carries the zero hint, whatever is configured.
UnresolvedCode(m) ==
    IF m.version = Discovery THEN InvalidParams ELSE ResourceNotFound
\* Mutant: a failure reported as content is priced as configured.
ReadWithoutZeroHint(m, outcome, own) ==
    IF Target(m) \in {Absent, IllTyped} THEN Failure(InvalidParams)
    ELSE IF Target(m) \notin Resources THEN Failure(UnresolvedCode(m))
    ELSE IF outcome \in {"refuses", "fails"} THEN WithError(outcome, own)
    ELSE Complete(outcome # "ok")
ReadResource(m, outcome, own) ==
    IF Target(m) \in {Absent, IllTyped} THEN Failure(InvalidParams)
    ELSE IF Target(m) \notin Resources THEN Failure(UnresolvedCode(m))
    ELSE IF outcome \in {"refuses", "fails"} THEN WithError(outcome, own)
    ELSE IF outcome = "ok" THEN Complete(FALSE)
    ELSE Result(TRUE, ZeroHint, "complete")

\* A reference to a primitive that completes nothing is answered empty, and any
\* error of one that completes, its own JSON-RPC error too, is an internal error.
CompletionComplete(m, outcome) ==
    IF ~Completions THEN Failure(MethodNotFound)
    ELSE IF \/ Bag(m) \in {Absent, IllTyped}
            \/ Target(m) \notin Prompts \cup Resources THEN Failure(InvalidParams)
    ELSE IF Target(m) \notin Completable THEN Complete(FALSE)
    ELSE IF Bag(m) = "nameless" THEN Failure(InvalidParams)
    ELSE IF outcome \in {"ok", "error", "unshaped"} THEN Complete(FALSE)
    ELSE Failure(InternalError)

\* The acknowledgement precedes the result; a client gone by then is an error.
Listen(m, outcome) ==
    IF outcome = "fails" THEN Failure(InternalError) ELSE Complete(FALSE)

\* The version initialize settles on: what it asks for, or the newest it offers.
Negotiated(m) ==
    IF m.readable /\ m.requested \in SpokenInitialize THEN m.requested ELSE InitializeVersions[1]

\* An application's own handler prices its result and may suspend the call.
CustomResult(outcome, own, written, type) ==
    IF outcome \in {"refuses", "fails", "invalid"} THEN WithError(outcome, own)
    ELSE Result(FALSE, written, type)

Answer(m, outcome, own, written, type) ==
    IF m.method \in CustomMethods THEN CustomResult(outcome, own, written, type)
    ELSE IF m.method = "tools/call" THEN CallTool(m, outcome, own)
    ELSE IF m.method = "prompts/get" THEN GetPrompt(m, outcome, own)
    ELSE IF m.method = "resources/read" THEN ReadResource(m, outcome, own)
    ELSE IF m.method = "completion/complete" THEN CompletionComplete(m, outcome)
    ELSE IF m.method = "subscriptions/listen" THEN Listen(m, outcome)
    ELSE Complete(FALSE)

(* ---------------- the envelope of a result ---------------- *)

Millisecond == 2    \* a lifetime is counted in half milliseconds
TtlMs(hint) == IF hint.ttl < Millisecond THEN 0 ELSE hint.ttl \div Millisecond
Scope(hint) == IF hint.scope = "public" THEN "public" ELSE "private"
Advice(hint) == [ttl |-> TtlMs(hint), scope |-> Scope(hint)]

\* The most specific advice wins; a request retried with the client's input is
\* answered with the zero hint.
CacheHintFor(m) ==
    IF m.retried THEN ZeroHint
    ELSE IF m.method = "resources/read" /\ m.target \in DOMAIN ResourceHint
         THEN Advice(ResourceHint[m.target])
    ELSE IF m.method \in DOMAIN MethodHint THEN Advice(MethodHint[m.method])
    ELSE IF ServerHint # Absent THEN Advice(ServerHint)
    ELSE ZeroHint

\* A member the handler wrote is kept if the protocol defines its value, and
\* otherwise becomes that of the zero hint.
Priced(written, advised, zero, legal) ==
    IF written = Absent THEN advised ELSE IF legal THEN written ELSE zero
LegalTtl(v) == v \in Nat
LegalScope(v) == v \in Scopes

ApplyCacheHints(m, r) ==
    IF r.type # "complete" \/ m.method \notin CacheableMethods THEN r.written
    ELSE [ttl |-> Priced(r.written.ttl, CacheHintFor(m).ttl, 0, LegalTtl(r.written.ttl)),
          scope |-> Priced(r.written.scope, CacheHintFor(m).scope, "private",
                          LegalScope(r.written.scope))]

\* A success result says whether the call finished and how it may be cached; an
\* error response leaves as the handler built it.
ApplyResultEnvelope(m, r) ==
    IF r.code # NoError THEN r
    ELSE LET typed == [r EXCEPT !.type = IF @ = Absent THEN "complete" ELSE @]
         IN  [typed EXCEPT !.written = ApplyCacheHints(m, typed)]

(* ---------------- the HTTP reply ---------------- *)

StatusFor(code) ==
    IF code = NoError THEN 200
    ELSE IF code = MethodNotFound THEN 404
    ELSE IF code = InternalError THEN 500
    ELSE 400

\* Only a request of the discovery revision is answered with the status its
\* outcome maps to: an older client may not read the body of another.
\* Mutant: an older client too is answered with the status of the outcome.
StatusOfOutcome(m, code) == StatusFor(code)
ReplyStatus(m, code) == IF Modern(m) THEN StatusFor(code) ELSE 200

WantsEventStream(h) == "sse" \in h.accept /\ h.accept \cap {"json", "any"} = {}
AcceptsEventStream(h) == h.accept \cap {"sse", "any"} # {}
Streamable(h, m) ==
    IF Inspected(m) /\ m.method = "subscriptions/listen"
    THEN AcceptsEventStream(h)
    ELSE WantsEventStream(h) /\ m.progress
=============================================================================
