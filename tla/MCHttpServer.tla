----------------------------- MODULE MCHttpServer ------------------------------
(* The POSTs HttpServer is checked with: for each method a well-formed message  *)
(* of each era, the same with one member deviating, and each of them under the  *)
(* headers a client would state and under the same with one header deviating.   *)
EXTENDS HttpServer, TLC

CONSTANTS
    a, b, c, d,     \* the instances, of which a and b are alike
    Shared, Short   \* the supplied keys

Base(method, target, arguments) ==
    [json |-> TRUE, id |-> "id", jsonrpc |-> TRUE, method |-> method,
     params |-> "object", version |-> Absent, capabilities |-> Absent,
     target |-> target, arguments |-> arguments, requested |-> Absent,
     retried |-> FALSE, progress |-> FALSE, readable |-> TRUE]
Discovering(m) == [m EXCEPT !.version = Discovery, !.capabilities = "object"]

LegacyMessages ==
    {[Base("initialize", Absent, Absent) EXCEPT !.requested = "2025-06-18"],
     Base("tools/call", "tool", "object"), Base("resources/read", "page", "object"),
     Base("tools/list", Absent, Absent), Base("subscriptions/listen", Absent, Absent)}
ModernMessages == {Discovering(m) : m \in
    {Base("server/discover", Absent, Absent), Base("tools/list", Absent, Absent),
     Base("tools/call", "tool", "object"), Base("prompts/get", "prompt", "object"),
     Base("resources/read", "page", "object"), Base("resources/read", "hidden", "object"),
     Base("completion/complete", "prompt", "object"),
     Base("subscriptions/listen", Absent, Absent), Base("custom/list", Absent, Absent)}}

\* One member of a message deviates.
Deviations(m) ==
    {[m EXCEPT !.json = FALSE], [m EXCEPT !.jsonrpc = FALSE],
     [m EXCEPT !.params = IllTyped], [m EXCEPT !.readable = FALSE],
     [m EXCEPT !.retried = TRUE], [m EXCEPT !.progress = TRUE],
     [m EXCEPT !.version = Absent], [m EXCEPT !.capabilities = Absent],
     [m EXCEPT !.capabilities = "object"],
     [m EXCEPT !.version = Absent, !.capabilities = Absent]}
    \cup {[m EXCEPT !.id = v] : v \in {Absent, IllTyped}}
    \cup {[m EXCEPT !.method = v] : v \in {IllTyped, "no/such", "initialize"}}
    \cup {[m EXCEPT !.version = v] : v \in {IllTyped, "2025-06-18", "1999-01-01"}}
    \cup {[m EXCEPT !.target = v] : v \in {Absent, IllTyped, "unknown", "prompt"}}
    \cup {[m EXCEPT !.arguments = v] : v \in {Absent, IllTyped, "nameless"}}

\* The headers a client of the message's era states, and one of them deviating.
\* A member of another type has no spelling as a header.
Spelled(member) == IF member = IllTyped THEN Absent ELSE member
Stated(m) ==
    [declared |-> TRUE, body |-> "whole", version |-> Spelled(m.version),
     method |-> Spelled(m.method), name |-> Spelled(NameOf(m)), accept |-> {"json", "sse"}]
DeviatingHeaders(h) ==
    {[h EXCEPT !.declared = FALSE], [h EXCEPT !.body = "oversized"],
     [h EXCEPT !.body = "cut"], [h EXCEPT !.accept = {"sse"}],
     [h EXCEPT !.accept = {"any"}], [h EXCEPT !.accept = {"json"}],
     [h EXCEPT !.method = Absent, !.name = Absent]}
    \cup {[h EXCEPT !.version = v] :
            v \in {Absent, Twice, Malformed, Discovery, "2025-06-18", "1999-01-01"}}
    \cup {[h EXCEPT !.method = v] : v \in {Absent, Twice, Malformed, "tools/call", "tools/list"}}
    \cup {[h EXCEPT !.name = v] : v \in {Absent, Twice, Malformed, "tool", "page"}}

Sent(m, hs) == {[h |-> h, m |-> m] : h \in hs}
Wholly(m) == Sent(m, {Stated(m)} \cup DeviatingHeaders(Stated(m)))
Streaming(m) == {[h |-> [Stated(n) EXCEPT !.accept = {"sse"}], m |-> n] :
                    n \in {[m EXCEPT !.progress = TRUE],
                           [m EXCEPT !.progress = TRUE, !.readable = FALSE]}}

EveryPost ==
    UNION {Wholly(m) \cup Streaming(m) \cup
           UNION {Sent(n, {Stated(n), Stated(m)}) : n \in Deviations(m)} :
                m \in LegacyMessages \cup ModernMessages}
MCPosts == [client \in Clients |-> EveryPost]
MCSupplied == (a :> Shared @@ b :> Shared @@ c :> Short @@ d :> Shared)
Alike == Permutations({a, b})
MCWrites ==
    {[written |-> w, type |-> t] :
        w \in {Unset, [ttl |-> 5, scope |-> "public"], [ttl |-> -1, scope |-> IllTyped]},
        t \in {Absent, "input_required"}}
MCOwnCodes == {MethodNotFound}
MCMethodHint == ("server/discover" :> [ttl |-> 3, scope |-> "public"])
MCResourceHint == ("page" :> [ttl |-> 5, scope |-> "public"])
MCServerHint == [ttl |-> 1, scope |-> "private"]
================================================================================
