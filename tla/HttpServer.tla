------------------------------ MODULE HttpServer -------------------------------
(* The streamable HTTP endpoint (transport/http.go, mcp_headers.go) and the     *)
(* stdio loop (transport/stdio.go) over the server core of McpServer: several   *)
(* instances of one deployment serve POSTs concurrently, or lines one after the *)
(* other; a handler may stream frames before its reply, and an instance         *)
(* restarts, losing what it was serving and, unless the application supplied    *)
(* one, the key under which it vouches for session ids (server/session.go). A   *)
(* client holds every id it was given and may send any of them, or one the      *)
(* server never issued, to any instance; over stdio the process holds the one.  *)
EXTENDS McpServer, FiniteSets, Naturals

CONSTANTS
    Clients, Instances,
    Piped,              \* the instances that serve lines over stdio
    Posts,              \* what each client may send: a set of [h, m] records
    Writes,             \* what a custom handler may write on its result
    OwnCodes,           \* the codes of the JSON-RPC errors handlers return
    Supplied,           \* the session key supplied to an instance, or Absent
    ShortKeys,          \* supplied keys below MinSessionKeySize
    NoKey,              \* what a failing random source leaves an instance with
    Forged,             \* a session id no instance issued
    MaxDraws, MaxSessions, MaxFrames    \* bounds

ASSUME EndpointAssumption ==
    /\ \A c \in Clients : Posts[c] \subseteq [h : Headers, m : Messages]
    /\ Piped \subseteq Instances
    /\ OwnCodes \subseteq Int \ {NoError} /\ OwnCodes # {}
    /\ IsFiniteSet(Clients) /\ IsFiniteSet(Instances)
    /\ {MaxDraws, MaxSessions, MaxFrames} \subseteq Nat
    /\ Cardinality(Instances) <= MaxDraws

\* Keys drawn are numbered; a supplied key is none of them, nor a missing one.
ASSUME KeysAssumption ==
    /\ \A i \in Instances : Supplied[i] \notin Nat \cup {NoKey}
    /\ ShortKeys \cap (Nat \cup {Absent, NoKey}) = {}
    /\ NoKey \notin Nat

VARIABLES
    key,        \* the key each instance tags and verifies session ids under
    drawn,      \* how many random keys were drawn
    sessions,   \* the session ids issued, each with its tag's key
    posts,      \* the POST or line each client has open, and its reply
    retained    \* the session of each instance that serves stdio

vars == <<key, drawn, sessions, posts, retained>>

NoReply == [status |-> 0, framing |-> "none", id |-> Absent, code |-> NoError,
            session |-> Absent, hint |-> Unset, failed |-> FALSE, result |-> FALSE]
Idle == [stage |-> "idle"]
NothingWritten == [written |-> Unset, type |-> Absent]

\* The POST as the endpoint holds it: the instance, what arrived with which
\* session id, the session the handler is told of and the frames streamed.
Open(i, p, sent) ==
    [stage |-> "received", at |-> i, h |-> p.h, m |-> p.m, sent |-> sent,
     session |-> Absent, frames |-> 0, reply |-> NoReply]

Answering(p, reply) == [p EXCEPT !.stage = "answered", !.reply = reply]
Told(p, status, framing, code) ==
    [NoReply EXCEPT !.status = status, !.framing = framing, !.id = EchoedId(p.m),
                    !.code = code]
Reply(p, status, framing, code) == Answering(p, Told(p, status, framing, code))

(* ---------------- session ids ---------------- *)

\* A key too short to sign with is refused: the instance keeps the one it drew.
KeepsSupplied(i) == Supplied[i] \notin {Absent} \cup ShortKeys
KeysAtStart(i, n) == IF KeepsSupplied(i) THEN {Supplied[i]} ELSE {n, NoKey}

\* An instance vouches for the ids tagged under its own key, and for no other.
Issued(i, s) == s \notin {Absent, Forged} /\ s.key # NoKey /\ s.key = key[i]

\* Mutant: a request of the discovery revision is told of a session too.
InboundOfAnyRevision(i, m, sent) == IF Issued(i, sent) THEN sent ELSE Absent
\* The id a handler is told of: only one the instance vouches for, and only for
\* a request of a revision that has sessions.
InboundSession(i, m, sent) ==
    IF Modern(m) \/ ~Issued(i, sent) THEN Absent ELSE sent

NewSession(i) == [n |-> Cardinality(sessions) + 1, key |-> key[i]]
\* The id a process that serves stdio issues is never told to its client.
OwnSession(i) == [n |-> 0, key |-> key[i]]

(* ---------------- the initial state ---------------- *)

Init ==
    /\ drawn = Cardinality(Instances)
    /\ key \in {k \in [Instances -> 1..drawn \cup {NoKey} \cup {Supplied[i] : i \in Instances}] :
                \A i \in Instances :
                    /\ IF KeepsSupplied(i) THEN k[i] = Supplied[i]
                                           ELSE k[i] \in 1..drawn \cup {NoKey}
                    /\ \A j \in Instances \ {i} : k[i] = k[j] =>
                        k[i] = NoKey \/ (KeepsSupplied(i) /\ KeepsSupplied(j))}
    /\ sessions = {}
    /\ posts = [c \in Clients |-> Idle]
    /\ retained = [i \in Piped |-> Absent]

(* ---------------- one POST ---------------- *)

Initializing == {c \in Clients :
    posts[c].stage \notin {"idle", "answered"} /\ posts[c].at \notin Piped
        /\ posts[c].m.method = "initialize"}

\* A client POSTs a message, with a session id it holds, one it made up or none.
Post(c) ==
    /\ posts[c].stage = "idle"
    /\ \E i \in Instances \ Piped, p \in Posts[c], sent \in sessions \cup {Absent, Forged} :
        /\ p.m.method = "initialize" =>
                Cardinality(sessions) + Cardinality(Initializing) < MaxSessions
        /\ posts' = [posts EXCEPT ![c] = Open(i, p, sent)]
    /\ UNCHANGED <<key, drawn, sessions, retained>>

\* What a line says of itself: a message whole, or there is no line.
Bare == [declared |-> TRUE, body |-> "whole", version |-> Absent, method |-> Absent,
         name |-> Absent, accept |-> {"sse"}]

\* A client writes a message as a line to an instance that serves stdio.
WriteLine(c) ==
    /\ posts[c].stage = "idle"
    /\ \E i \in Piped, p \in Posts[c] :
        posts' = [posts EXCEPT ![c] = Open(i, [h |-> Bare, m |-> p.m], Absent)]
    /\ UNCHANGED <<key, drawn, sessions, retained>>

\* Lines are handled one after the other, each under the session the process
\* holds, whatever its revision.
ReadLine(c) ==
    LET p == posts[c] IN
    /\ p.stage = "received" /\ p.at \in Piped
    /\ \A d \in Clients : posts[d].stage \in {"admitted", "running"} => posts[d].at # p.at
    /\ posts' = [posts EXCEPT ![c].stage = "admitted", ![c].session = retained[p.at]]
    /\ UNCHANGED <<key, drawn, sessions, retained>>

Text(p, status) ==
    Answering(p, [NoReply EXCEPT !.framing = "text", !.status = status])

\* Before anything is parsed: a body that is not declared as JSON, that exceeds
\* the cap or that cannot be read is answered by the framework's own errors.
RefuseBody(c) ==
    LET p == posts[c] IN
    /\ p.stage = "received" /\ p.at \notin Piped
    /\ ~p.h.declared \/ p.h.body # "whole"
    /\ posts' = [posts EXCEPT ![c] =
        Text(p, IF ~p.h.declared THEN 415 ELSE IF p.h.body = "oversized" THEN 413 ELSE 400)]
    /\ UNCHANGED <<key, drawn, sessions, retained>>

\* The header validation: refused with 400 and an error correlated to the
\* request, or handed on, with the session its handler will be told of.
ValidateHeaders(c) ==
    LET p == posts[c] IN
    /\ p.stage = "received" /\ p.at \notin Piped
    /\ p.h.declared /\ p.h.body = "whole"
    /\ posts' = [posts EXCEPT ![c] =
        IF Admission(p.h, p.m) = NoError
        THEN [p EXCEPT !.stage = "admitted", !.session = InboundSession(p.at, p.m, p.sent)]
        ELSE Reply(p, 400, "json", Admission(p.h, p.m))]
    /\ UNCHANGED <<key, drawn, sessions, retained>>

Framing(p) ==
    IF p.at \in Piped THEN "line" ELSE IF WantsEventStream(p.h) THEN "sse" ELSE "json"
Status(p, code) == IF p.at \in Piped THEN 0 ELSE ReplyStatus(p.m, code)
\* A persistent stream always takes frames ahead of the reply.
Streams(p) == p.at \in Piped \/ Streamable(p.h, p.m)

\* The server refuses the message, or acknowledges a notification: with 202, or
\* over stdio by saying nothing.
Refuse(c) ==
    LET p == posts[c]
        code == IF IsNotification(p.m) THEN ParseVerdict(p.m) ELSE Refusal(p.m)
    IN  /\ p.stage = "admitted"
        /\ code # NoError \/ IsNotification(p.m)
        /\ posts' = [posts EXCEPT ![c] =
            IF code = NoError
            THEN Reply(p, IF p.at \in Piped THEN 0 ELSE 202, "none", NoError)
            ELSE Reply(p, Status(p, code), Framing(p), code)]
        /\ UNCHANGED <<key, drawn, sessions, retained>>

\* The message reaches its method.
Begin(c) ==
    LET p == posts[c] IN
    /\ p.stage = "admitted" /\ ~IsNotification(p.m) /\ Refusal(p.m) = NoError
    /\ posts' = [posts EXCEPT ![c] = [p EXCEPT !.stage = "running"]]
    /\ UNCHANGED <<key, drawn, sessions, retained>>

\* The primitive a running request reaches, or Absent.
Reached(m) ==
    IF \/ m.method = "tools/call" /\ Target(m) \in Tools
       \/ m.method = "prompts/get" /\ Target(m) \in Prompts
       \/ m.method = "resources/read" /\ Target(m) \in Resources
    THEN Target(m) ELSE Absent

\* Whether a running request is the concern of a handler of the application's.
Handled(m) == m.method \in CustomMethods \/ Reached(m) # Absent

\* A primitive's handler reports progress, if the client asked for it, or that of
\* a custom method notifies: a frame of its own, if the reply streams. The first
\* frame commits the framing.
ReportProgress(c) ==
    LET p == posts[c] IN
    /\ p.stage = "running"
    /\ Handled(p.m) /\ Streams(p)
    /\ p.m.method \in CustomMethods \/ (p.m.progress /\ p.m.readable)
    /\ p.frames < MaxFrames
    /\ posts' = [posts EXCEPT ![c].frames = @ + 1]
    /\ UNCHANGED <<key, drawn, sessions, retained>>

\* A subscription is acknowledged by a frame before it ends with its result; on
\* a path that cannot push frames the result alone answers it.
Acknowledge(c) ==
    LET p == posts[c] IN
    /\ p.stage = "running" /\ p.m.method = "subscriptions/listen"
    /\ p.m.method \notin CustomMethods
    /\ Streams(p) /\ p.frames = 0
    /\ posts' = [posts EXCEPT ![c].frames = 1]
    /\ UNCHANGED <<key, drawn, sessions, retained>>

\* A subscription's handler cannot fail but for the frame it could not write.
Possible(p, outcome) ==
    IF p.m.method = "subscriptions/listen" /\ p.m.method \notin CustomMethods
    THEN (outcome = "ok" /\ (Streams(p) => p.frames = 1))
         \/ (outcome = "fails" /\ Streams(p) /\ p.frames = 0)
    ELSE TRUE

\* The error an application's handler returns may carry data that cannot be
\* encoded, and so may whatever a custom method answers with.
Encodable(m, outcome) ==
    IF m.method \in CustomMethods \/ (outcome = "refuses" /\ Handled(m)) THEN BOOLEAN ELSE {TRUE}

\* The method answers. Frames already streamed hold the reply to the event
\* stream and to 200; a reply that cannot be encoded ends a started stream
\* without one, and is an internal error otherwise.
Finished(p, r, encodes, session) ==
    LET streamed == p.frames > 0
        code == IF encodes THEN r.code ELSE InternalError
        framing == IF streamed THEN (IF encodes THEN "stream" ELSE "cut")
                   ELSE IF encodes THEN Framing(p) ELSE "json"
        status == IF streamed THEN 200 ELSE ReplyStatus(p.m, code)
    IN  Answering(p, [Told(p, status, framing, code) EXCEPT
            !.session = IF streamed \/ ~encodes THEN Absent ELSE session,
            !.hint = r.written, !.failed = r.failed, !.result = code = NoError])

\* Over stdio a reply that cannot be encoded is dropped: nothing answers the
\* request.
FinishedLine(p, r, encodes) ==
    IF encodes
    THEN Answering(p, [Told(p, 0, "line", r.code) EXCEPT
            !.hint = r.written, !.failed = r.failed, !.result = r.code = NoError])
    ELSE Answering(p, NoReply)

Finish(c) ==
    LET p == posts[c] IN
    /\ p.stage = "running"
    /\ \E outcome \in Outcomes, own \in OwnCodes, w \in Writes :
        /\ Possible(p, outcome)
        /\ p.m.method \notin CustomMethods => w = NothingWritten
        /\ LET r == ApplyResultEnvelope(p.m, Answer(p.m, outcome, own, w.written, w.type))
               opens == p.m.method = "initialize" /\ r.code = NoError
               s == IF opens /\ p.at \notin Piped THEN NewSession(p.at) ELSE Absent
           IN  /\ \E encodes \in Encodable(p.m, outcome) :
                    posts' = [posts EXCEPT ![c] =
                        IF p.at \in Piped THEN FinishedLine(p, r, encodes)
                        ELSE Finished(p, r, encodes, s)]
               /\ sessions' = IF s = Absent THEN sessions ELSE sessions \cup {s}
               /\ retained' = IF opens /\ p.at \in Piped
                              THEN [retained EXCEPT ![p.at] = OwnSession(p.at)] ELSE retained
    /\ UNCHANGED <<key, drawn>>

\* The client has read its reply.
Take(c) ==
    /\ posts[c].stage = "answered"
    /\ posts' = [posts EXCEPT ![c] = Idle]
    /\ UNCHANGED <<key, drawn, sessions, retained>>

\* An instance restarts: its POSTs are lost, and so is a key it drew itself. Over
\* stdio so it does when its input ends, its context does or a write fails, and
\* what was not read by then is lost (Run).
Restart(i) ==
    /\ drawn < MaxDraws
    /\ drawn' = drawn + 1
    /\ \E k \in KeysAtStart(i, drawn') : key' = [key EXCEPT ![i] = k]
    /\ posts' = [c \in Clients |->
        IF posts[c].stage # "idle" /\ posts[c].at = i THEN Idle ELSE posts[c]]
    /\ retained' = [j \in Piped |-> IF j = i THEN Absent ELSE retained[j]]
    /\ UNCHANGED sessions

Next ==
    \/ \E c \in Clients :
        \/ Post(c) \/ RefuseBody(c) \/ ValidateHeaders(c)
        \/ WriteLine(c) \/ ReadLine(c)
        \/ Refuse(c) \/ Begin(c) \/ ReportProgress(c) \/ Acknowledge(c) \/ Finish(c) \/ Take(c)
    \/ \E i \in Instances : Restart(i)

Spec == Init /\ [][Next]_vars

(* ---------------- properties ---------------- *)

\* Every variable keeps its type, and no instance tags session ids under a key
\* too short to sign with or under one it was not given (WithSessionKey).
TypeOK ==
    /\ drawn \in 0..MaxDraws
    /\ \A i \in Instances : key[i] \in (1..drawn \cup {NoKey, Supplied[i]}) \ ShortKeys
    /\ Cardinality(sessions) <= MaxSessions
    /\ \A i \in Piped : retained[i] \in {Absent, OwnSession(i)}
    /\ \A c \in Clients : posts[c].stage \in
            {"idle", "received", "admitted", "running", "answered"}

Running == {c \in Clients : posts[c].stage = "running"}
OverHttp(p) == p.at \notin Piped

\* A proxy that routes, bills or authorizes a POST from its headers reads what
\* the server goes on to run: while a primitive runs, each header stated names
\* the method, the target and the revision the body is run under, and a header
\* left out is one an older client may leave out (ValidateHeaders, checkHeader,
\* legacyRequest, validateProtocolMeta).
HeadersDescribeWhatRuns ==
    \A c \in {d \in Running : OverHttp(posts[d])} : LET h == posts[c].h  m == posts[c].m IN
        /\ h.method \in {m.method} \cup (IF Legacy(m) THEN {Absent} ELSE {})
        /\ Reached(m) # Absent =>
                h.name \in {Reached(m)} \cup (IF Legacy(m) THEN {Absent} ELSE {})
        /\ IF Legacy(m) THEN h.version \in {Absent} \cup SpokenInitialize
           ELSE h.version = m.version /\ m.version \in MetadataVersions

\* A session is only ever the concern of the revision that has them: no request
\* of the discovery revision is handled under one or opens one, and the id a
\* handler is told of was issued by an instance of this deployment that shares
\* the key of the one serving it, or by the process itself over stdio, which
\* tells its client of none (inboundSessionID, route, IssuedSessionID, dispatch).
SessionsStayInTheirRevision ==
    \A c \in Clients : posts[c].stage # "idle" =>
        LET p == posts[c] IN
        /\ (p.stage = "running" /\ p.session # Absent) =>
            /\ p.session.key = key[p.at]
            /\ IF OverHttp(p) THEN Legacy(p.m) /\ p.session \in sessions
               ELSE p.session = OwnSession(p.at)
        /\ p.reply.session # Absent => OverHttp(p) /\ Legacy(p.m) /\ p.m.method = "initialize"

\* Each POST is answered once, as the client that sent it can read it: under the
\* id it stated, or none it could not have; a notification with 202 and no
\* message; with 200 whenever frames preceded the reply and whenever an older
\* client is answered by the server itself; and a subscription the client let
\* stream is acknowledged before it ends. A request is left without its reply,
\* over stdio or behind a stream already begun, only where a handler of the
\* application's answered it with what cannot be encoded; whatever the server
\* itself says reaches the client (replyStatus, withError, serveStream, Listen,
\* dispatch).
RepliesAreReadable ==
    \A c \in Clients : posts[c].stage = "answered" =>
        LET p == posts[c]  r == p.reply IN
        /\ r.id # Absent => r.id = p.m.id
        /\ IF OverHttp(p) THEN (r.framing = "none") = (r.status = 202)
                          ELSE r.framing \in {"line", "none"} /\ r.status = 0
        /\ r.framing \in {"none", "cut"} => IsNotification(p.m) \/ Handled(p.m)
        /\ OverHttp(p) /\ r.framing = "none" => IsNotification(p.m)
        /\ OverHttp(p) /\ p.frames > 0 => r.status = 200 /\ r.framing \in {"stream", "cut"}
        /\ (OverHttp(p) /\ Legacy(p.m) /\ r.framing # "text" /\ ~IsNotification(p.m)
              /\ Admission(p.h, p.m) = NoError) => r.status = 200
        /\ (r.result /\ p.m.method = "subscriptions/listen"
              /\ p.m.method \notin CustomMethods
              /\ (OverHttp(p) => AcceptsEventStream(p.h))) => p.frames = 1

\* A shared cache never serves one caller's failure, or an answer that depended
\* on a caller's input, to another: such a result leaves without a lifetime and
\* private, whatever the application configured, and no result is public
\* unless the advice for it or its own handler says so (ReadResource,
\* cacheHintFor, applyCacheHints).
FailuresAreNotCached ==
    \A c \in Clients : posts[c].stage = "answered" /\ posts[c].reply.result =>
        LET p == posts[c]  hint == p.reply.hint
            built == p.m.method \notin CustomMethods
            cacheable == p.m.method \in CacheableMethods
        IN  /\ (built /\ cacheable /\ (p.reply.failed \/ p.m.retried)) => hint = ZeroHint
            /\ (built /\ ~cacheable) => hint = Unset
            /\ (built /\ cacheable /\ hint.scope = "public") =>
                    \/ p.m.method = "resources/read" /\ p.m.target \in DOMAIN ResourceHint
                       /\ ResourceHint[p.m.target].scope = "public"
                    \/ p.m.method \in DOMAIN MethodHint
                       /\ MethodHint[p.m.method].scope = "public"
                    \/ p.m.method \notin DOMAIN MethodHint
                       /\ ServerHint # Absent /\ ServerHint.scope = "public"
=============================================================================
