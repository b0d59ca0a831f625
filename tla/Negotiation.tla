------------------------------ MODULE Negotiation ------------------------------
(* How a client settles a connection with a server it knows nothing of          *)
(* (client/negotiation.go) and what its streamable HTTP transport puts on the   *)
(* wire meanwhile (client/transport_http.go): the probe, the fallback to the    *)
(* older handshake, the version negotiated down, the handshake remembered, the  *)
(* pinned version, the session and the credential that opened it. The peer is   *)
(* this repository's own server (McpServer, over HTTP or stdio), or another     *)
(* that conforms to the revisions it speaks; it may be replaced, restarted, or  *)
(* fail at any frame, and so may what stands between the two.                   *)
EXTENDS Integers, Sequences, FiniteSets

CONSTANTS
    Absent, IllTyped, Twice, Malformed,     \* as in McpServer
    Peers,          \* [own, http, meta, init]: who may be at the other end
    Pins,           \* the versions the client may be pinned to, or Absent
    MaxExchanges, MaxFailures, MaxTokens, MaxSessions, MaxReplacements   \* bounds

VARIABLES
    peer,       \* who is at the other end, and how often that changed
    pin,        \* the pinned version, or Absent
    client,     \* the protocol engine: its connection and where its exchange is
    transport,  \* the transport's state
    live,       \* the sessions the server knows
    opened,     \* how many sessions were opened
    failures,   \* how many frames met a failure
    wire        \* the frames the last step put on the wire

vars == <<peer, pin, client, transport, live, opened, failures, wire>>

ThisServer(accepted) == INSTANCE McpServer WITH
    MetadataVersions <- accepted, Ids <- {"id"}, Tools <- {}, Resources <- {},
    Prompts <- {}, Completable <- {}, Completions <- FALSE, CustomMethods <- {},
    ServerHint <- Absent, MethodHint <- [none \in {} |-> Absent],
    ResourceHint <- [none \in {} |-> Absent]

Discovery == "2026-07-28"
InitializeSupported == {"2025-11-25", "2025-06-18"}
ClientSupported == <<Discovery, "2025-11-25", "2025-06-18">>
Speaks(version) == version = Discovery

\* The newest version of the client that is also in the set, or Absent.
Preferred(versions) ==
    LET common == {i \in DOMAIN ClientSupported : ClientSupported[i] \in versions} IN
    IF common = {} THEN Absent
    ELSE ClientSupported[CHOOSE i \in common : \A j \in common : i <= j]

ClientVersions == {ClientSupported[i] : i \in DOMAIN ClientSupported}
Session == [n : Nat, bearer : Nat]

\* A stand-in is nothing a frame of this client states, nor a session.
Words == ClientVersions \cup
    {"id", "object", "server/discover", "initialize", "notifications/initialized", "tools/list"}
ASSUME StandInsAssumption ==
    /\ Absent # IllTyped /\ Twice # Malformed
    /\ {Absent, IllTyped} \cap {Twice, Malformed} = {}
    /\ {Absent, IllTyped, Twice, Malformed} \cap (Words \cup Session) = {}

\* A peer serves some versions request by request and others to a session. This
\* server initializes in all of its own; another answers a version it does not
\* know with one of its own, and as the client takes no second, what they share
\* is the client's newest, all the peer initializes in, or nothing.
ASSUME PeersAssumption ==
    \A p \in Peers :
        /\ p \in [own : BOOLEAN, http : BOOLEAN, meta : SUBSET STRING, init : SUBSET STRING, n : {0}]
        /\ p.meta \cap InitializeSupported = {} /\ Discovery \notin p.init
        /\ p.own => p.init = InitializeSupported
        /\ \/ "2025-11-25" \in p.init
           \/ p.init \subseteq InitializeSupported
           \/ p.init \cap InitializeSupported = {}

\* A pin the client does not support is refused before any of this.
ASSUME PinsAssumption == Pins \subseteq {Absent, Discovery} \cup InitializeSupported

UnsupportedVersion == -32022
MethodNotFound == -32601
InternalError == -32603
IdentifiesDiscoveryServer(code) == code \in {-32020, -32021, UnsupportedVersion}

(* ---------------- the HTTP transport ---------------- *)

Fresh == [version |-> Absent, session |-> Absent, initialized |-> FALSE,
          status |-> 0, channel |-> "closed", stale |-> FALSE]
Reset(t) == [Fresh EXCEPT !.status = t.status, !.channel = t.channel]

\* Crossing from one handshake to the other invalidates the session.
UseProtocol(t, version) ==
    IF t.version # Absent /\ Speaks(t.version) # Speaks(version)
    THEN [t EXCEPT !.version = version, !.session = Absent, !.initialized = FALSE]
    ELSE [t EXCEPT !.version = version]

\* Mutant: the version header travels only once a reply settled it.
VersionOnceInitialized(t) == IF t.version # Absent /\ t.initialized THEN t.version ELSE Absent
\* The session and the version header a frame travels with.
SessionHeader(t) == IF t.version # Absent /\ Speaks(t.version) THEN Absent ELSE t.session
VersionHeader(t) ==
    IF t.version # Absent /\ (Speaks(t.version) \/ t.initialized) THEN t.version ELSE Absent

Frame(t, method, bearer) ==
    [method |-> method, version |-> VersionHeader(t), session |-> SessionHeader(t),
     bearer |-> bearer]

\* Mutant: the session is released with the token presented by then.
ReleaseAsPresented(t) ==
    IF ~peer.http \/ t.session = Absent THEN {} ELSE {Frame(t, "DELETE", client.token)}
\* What is sent to release the session: under the token that opened it.
Release(t) ==
    IF ~peer.http \/ t.session = Absent THEN {}
    ELSE {Frame(t, "DELETE", t.session.bearer)}

\* Connect is idempotent over stdio and starts an HTTP transport afresh.
Connected(t) ==
    IF peer.http THEN Reset(t)
    ELSE [t EXCEPT !.channel = IF @ = "closed" THEN "open" ELSE @]
Disconnected(t) == [Reset(t) EXCEPT !.channel = "closed"]

(* ---------------- what the peer answers ---------------- *)

\* One frame as McpServer reads it, with the headers mirroring it.
Message(method, version) ==
    [json |-> TRUE, id |-> IF method = "notifications/initialized" THEN Absent ELSE "id",
     jsonrpc |-> TRUE, method |-> method, params |-> "object",
     version |-> IF Speaks(version) THEN version ELSE Absent,
     capabilities |-> IF Speaks(version) THEN "object" ELSE Absent,
     target |-> Absent, arguments |-> Absent,
     requested |-> IF method = "initialize" THEN version ELSE Absent,
     retried |-> FALSE, progress |-> FALSE, readable |-> TRUE]
Headers(t, method, version) ==
    [declared |-> TRUE, body |-> "whole", version |-> VersionHeader(t),
     method |-> IF Speaks(version) THEN method ELSE Absent, name |-> Absent,
     accept |-> {"json", "sse"}]

\* An answer: a result naming versions, a JSON-RPC error under a status, a bare
\* status, nothing at all, or no answer for a reason of its own. A server over
\* stdio may exit once it has answered.
Result(versions, session) ==
    [kind |-> "result", status |-> 200, code |-> 0, versions |-> versions,
     session |-> session, exits |-> FALSE]
Error(status, code, versions) ==
    [kind |-> "error", status |-> status, code |-> code, versions |-> versions,
     session |-> Absent, exits |-> FALSE]
Bare(kind, status) ==
    [kind |-> kind, status |-> status, code |-> 0, versions |-> {},
     session |-> Absent, exits |-> FALSE]

\* The session an initialize opens: its number and the token it was opened with.
NewSessions(bearer) ==
    IF peer.http /\ opened < MaxSessions THEN {[n |-> opened + 1, bearer |-> bearer]} ELSE {Absent}

AnswersOfThisServer(t, method, version, bearer) ==
    LET m == Message(method, version)
        admitted == IF peer.http
                    THEN ThisServer(peer.meta)!Admission(Headers(t, method, version), m) ELSE 0
        code == IF admitted # 0 THEN admitted ELSE ThisServer(peer.meta)!Refusal(m)
        status == IF admitted # 0 THEN 400 ELSE ThisServer(peer.meta)!ReplyStatus(m, code)
    IN  IF ThisServer(peer.meta)!IsNotification(m) THEN {Bare("accepted", 202)}
        ELSE IF code # 0 THEN {Error(status, code, ThisServer(peer.meta)!SpokenVersions)}
        ELSE IF method = "initialize"
             THEN {Result({ThisServer(peer.meta)!Negotiated(m)}, s) : s \in NewSessions(bearer)}
        ELSE {Result(peer.meta, Absent)}

\* Another server answers a request it does not know as its revision has it:
\* over HTTP with 400, whatever the body, or with method-not-found; over stdio
\* with any error that is not a modern one, or with silence, exiting or not.
UnknownToOlder ==
    IF peer.http
    THEN {Bare("bare", 400), Error(400, -32600, {}), Error(200, MethodNotFound, {}),
          Error(404, MethodNotFound, {})}
    ELSE {[Error(200, code, {}) EXCEPT !.exits = e] :
              code \in {-32600, MethodNotFound}, e \in BOOLEAN} \cup {Bare("timeout", 0)}

AnswersOfOther(t, method, version, bearer) ==
    CASE method = "notifications/initialized" -> {Bare("accepted", 202)}
      [] method = "initialize" ->
            IF peer.init = {} THEN {Error(404, MethodNotFound, {})}
            ELSE {Result({v}, s) : v \in IF version \in peer.init THEN {version} ELSE peer.init,
                                   s \in NewSessions(bearer) \cup {Absent}}
      [] OTHER ->
            IF Speaks(version) /\ peer.meta = {} THEN UnknownToOlder
            ELSE IF Speaks(version) /\ version \notin peer.meta
                 THEN {Error(400, UnsupportedVersion, peer.meta \cup peer.init)}
            ELSE IF ~Speaks(version) /\ peer.init = {} THEN {Bare("bare", 400)}
            ELSE IF SessionHeader(t) # Absent /\ SessionHeader(t) \notin live
                 THEN {Bare("bare", 404)}
            ELSE {Result(peer.meta \cup peer.init, Absent)}

\* What may happen to a frame besides: the server, or what stands before it,
\* fails at this moment, whatever body its status comes with; the wait ends.
Interference ==
    {Bare("timeout", 0), Bare("broken", 0)} \cup
    {Error(status, InternalError, {}) : status \in {200, 500}} \cup
    IF peer.http
    THEN {Bare("bare", 503), Bare("bare", 500), Bare("unauthorized", 401), Bare("nothing", 202)}
    ELSE {}

\* The answers to a frame, each with whether it is a failure.
Answers(t, method, version, bearer) ==
    IF client.ended THEN {Bare("cancelled", 0)}
    ELSE IF ~peer.http /\ t.channel = "gone" THEN {Bare("broken", 0)}
    ELSE IF peer.own THEN AnswersOfThisServer(t, method, version, bearer)
    ELSE AnswersOfOther(t, method, version, bearer)

(* ---------------- how an attempt ends ---------------- *)

\* What the caller of attempt makes of an answer: an error of its own kind, the
\* ones that leave the transport reset being the ones of a failed channel.
Verdict(t, answer) ==
    CASE answer.kind = "result" -> "ok"
      [] answer.kind = "accepted" -> "ok"
      [] answer.kind = "bare" /\ answer.status = 404 /\ t.session # Absent -> "expired"
      [] answer.kind = "error" -> IF answer.status = 404 /\ t.session # Absent
                                  THEN "expired" ELSE "rpc"
      [] answer.kind = "bare" /\ ~(answer.status = 404 /\ t.session # Absent) ->
            IF answer.status = 400 THEN "transport" ELSE "plain"
      [] answer.kind = "unauthorized" -> "auth"
      [] answer.kind = "nothing" -> "plain"
      [] answer.kind = "cancelled" -> "cancelled"
      [] answer.kind = "timeout" -> "timeout"
      [] answer.kind = "broken" -> "transport"

\* Over HTTP silence is not how a server of the older handshake answers.
Unanswered(answer) == peer.http /\ answer.kind \in {"timeout", "broken"}

Resets(t, answer) ==
    answer.kind \in {"bare", "unauthorized", "broken"} \/ Verdict(t, answer) = "expired"

\* The transport once the answer to a frame was read.
After(t, answer, bearer) ==
    IF ~peer.http
    THEN [t EXCEPT !.channel = IF answer.kind = "broken" \/ answer.exits THEN "gone" ELSE @]
    ELSE LET read == [t EXCEPT
                !.status = IF answer.status = 0 THEN @ ELSE answer.status,
                !.session = IF answer.session = Absent \/ Speaks(t.version) THEN @ ELSE answer.session,
                !.initialized = @ \/ (answer.status \in 200..299 /\ ~Speaks(t.version))]
         IN IF Resets(t, answer) THEN Reset(read) ELSE read

\* An attempt at a frame, sent over t: one answer is taken, the server's or that
\* of something between.
Attempted(t, method, version, failing, answer) ==
    /\ IF failing THEN failures < MaxFailures /\ ~client.ended /\ answer \in Interference
                  ELSE answer \in Answers(t, method, version, client.bearer)
    /\ failures' = IF failing THEN failures + 1 ELSE failures
    /\ opened' = IF answer.session = Absent THEN opened ELSE opened + 1
    /\ live' = IF answer.session = Absent THEN live ELSE live \cup {answer.session}
    /\ wire' = {Frame(t, method, client.bearer)} \cup
                  (IF client'.at = "rest" /\ ~client'.connected
                   THEN Release(After(t, answer, client.bearer)) ELSE {})
    /\ UNCHANGED <<peer, pin>>

\* The transport is told of the version, and Outcome acts on the answer.
Attempt(method, version, Outcome(_, _)) ==
    LET t == UseProtocol(transport, version) IN
    \E failing \in BOOLEAN :
        \E answer \in IF failing THEN Interference
                     ELSE Answers(t, method, version, client.bearer) :
            /\ Outcome(After(t, answer, client.bearer), answer)
            /\ Attempted(t, method, version, failing, answer)

(* ---------------- the handshake ---------------- *)

NoConnection == [version |-> Absent]
Established(version, via) ==
    [version |-> version, context |-> client.bearer, via |-> via, since |-> peer.n]

Go(at, why, version) == [client EXCEPT !.at = at, !.why = why, !.version = version]
Rest(told) == [client EXCEPT !.at = "rest", !.told = told]

\* A handshake that fails leaves nothing open.
Fail(t) ==
    /\ client' = [Rest("failed") EXCEPT !.connected = FALSE]
    /\ transport' = Disconnected(t)

\* The connection is settled, unless it settles the very version a request was
\* just refused for: then that rejection stands.
Settle(t, version) ==
    /\ client' = [client EXCEPT
            !.connected = TRUE, !.conn = Established(version, client.why),
            !.at = IF version = client.refused THEN "rest" ELSE "request",
            !.told = IF version = client.refused THEN "answered" ELSE @]
    /\ transport' = t

\* The fallback starts over a channel that is open.
FallBack(t) ==
    /\ client' = Go("initialize", "fallback", "2025-11-25")
    /\ transport' = Connected(t)

\* The rejection names the versions to retry at: the newest of both is tried,
\* unless it is one discovery would have settled anyway.
NegotiateDown(t, versions) ==
    LET v == Preferred(versions) IN
    IF v = Absent \/ Speaks(v) THEN Fail(t)
    ELSE client' = Go("initialize", "down", v) /\ transport' = t

\* Mutant: any error that is not a modern one falls back, as over stdio.
AnyErrorIsLegacy(t, answer) == TRUE
AnsweredAsLegacy(t, answer) ==
    ~peer.http \/ t.status = 400 \/ answer.code = MethodNotFound

\* What the failure of the probe says of the server.
ProbeFails(t, answer, verdict) ==
    CASE ~Unanswered(answer) /\ verdict = "rpc" /\ IdentifiesDiscoveryServer(answer.code) ->
            NegotiateDown(t, answer.versions)
      [] ~Unanswered(answer) /\ ~client.ended
            /\ \/ verdict \in {"transport", "timeout"}
               \/ /\ verdict = "rpc" /\ ~IdentifiesDiscoveryServer(answer.code)
                  /\ AnsweredAsLegacy(t, answer) ->
            FallBack(t)
      [] OTHER -> Fail(t)

\* What the failure of an initialize says, which depends on why it was tried.
InitializeFails(t, answer, verdict) ==
    CASE client.why = "remembered" /\ verdict # "auth" /\ ~client.ended ->
            /\ client' = [Go("discover", "probe", Discovery) EXCEPT !.conn = NoConnection]
            /\ transport' = Connected(t)
      [] client.why = "settled" -> ProbeFails(t, answer, verdict)
      [] client.why = "fallback" /\ verdict = "transport" /\ ~client.ended ->
            /\ client' = Go("initialize", "again", "2025-11-25")
            /\ transport' = Connected(Disconnected(t))
      [] OTHER -> Fail(t)

\* The handshake a connection is negotiated with: the pinned one, the one the
\* server is known to speak, or the probe.
Choose ==
    /\ client.at = "handshake"
    /\ client' =
        IF pin # Absent
        THEN Go(IF Speaks(pin) THEN "discover" ELSE "initialize", "pinned", pin)
        ELSE IF client.conn.version # Absent /\ ~Speaks(client.conn.version)
        THEN Go("initialize", "remembered", client.conn.version)
        ELSE Go("discover", "probe", Discovery)
    /\ wire' = {}
    /\ UNCHANGED <<peer, pin, transport, live, opened, failures>>

Discovered(t, answer) ==
    LET v == Preferred(answer.versions)
        verdict == Verdict(UseProtocol(transport, client.version), answer)
    IN  IF verdict # "ok"
        THEN IF client.why = "probe" THEN ProbeFails(t, answer, verdict) ELSE Fail(t)
        ELSE IF v = Absent \/ (client.why = "pinned" /\ v # pin) THEN Fail(t)
        ELSE IF Speaks(v) THEN Settle(t, v)
        ELSE client' = Go("initialize", "settled", v) /\ transport' = t

Discover ==
    /\ client.at = "discover"
    /\ Attempt("server/discover", client.version, Discovered)

Initialized(t, answer) ==
    LET verdict == Verdict(UseProtocol(transport, client.version), answer) IN
    IF verdict # "ok" THEN InitializeFails(t, answer, verdict)
    ELSE LET v == CHOOSE chosen \in answer.versions : TRUE IN
         IF v \notin InitializeSupported \/ (client.why = "pinned" /\ v # pin)
         THEN InitializeFails(t, answer, "plain")
         ELSE client' = Go("announce", client.why, v) /\ transport' = t

Initialize ==
    /\ client.at = "initialize"
    /\ Attempt("initialize", client.version, Initialized)

\* A notification is sent, and no reply to it is read: a JSON-RPC error it is
\* refused with over HTTP stays in the receive queue.
Announced(t, answer) ==
    LET verdict == Verdict(UseProtocol(transport, client.version), answer) IN
    IF \/ verdict \in {"ok", "rpc"} \/ answer.kind = "nothing"
       \/ (~peer.http /\ verdict \notin {"transport", "cancelled"})
    THEN Settle([t EXCEPT !.stale = peer.http /\ verdict = "rpc"], client.version)
    ELSE InitializeFails(t, answer, verdict)

Announce ==
    /\ client.at = "announce"
    /\ Attempt("notifications/initialized", client.version, Announced)

(* ---------------- an exchange ---------------- *)

\* An exchange settles the credential its frames present. A connection of
\* another credential is given up: only its version is remembered.
Begin ==
    /\ client.at = "rest" /\ client.exchanges < MaxExchanges
    /\ LET forsaken == client.connected /\ client.conn.context # client.token
           stands == client.connected /\ ~forsaken
       IN  /\ client' = [client EXCEPT
                !.bearer = client.token, !.exchanges = @ + 1, !.told = "none",
                !.ended = FALSE, !.retried = FALSE, !.refused = Absent,
                !.connected = stands, !.at = IF stands THEN "request" ELSE "connect"]
           /\ transport' = IF forsaken THEN Disconnected(transport) ELSE transport
           /\ wire' = IF forsaken THEN Release(transport) ELSE {}
    /\ UNCHANGED <<peer, pin, live, opened, failures>>

Connect ==
    /\ client.at = "connect"
    /\ \/ /\ client' = [client EXCEPT !.at = "handshake"]
          /\ transport' = Connected(transport)
          /\ UNCHANGED failures
       \/ /\ ~peer.http /\ failures < MaxFailures
          /\ client' = Rest("failed")
          /\ failures' = failures + 1
          /\ UNCHANGED transport
    /\ wire' = {}
    /\ UNCHANGED <<peer, pin, live, opened>>

\* A request over the connection, repeated once over a fresh connection when its
\* session is gone, and once at another version when its own is refused.
Requested(t, answer) ==
    LET verdict == Verdict(UseProtocol(transport, client.conn.version), answer)
        misled == t.stale /\ verdict \in {"ok", "rpc", "plain"} /\ answer.kind # "bare"
    IN  CASE misled ->
                client' = Rest("misled") /\ transport' = [t EXCEPT !.stale = FALSE]
          [] ~misled /\ verdict = "rpc" /\ answer.code = UnsupportedVersion
                /\ pin = Absent /\ client.refused = Absent ->
                /\ client' = [client EXCEPT !.at = "handshake", !.connected = FALSE,
                        !.conn = NoConnection, !.refused = client.conn.version]
                /\ transport' = t
          [] ~misled /\ (verdict = "ok" \/ (verdict = "rpc" /\ ~(answer.code = UnsupportedVersion
                /\ pin = Absent /\ client.refused = Absent))) ->
                client' = Rest("answered") /\ transport' = t
          [] verdict = "expired" /\ ~client.retried /\ client.refused = Absent ->
                /\ client' = [client EXCEPT !.at = "connect", !.connected = FALSE, !.retried = TRUE]
                /\ transport' = Disconnected(t)
          [] OTHER ->
                \E stands \in BOOLEAN :
                    /\ stands => verdict \in {"timeout", "cancelled"}
                    /\ client' = [Rest("broken") EXCEPT !.connected = stands]
                    /\ transport' = IF stands THEN t ELSE Disconnected(t)

Request ==
    /\ client.at = "request"
    /\ Attempt("tools/list", client.conn.version, Requested)

(* ---------------- the environment ---------------- *)

\* The credential the caller presents changes; his context ends.
ChangeToken ==
    /\ client.token < MaxTokens
    /\ client' = [client EXCEPT !.token = @ + 1]
    /\ wire' = {}
    /\ UNCHANGED <<peer, pin, transport, live, opened, failures>>
EndContext ==
    /\ client.at # "rest" /\ ~client.ended /\ failures < MaxFailures
    /\ client' = [client EXCEPT !.ended = TRUE]
    /\ failures' = failures + 1
    /\ wire' = {}
    /\ UNCHANGED <<peer, pin, transport, live, opened>>

\* The server restarts and forgets its sessions; another takes its place.
RestartServer ==
    /\ live # {} /\ live' = {} /\ wire' = {}
    /\ UNCHANGED <<peer, pin, client, transport, opened, failures>>
ReplaceServer ==
    /\ peer.http /\ peer.n < MaxReplacements /\ client.at = "rest"
    /\ \E p \in Peers : p.http /\ peer' = [p EXCEPT !.n = peer.n + 1]
    /\ client' = [client EXCEPT !.told = "none"]     \* what was told is of the other
    /\ live' = {} /\ wire' = {}
    /\ UNCHANGED <<pin, transport, opened, failures>>

Init ==
    /\ peer \in Peers /\ pin \in Pins
    /\ client = [at |-> "rest", why |-> "none", version |-> Absent, connected |-> FALSE,
                 conn |-> NoConnection, token |-> 1, bearer |-> 0, ended |-> FALSE,
                 retried |-> FALSE, refused |-> Absent, told |-> "none", exchanges |-> 0]
    /\ transport = Fresh
    /\ live = {} /\ opened = 0 /\ failures = 0 /\ wire = {}

Next ==
    \/ Begin \/ Connect \/ Choose \/ Discover \/ Initialize \/ Announce \/ Request
    \/ ChangeToken \/ EndContext \/ RestartServer \/ ReplaceServer

Spec == Init /\ [][Next]_vars

(* ---------------- properties ---------------- *)

NegotiationTypeOK ==
    /\ client.at \in {"rest", "connect", "handshake", "discover", "initialize",
                      "announce", "request"}
    /\ client.connected => client.conn.version \in ThisServer({Discovery})!SpokenVersions
    /\ client.at = "request" => client.connected
    /\ transport.session \in live \cup {Absent} \cup
            {[n |-> n, bearer |-> b] : n \in 1..opened, b \in 1..client.token}

\* A server of the discovery revision is never taken for an older one over HTTP
\* because it, or what stands before it, failed at the moment it was asked: the
\* older handshake would be offered to it from then on (probe, passing,
\* refusesTheRequest, probeAnsweredAsLegacy).
FailureIsNotAnEra ==
    (client.connected /\ peer.http /\ pin = Absent /\ Discovery \in peer.meta
        /\ client.conn.since = peer.n /\ client.conn.via # "remembered")
    => Speaks(client.conn.version)

\* Every session is the concern of one credential and of one handshake: a frame
\* names a session only under the token that opened it, the DELETE releasing it
\* included, never in the discovery revision, and no handshake starts under a
\* session of another (captureSessionID, terminateSession, forsake, UseProtocol).
SessionsKeptApart ==
    \A f \in wire : f.session # Absent =>
        /\ f.session.bearer = f.bearer
        /\ f.version \in InitializeSupported \cup {Absent}
        /\ f.method \notin {"initialize", "server/discover"}

\* A connection stands only on a version the server at the other end serves in
\* the handshake it was settled by, and on the pinned one if one is pinned
\* (handshake, negotiateDown, parseInitializeResult).
SettledOnSharedVersion ==
    client.connected =>
        /\ pin \in {Absent, client.conn.version}
        /\ client.conn.since = peer.n =>
            IF Speaks(client.conn.version) THEN client.conn.version \in peer.meta
            ELSE client.conn.version \in peer.init

\* Two peers that share a version settle on one whatever each is: a handshake
\* fails only for a failure met on the way or for want of a version of both,
\* this server's own header and metadata rules never refuse a frame of this
\* client, and no connection stands on anything else (probe, fallback,
\* validateProtocolMeta, ValidateHeaders).
SharedVersionIsFound ==
    /\ SettledOnSharedVersion
    /\ client.told = "failed" =>
        \/ failures > 0
        \/ IF pin = Absent THEN Preferred(peer.meta \cup peer.init) = Absent
           ELSE pin \notin IF Speaks(pin) THEN peer.meta ELSE peer.init

\* The claim of repliesPerRequest in client/transport_http.go:456: the reply to
\* a request arrives on the response to the POST that carried it, and no other.
ReplyOnItsOwnPost == client.told # "misled"
=============================================================================
