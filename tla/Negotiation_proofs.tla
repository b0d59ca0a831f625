-------------------------- MODULE Negotiation_proofs --------------------------
(* What TLAPS proves of Negotiation, for any peers that conform to what they    *)
(* speak, any pins, and any number of exchanges, failures, credentials,         *)
(* sessions and replacements: a session stays with its credential and its       *)
(* handshake, a failure is never taken for an older server, and two peers that  *)
(* share a version settle on one.                                               *)
EXTENDS Negotiation, TLAPS

Version == ClientVersions \cup {Absent}
Reasons == {"none", "probe", "fallback", "again", "down", "remembered", "pinned"}
Connection == [version : ClientVersions, context : Nat, via : Reasons, since : Nat]

(* ---------------- the inductive invariant ---------------- *)

\* Who is at the other end is one of the peers, and over stdio never another.
Conforms(p) ==
    /\ p \in [own : BOOLEAN, http : BOOLEAN, meta : SUBSET STRING, init : SUBSET STRING, n : Nat]
    /\ p.meta \cap InitializeSupported = {} /\ Discovery \notin p.init
    /\ p.own => p.init = InitializeSupported
    /\ \/ "2025-11-25" \in p.init
       \/ p.init \subseteq InitializeSupported
       \/ p.init \cap InitializeSupported = {}
    /\ ~p.http => p.n = 0
PeerHeld == Conforms(peer) /\ pin \in Version

ClientTyped ==
    client \in [at : {"rest", "connect", "handshake", "discover", "initialize", "announce",
                      "request"},
                why : Reasons,
                version : Version, connected : BOOLEAN, conn : {NoConnection} \cup Connection,
                token : Nat, bearer : Nat, ended : BOOLEAN, retried : BOOLEAN,
                refused : Version, told : {"none", "failed", "answered", "misled", "broken"},
                exchanges : Nat]
TransportTyped ==
    transport \in [version : Version, session : Session \cup {Absent}, initialized : BOOLEAN,
                   status : Nat, channel : {"closed", "open", "gone"}, stale : BOOLEAN]
CountsTyped == failures \in Nat /\ opened \in Nat
Typed == ClientTyped /\ TransportTyped /\ CountsTyped

\* A session is of the credential in force, of an older handshake, and of HTTP.
SessionHeld(t) ==
    t.session # Absent =>
        peer.http /\ t.version \in InitializeSupported /\ t.session.bearer = client.bearer
\* No handshake starts under one, unless its probe crosses out of it.
SessionsHeld ==
    /\ SessionHeld(transport)
    /\ transport.session # Absent =>
        /\ client.at = "rest" => client.connected
        /\ client.at = "handshake" => client.conn = NoConnection /\ pin = Absent
        /\ client.at # "initialize"

\* A connection stands between exchanges or under a request, over the context
\* in force, and on a version the peer it was settled with serves.
Served(version) == version \in IF Speaks(version) THEN peer.meta ELSE peer.init
Standing ==
    /\ client.connected => client.at \in {"rest", "request"}
    /\ client.at = "request" => client.connected
    /\ client.connected =>
        /\ client.conn \in Connection /\ client.conn.context = client.bearer
        /\ client.conn.since <= peer.n
        /\ pin \in {Absent, client.conn.version}
        /\ client.conn.since = peer.n => Served(client.conn.version)
    /\ FailureIsNotAnEra

\* Why a version is being tried, and what of the server that tells.
Offered ==
    /\ client.at \in {"discover", "initialize", "announce"} =>
        /\ client.why = "pinned" <=> pin # Absent
        /\ pin \in {Absent, client.version}
    /\ client.at = "discover" => client.version = Discovery /\ client.why \in {"probe", "pinned"}
    /\ client.at \in {"initialize", "announce"} =>
        /\ client.version \in InitializeSupported
        /\ client.why \in {"fallback", "again", "down", "remembered", "pinned"}
        /\ peer.http /\ Discovery \in peer.meta => client.why \in {"remembered", "pinned"}
    /\ client.at = "initialize" =>
        /\ client.why = "down" => client.version \in peer.init
        /\ client.why \in {"fallback", "again"} =>
            client.version = "2025-11-25" /\ (failures = 0 => peer.meta = {})
    /\ client.at = "announce" => client.version \in peer.init

\* The peers have no version in common, or not the pinned one.
NothingShared ==
    IF pin = Absent THEN Preferred(peer.meta \cup peer.init) = Absent
    ELSE pin \notin IF Speaks(pin) THEN peer.meta ELSE peer.init

\* Without a failure, a process is gone only where the fallback is to find out.
Blameless ==
    /\ client.ended => failures > 0
    /\ failures = 0 /\ transport.channel = "gone"
        => ~peer.http /\ client.at = "initialize" /\ client.why = "fallback"
    /\ client.told = "failed" => failures > 0 \/ NothingShared

\* What the last step put on the wire keeps to all that, too.
Held == PeerHeld /\ Typed /\ SessionsHeld /\ Standing /\ Offered /\ Blameless
NegotiationInv == Held /\ SessionsKeptApart

(* ---------------- values and answers ---------------- *)

Transports ==
    [version : Version, session : Session \cup {Absent}, initialized : BOOLEAN,
     status : Nat, channel : {"closed", "open", "gone"}, stale : BOOLEAN]
AnswerKinds ==
    {"result", "error", "bare", "accepted", "timeout", "broken", "unauthorized", "nothing",
     "cancelled"}
AnswerSet ==
    [kind : AnswerKinds, status : Nat, code : Int, versions : SUBSET STRING,
     session : Session \cup {Absent}, exits : BOOLEAN]

LEMMA VersionsKnown == ClientVersions = {Discovery} \cup InitializeSupported
<1>1. /\ DOMAIN ClientSupported = 1..3 /\ ClientSupported[1] = Discovery
      /\ ClientSupported[2] = "2025-11-25" /\ ClientSupported[3] = "2025-06-18"
  BY DEF ClientSupported
<1>2. 1..3 = {1, 2, 3}
  OBVIOUS
<1>3. ClientVersions = {ClientSupported[i] : i \in {1, 2, 3}}
  BY <1>1, <1>2 DEF ClientVersions
<1>4. ClientVersions = {Discovery, "2025-11-25", "2025-06-18"}
  BY <1>1, <1>3
<1> QED
  BY ONLY <1>4 DEF InitializeSupported

LEMMA StandIns ==
    /\ Absent \notin ClientVersions /\ Absent \notin Session
    /\ Absent \notin Words /\ IllTyped \notin Words /\ Twice \notin Words /\ Malformed \notin Words
    /\ Absent # IllTyped /\ Absent \notin {Twice, Malformed} /\ IllTyped \notin {Twice, Malformed}
BY StandInsAssumption DEF Words

\* The newest version of the client in a set, if there is one.
LEMMA PreferredVersion ==
    ASSUME NEW S
    PROVE  /\ Preferred(S) \in Version
           /\ Preferred(S) = Absent <=> S \cap ClientVersions = {}
           /\ Preferred(S) # Absent => Preferred(S) \in S
           /\ Discovery \in S => Preferred(S) = Discovery
<1> DEFINE common == {i \in DOMAIN ClientSupported : ClientSupported[i] \in S}
<1>1. /\ DOMAIN ClientSupported = 1..3 /\ ClientSupported[1] = Discovery
      /\ ClientSupported[2] = "2025-11-25" /\ ClientSupported[3] = "2025-06-18"
  BY DEF ClientSupported
<1>2. common \subseteq 1..3
  BY <1>1
<1>3. CASE common = {}
  <2>1. S \cap ClientVersions = {}
    BY <1>1, <1>3, VersionsKnown DEF InitializeSupported
  <2>2. Preferred(S) = Absent
    BY <1>3 DEF Preferred
  <2>3. Discovery \notin S
    BY <2>1, VersionsKnown
  <2> QED
    BY <2>1, <2>2, <2>3 DEF Version
<1>4. CASE common # {}
  <2>1. \E i \in common : \A j \in common : i <= j
    <3>1. CASE 1 \in common
      BY <1>2, <3>1
    <3>2. CASE 1 \notin common /\ 2 \in common
      BY <1>2, <3>2
    <3>3. CASE 1 \notin common /\ 2 \notin common
      BY <1>2, <1>4, <3>3
    <3> QED
      BY <3>1, <3>2, <3>3
  <2> DEFINE least == CHOOSE i \in common : \A j \in common : i <= j
  <2>2. least \in common /\ \A j \in common : least <= j
    BY <2>1
  <2>3. Preferred(S) = ClientSupported[least]
    BY <1>4 DEF Preferred
  <2> HIDE DEF least
  <2>4. least \in 1..3 /\ ClientSupported[least] \in S
    BY <1>2, <2>2
  <2>5. ClientSupported[least] \in ClientVersions
    BY <1>1, <2>4, VersionsKnown DEF InitializeSupported
  <2>6. Discovery \in S => least = 1
    BY <1>1, <2>2, <2>4
  <2>7. Preferred(S) \in ClientVersions /\ Preferred(S) \in S
    BY <2>3, <2>4, <2>5
  <2>8. Preferred(S) # Absent
    BY <2>7, StandIns
  <2>9. Discovery \in S => Preferred(S) = Discovery
    BY <1>1, <2>3, <2>6
  <2>10. S \cap ClientVersions # {}
    BY ONLY <2>7
  <2> QED
    BY <2>7, <2>8, <2>9, <2>10 DEF Version
<1> QED
  BY <1>3, <1>4

LEMMA UseProtocolTyped ==
    ASSUME NEW t \in Transports, NEW version \in ClientVersions
    PROVE  /\ UseProtocol(t, version) \in Transports
           /\ UseProtocol(t, version).version = version
           /\ UseProtocol(t, version).channel = t.channel
           /\ UseProtocol(t, version).session \in {t.session, Absent}
           /\ t.version # Absent /\ Speaks(t.version) # Speaks(version)
              => UseProtocol(t, version).session = Absent
BY DEF UseProtocol, Transports, Version

LEMMA ResetTyped ==
    ASSUME NEW t \in Transports
    PROVE  /\ Reset(t) \in Transports /\ Reset(t).session = Absent
           /\ Reset(t).channel = t.channel /\ Reset(t).status = t.status
           /\ Disconnected(t) \in Transports /\ Disconnected(t).session = Absent
           /\ Disconnected(t).channel = "closed"
BY DEF Reset, Disconnected, Fresh, Transports, Version

LEMMA ConnectedTyped ==
    ASSUME NEW t \in Transports
    PROVE  /\ Connected(t) \in Transports
           /\ Connected(t).session = IF peer.http THEN Absent ELSE t.session
           /\ Connected(t).version = IF peer.http THEN Absent ELSE t.version
           /\ Connected(t).channel = "gone" => t.channel = "gone"
<1>1. CASE peer.http
  BY <1>1, ResetTyped DEF Connected, Reset, Fresh, Transports
<1>2. CASE ~peer.http
  BY <1>2 DEF Connected, Transports
<1> QED
  BY <1>1, <1>2

(* ---------------- what a frame is answered with ---------------- *)

LEMMA BareShape ==
    ASSUME NEW kind \in AnswerKinds, NEW status \in Nat
    PROVE  /\ Bare(kind, status) \in AnswerSet
           /\ Bare(kind, status).kind = kind /\ Bare(kind, status).status = status
           /\ Bare(kind, status).session = Absent /\ ~Bare(kind, status).exits
           /\ Bare(kind, status).versions = {} /\ Bare(kind, status).code = 0
BY DEF Bare, AnswerSet

LEMMA ErrorShape ==
    ASSUME NEW status \in Nat, NEW code \in Int, NEW versions \in SUBSET STRING
    PROVE  /\ Error(status, code, versions) \in AnswerSet
           /\ Error(status, code, versions).kind = "error"
           /\ Error(status, code, versions).status = status
           /\ Error(status, code, versions).code = code
           /\ Error(status, code, versions).versions = versions
           /\ Error(status, code, versions).session = Absent
           /\ ~Error(status, code, versions).exits
BY DEF Error, AnswerSet, AnswerKinds

LEMMA ResultShape ==
    ASSUME NEW versions \in SUBSET STRING, NEW session \in Session \cup {Absent}
    PROVE  /\ Result(versions, session) \in AnswerSet
           /\ Result(versions, session).kind = "result"
           /\ Result(versions, session).versions = versions
           /\ Result(versions, session).session = session
           /\ ~Result(versions, session).exits
BY DEF Result, AnswerSet, AnswerKinds

LEMMA ExitShape ==
    ASSUME NEW status \in Nat, NEW code \in Int, NEW e \in BOOLEAN
    PROVE  /\ [Error(status, code, {}) EXCEPT !.exits = e] \in AnswerSet
           /\ [Error(status, code, {}) EXCEPT !.exits = e].kind = "error"
           /\ [Error(status, code, {}) EXCEPT !.exits = e].code = code
           /\ [Error(status, code, {}) EXCEPT !.exits = e].versions = {}
           /\ [Error(status, code, {}) EXCEPT !.exits = e].session = Absent
BY DEF Error, AnswerSet, AnswerKinds

\* A failure on the way is no answer of a server of any era.
LEMMA Struck ==
    ASSUME NEW a \in Interference
    PROVE  /\ a \in AnswerSet /\ a.session = Absent /\ ~a.exits /\ a.versions = {}
           /\ a.kind \notin {"result", "accepted", "cancelled"}
           /\ a.kind = "error" => a.code = InternalError /\ a.status \in {200, 500}
           /\ a.kind = "bare" => peer.http /\ a.status \in {500, 503}
<1>1. CASE a \in {Bare("timeout", 0), Bare("broken", 0)}
  <2>1. PICK kind \in {"timeout", "broken"} : a = Bare(kind, 0)
    BY <1>1
  <2> QED
    BY <2>1, BareShape DEF AnswerKinds
<1>2. CASE a \in {Error(status, InternalError, {}) : status \in {200, 500}}
  <2>1. PICK status \in {200, 500} : a = Error(status, InternalError, {})
    BY <1>2
  <2>2. InternalError \in Int
    BY DEF InternalError
  <2> QED
    BY <2>1, <2>2, ErrorShape
<1>3. CASE peer.http /\ a \in {Bare("bare", 503), Bare("bare", 500)}
  <2>1. PICK status \in {500, 503} : a = Bare("bare", status)
    BY <1>3
  <2> QED
    BY <1>3, <2>1, BareShape DEF AnswerKinds
<1>4. CASE a = Bare("unauthorized", 401)
  BY <1>4, BareShape DEF AnswerKinds
<1>5. CASE a = Bare("nothing", 202)
  BY <1>5, BareShape DEF AnswerKinds
<1> QED
  BY <1>1, <1>2, <1>3, <1>4, <1>5 DEF Interference

\* An answer that tells the era of a server that does not serve discovery: a
\* refusal that names its versions, or one only an older server gives.
Refused(a) ==
    a.kind = "error" /\ a.code = UnsupportedVersion /\ a.versions = peer.meta \cup peer.init
        /\ ~a.exits
Unknown(a) ==
    /\ peer.meta = {} /\ a.versions = {}
    /\ a.exits => ~peer.http /\ a.kind = "error"
    /\ \/ peer.http /\ a.kind = "bare" /\ a.status = 400
       \/ a.kind = "error" /\ a.code \in {-32600, MethodNotFound}
            /\ (peer.http => a.status = 400 \/ a.code = MethodNotFound)
       \/ ~peer.http /\ a.kind = "timeout"

\* What a server answers a frame with when nothing is in its way.
Honest(method, version, bearer, a) ==
    /\ a \in AnswerSet /\ a.kind \notin {"cancelled", "broken"}
    /\ a.session # Absent => method = "initialize" /\ peer.http /\ a.session.bearer = bearer
    /\ method = "notifications/initialized" => a.kind = "accepted" /\ ~a.exits
    /\ method = "initialize" =>
        /\ ~a.exits /\ a.kind \in {"result", "error"}
        /\ a.kind = "result" => \E v \in peer.init :
                a.versions = {v} /\ (version \in peer.init => v = version)
        /\ a.kind = "error" => peer.init = {}
    /\ method = "server/discover" =>
        IF Discovery \in peer.meta
        THEN a.kind = "result" /\ Discovery \in a.versions /\ ~a.exits
        ELSE Refused(a) \/ Unknown(a)
    /\ method = "tools/list" /\ a.exits => Speaks(version) /\ peer.meta = {}
Methods == {"server/discover", "initialize", "notifications/initialized", "tools/list"}

LEMMA NewSessionsTyped ==
    ASSUME CountsTyped, NEW bearer \in Nat, NEW s \in NewSessions(bearer)
    PROVE  /\ s \in Session \cup {Absent}
           /\ s # Absent => peer.http /\ s.bearer = bearer
BY DEF NewSessions, CountsTyped, Session

LEMMA OthersAnswer ==
    ASSUME PeerHeld, CountsTyped, NEW t \in Transports, NEW method \in Methods,
           NEW version \in ClientVersions, NEW bearer \in Nat,
           t.version = version, method = "server/discover" => version = Discovery,
           NEW a \in AnswersOfOther(t, method, version, bearer)
    PROVE  Honest(method, version, bearer, a)
<1>0. /\ peer.meta \cup peer.init \in SUBSET STRING
      /\ MethodNotFound \in Int /\ UnsupportedVersion \in Int
      /\ MethodNotFound # UnsupportedVersion
  BY DEF PeerHeld, Conforms, MethodNotFound, UnsupportedVersion
<1>1. CASE method = "notifications/initialized"
  <2>1. a = Bare("accepted", 202)
    BY <1>1 DEF AnswersOfOther
  <2> QED
    BY <1>1, <2>1, BareShape DEF Honest, AnswerKinds
<1>2. CASE method = "initialize" /\ peer.init = {}
  <2>1. a = Error(404, MethodNotFound, {})
    BY <1>2 DEF AnswersOfOther
  <2> QED
    BY <1>0, <1>2, <2>1, ErrorShape DEF Honest
<1>3. CASE method = "initialize" /\ peer.init # {}
  <2>1. PICK v \in IF version \in peer.init THEN {version} ELSE peer.init,
             s \in NewSessions(bearer) \cup {Absent} : a = Result({v}, s)
    <3>1. a \in {Result({v}, s) : v \in IF version \in peer.init THEN {version} ELSE peer.init,
                                  s \in NewSessions(bearer) \cup {Absent}}
      BY <1>3 DEF AnswersOfOther
    <3> QED
      BY ONLY <3>1, SMTT(30)
  <2>2. v \in peer.init /\ {v} \in SUBSET STRING /\ (version \in peer.init => v = version)
    BY <1>0, <2>1
  <2>3. s \in Session \cup {Absent} /\ (s # Absent => peer.http /\ s.bearer = bearer)
    BY <2>1, NewSessionsTyped
  <2> QED
    BY <1>3, <2>1, <2>2, <2>3, ResultShape DEF Honest
<1>4. CASE method \in {"server/discover", "tools/list"} /\ Speaks(version) /\ peer.meta = {}
  <2>1. a \in UnknownToOlder
    BY <1>4 DEF AnswersOfOther
  <2>2. /\ a \in AnswerSet /\ a.kind \notin {"cancelled", "broken"} /\ a.session = Absent
        /\ Unknown(a)
    <3>1. CASE peer.http
      <4>1. CASE a = Bare("bare", 400)
        BY <1>4, <3>1, <4>1, BareShape DEF Unknown, AnswerKinds
      <4>2. CASE a = Error(400, -32600, {})
        BY <1>4, <3>1, <4>2, ErrorShape DEF Unknown
      <4>3. CASE a \in {Error(200, MethodNotFound, {}), Error(404, MethodNotFound, {})}
        BY <1>0, <1>4, <3>1, <4>3, ErrorShape DEF Unknown
      <4> QED
        BY <2>1, <3>1, <4>1, <4>2, <4>3 DEF UnknownToOlder
    <3>2. CASE ~peer.http /\ a = Bare("timeout", 0)
      BY <1>4, <3>2, BareShape DEF Unknown, AnswerKinds
    <3>3. CASE ~peer.http /\ a # Bare("timeout", 0)
      <4>1. PICK code \in {-32600, MethodNotFound}, e \in BOOLEAN :
                a = [Error(200, code, {}) EXCEPT !.exits = e]
        BY <2>1, <3>3 DEF UnknownToOlder
      <4> QED
        BY <1>0, <1>4, <3>3, <4>1, ExitShape DEF Unknown
    <3> QED
      BY <3>1, <3>2, <3>3
  <2> QED
    BY <1>4, <2>2 DEF Honest
<1>5. CASE /\ method \in {"server/discover", "tools/list"} /\ Speaks(version)
           /\ peer.meta # {} /\ version \notin peer.meta
  <2>1. a = Error(400, UnsupportedVersion, peer.meta \cup peer.init)
    BY <1>5 DEF AnswersOfOther
  <2> QED
    BY <1>0, <1>5, <2>1, ErrorShape DEF Honest, Refused, Speaks
<1>6. CASE /\ method \in {"server/discover", "tools/list"}
           /\ ~(Speaks(version) /\ (peer.meta = {} \/ version \notin peer.meta))
  <2>1. a \in {Bare("bare", 400), Bare("bare", 404), Result(peer.meta \cup peer.init, Absent)}
    BY <1>6 DEF AnswersOfOther
  <2>2. method = "server/discover" => a = Result(peer.meta \cup peer.init, Absent)
    <3>1. method = "server/discover" => SessionHeader(t) = Absent /\ Speaks(version)
      BY StandIns DEF SessionHeader, Speaks
    <3> QED
      BY <1>6, <3>1 DEF AnswersOfOther
  <2>3. /\ a \in AnswerSet /\ a.kind \notin {"cancelled", "broken"} /\ a.session = Absent
        /\ ~a.exits
    BY <1>0, <2>1, BareShape, ResultShape DEF AnswerKinds
  <2> QED
    BY <1>0, <1>6, <2>2, <2>3, ResultShape DEF Honest, Speaks
<1> QED
  BY <1>1, <1>2, <1>3, <1>4, <1>5, <1>6 DEF Methods

(* ---------------- what this server answers ---------------- *)

LEMMA OwnNotification ==
    ASSUME NEW method \in Methods, NEW version
    PROVE  ThisServer(peer.meta)!IsNotification(Message(method, version))
           <=> method = "notifications/initialized"
<1>1. "id" # Absent
  BY StandIns DEF Words
<1> QED
  BY <1>1 DEF ThisServer!IsNotification, Message, Methods

LEMMA OwnVersions ==
    ASSUME peer.own, PeerHeld
    PROVE  /\ ThisServer(peer.meta)!SpokenInitialize = InitializeSupported
           /\ ThisServer(peer.meta)!SpokenVersions = peer.meta \cup peer.init
<1>1. /\ DOMAIN ThisServer(peer.meta)!InitializeVersions = {1, 2}
      /\ ThisServer(peer.meta)!InitializeVersions[1] = "2025-11-25"
      /\ ThisServer(peer.meta)!InitializeVersions[2] = "2025-06-18"
  BY DEF ThisServer!InitializeVersions
<1>2. ThisServer(peer.meta)!SpokenInitialize = InitializeSupported
  BY <1>1 DEF ThisServer!SpokenInitialize, InitializeSupported
<1> QED
  BY <1>2 DEF ThisServer!SpokenVersions, PeerHeld, Conforms

\* The headers this client writes agree with its body, so that no frame of its
\* is refused for them, and an initialize is carried out as it asks.
LEMMA OwnInitialize ==
    ASSUME peer.own, PeerHeld, NEW t \in Transports, NEW version \in InitializeSupported,
           t.version = version
    PROVE  LET m == Message("initialize", version) IN
           /\ ThisServer(peer.meta)!Admission(Headers(t, "initialize", version), m) = 0
           /\ ThisServer(peer.meta)!Refusal(m) = 0
           /\ ThisServer(peer.meta)!Negotiated(m) = version
<1> DEFINE m == Message("initialize", version)
           h == Headers(t, "initialize", version)
<1>1. ~Speaks(version)
  BY DEF Speaks, InitializeSupported, Discovery
<1>2. /\ m.json /\ m.id = "id" /\ m.jsonrpc /\ m.method = "initialize" /\ m.params = "object"
      /\ m.version = Absent /\ m.capabilities = Absent /\ m.requested = version /\ m.readable
      /\ m.arguments = Absent
  BY <1>1 DEF Message
<1>3. h.version \in {Absent, version} /\ h.method = Absent /\ h.name = Absent
  BY <1>1 DEF Headers, VersionHeader
<1> HIDE DEF m, h
<1>4. ThisServer(peer.meta)!LegacyMeta(m) /\ ThisServer(peer.meta)!Legacy(m)
  BY <1>2 DEF ThisServer!LegacyMeta, ThisServer!Legacy, ThisServer!DiscoveryMethods
<1>5. ThisServer(peer.meta)!MirrorsBody(h, m, FALSE)
  BY <1>2, <1>3 DEF ThisServer!MirrorsBody, ThisServer!HeaderAgrees
<1>6. version \in ThisServer(peer.meta)!SpokenInitialize
  BY OwnVersions
<1>7. h.version \notin {Twice, Malformed}
  <2>1. version \in Words
    BY VersionsKnown DEF Words
  <2> QED
    BY <1>3, <2>1, StandIns
<1>8. ThisServer(peer.meta)!Admission(h, m) = 0
  BY <1>3, <1>4, <1>5, <1>6, <1>7
  DEF ThisServer!Admission, ThisServer!LegacyAdmission, ThisServer!NoError
<1>9. ThisServer(peer.meta)!Refusal(m) = 0
  <2>1. "id" # IllTyped /\ "initialize" # IllTyped /\ "object" # IllTyped
    BY StandIns DEF Words
  <2> QED
    BY <1>2, <1>4, <2>1
    DEF ThisServer!Refusal, ThisServer!ParseVerdict, ThisServer!MetaVerdict,
        ThisServer!RouteVerdict, ThisServer!NoError
<1>10. ThisServer(peer.meta)!Negotiated(m) = version
  BY <1>2, <1>6 DEF ThisServer!Negotiated
<1> QED
  BY <1>8, <1>9, <1>10 DEF m, h

\* A probe is answered with what is served, or with the versions that are.
LEMMA OwnDiscover ==
    ASSUME peer.own, PeerHeld, NEW t \in Transports, t.version = Discovery
    PROVE  LET m == Message("server/discover", Discovery) IN
           /\ ThisServer(peer.meta)!Admission(Headers(t, "server/discover", Discovery), m) = 0
           /\ ThisServer(peer.meta)!Refusal(m)
              = IF Discovery \in peer.meta THEN 0 ELSE UnsupportedVersion
<1> DEFINE m == Message("server/discover", Discovery)
           h == Headers(t, "server/discover", Discovery)
<1>0. Discovery \in Words /\ "server/discover" \in Words /\ "id" \in Words /\ "object" \in Words
  BY VersionsKnown DEF Words
<1>1. Speaks(Discovery) /\ Discovery # Absent
  BY <1>0, StandIns DEF Speaks
<1>2. /\ m.json /\ m.id = "id" /\ m.jsonrpc /\ m.method = "server/discover"
      /\ m.params = "object" /\ m.version = Discovery /\ m.capabilities = "object"
      /\ m.arguments = Absent /\ m.target = Absent
  BY <1>1 DEF Message
<1>3. h.version = Discovery /\ h.method = "server/discover" /\ h.name = Absent
  BY <1>1 DEF Headers, VersionHeader
<1> HIDE DEF m, h
<1>4. ~ThisServer(peer.meta)!LegacyMeta(m) /\ ~ThisServer(peer.meta)!Legacy(m)
  BY <1>1, <1>2 DEF ThisServer!LegacyMeta, ThisServer!Legacy
<1>5. m.method \notin ThisServer(peer.meta)!NamedMethods
  BY <1>2 DEF ThisServer!NamedMethods
<1>6. ThisServer(peer.meta)!MirrorsBody(h, m, TRUE)
  BY <1>0, <1>2, <1>3, <1>5, StandIns
  DEF ThisServer!MirrorsBody, ThisServer!HeaderAgrees, ThisServer!NameOf
<1>7. ThisServer(peer.meta)!HeaderAgrees(h.version, m.version, TRUE)
  BY <1>0, <1>2, <1>3, StandIns DEF ThisServer!HeaderAgrees
<1>8. ThisServer(peer.meta)!Admission(h, m) = 0
  BY <1>4, <1>6, <1>7 DEF ThisServer!Admission, ThisServer!NoError
<1>9. ThisServer(peer.meta)!ParseVerdict(m) = 0
  BY <1>0, <1>2, StandIns DEF ThisServer!ParseVerdict, ThisServer!NoError
<1>10. ThisServer(peer.meta)!MetaVerdict(m)
       = IF Discovery \in peer.meta THEN 0 ELSE UnsupportedVersion
  <2>1. {m.version, m.capabilities} \cap {Absent, IllTyped} = {}
    BY <1>0, <1>2, StandIns
  <2>2. Discovery \notin ThisServer(peer.meta)!SpokenInitialize
    BY OwnVersions DEF InitializeSupported, Discovery
  <2> QED
    BY <1>2, <1>4, <2>1, <2>2
    DEF ThisServer!MetaVerdict, ThisServer!NoError, ThisServer!UnsupportedVersion,
        UnsupportedVersion
<1>11. ThisServer(peer.meta)!RouteVerdict(m) = 0
  <2>1. m.method \in ThisServer(peer.meta)!Methods
    BY <1>2 DEF ThisServer!Methods, ThisServer!BuiltIn, ThisServer!DiscoveryMethods
  <2> QED
    BY <1>2, <1>5, <2>1
    DEF ThisServer!RouteVerdict, ThisServer!ArgumentsVerdict, ThisServer!NoError
<1>12. ThisServer(peer.meta)!Refusal(m)
       = IF Discovery \in peer.meta THEN 0 ELSE UnsupportedVersion
  BY <1>9, <1>10, <1>11 DEF ThisServer!Refusal, ThisServer!NoError, UnsupportedVersion
<1> QED
  BY <1>8, <1>12 DEF m, h

LEMMA OwnCodes ==
    ASSUME NEW h, NEW m
    PROVE  /\ ThisServer(peer.meta)!Admission(h, m) \in Int
           /\ ThisServer(peer.meta)!Refusal(m) \in Int
           /\ \A code : ThisServer(peer.meta)!ReplyStatus(m, code) \in Nat
<1>1. ThisServer(peer.meta)!Admission(h, m) \in Int
  BY DEF ThisServer!Admission, ThisServer!LegacyAdmission, ThisServer!NoError,
         ThisServer!HeaderMismatch, ThisServer!InvalidParams, ThisServer!UnsupportedVersion
<1>2. ThisServer(peer.meta)!Refusal(m) \in Int
  BY DEF ThisServer!Refusal, ThisServer!ParseVerdict, ThisServer!MetaVerdict,
         ThisServer!RouteVerdict, ThisServer!ArgumentsVerdict, ThisServer!NoError,
         ThisServer!InvalidParams, ThisServer!UnsupportedVersion, ThisServer!ParseError,
         ThisServer!InvalidRequest, ThisServer!MethodNotFound
<1>3. \A code : ThisServer(peer.meta)!ReplyStatus(m, code) \in Nat
  BY DEF ThisServer!ReplyStatus, ThisServer!StatusFor
<1> QED
  BY <1>1, <1>2, <1>3

LEMMA OwnAnswers ==
    ASSUME peer.own, PeerHeld, CountsTyped, NEW t \in Transports, NEW method \in Methods,
           NEW version \in ClientVersions, NEW bearer \in Nat,
           t.version = version, method = "server/discover" => version = Discovery,
           method = "initialize" => version \in InitializeSupported,
           NEW a \in AnswersOfThisServer(t, method, version, bearer)
    PROVE  Honest(method, version, bearer, a)
<1> DEFINE m == Message(method, version)
           admitted == IF peer.http
                       THEN ThisServer(peer.meta)!Admission(Headers(t, method, version), m) ELSE 0
           code == IF admitted # 0 THEN admitted ELSE ThisServer(peer.meta)!Refusal(m)
           status == IF admitted # 0 THEN 400 ELSE ThisServer(peer.meta)!ReplyStatus(m, code)
<1>1. a \in IF method = "notifications/initialized" THEN {Bare("accepted", 202)}
            ELSE IF code # 0 THEN {Error(status, code, peer.meta \cup peer.init)}
            ELSE IF method = "initialize"
                 THEN {Result({ThisServer(peer.meta)!Negotiated(m)}, s) : s \in NewSessions(bearer)}
            ELSE {Result(peer.meta, Absent)}
  BY OwnNotification, OwnVersions, SMTT(30) DEF AnswersOfThisServer
<1>2. code \in Int /\ status \in Nat
  <2> HIDE DEF m
  <2>1. admitted \in Int
    BY OwnCodes
  <2> HIDE DEF admitted
  <2>2. code \in Int
    BY <2>1, OwnCodes
  <2> HIDE DEF code
  <2> QED
    BY <2>2, OwnCodes
<1>3. peer.meta \in SUBSET STRING /\ peer.meta \cup peer.init \in SUBSET STRING
  BY DEF PeerHeld, Conforms
<1>4. method = "initialize" => code = 0 /\ ThisServer(peer.meta)!Negotiated(m) = version
  BY OwnInitialize
<1>5. method = "server/discover" => code = IF Discovery \in peer.meta THEN 0 ELSE UnsupportedVersion
  BY OwnDiscover
<1> HIDE DEF code, status, admitted
<1>6. CASE method = "notifications/initialized"
  BY <1>1, <1>6, BareShape DEF Honest, AnswerKinds
<1>7. CASE method = "initialize"
  <2>1. PICK s \in NewSessions(bearer) : a = Result({version}, s)
    BY <1>1, <1>4, <1>7
  <2>2. s \in Session \cup {Absent} /\ (s # Absent => peer.http /\ s.bearer = bearer)
    BY <2>1, NewSessionsTyped
  <2>3. version \in peer.init /\ {version} \in SUBSET STRING
    BY <1>7, <1>3 DEF PeerHeld, Conforms
  <2> QED
    BY <1>7, <2>1, <2>2, <2>3, ResultShape DEF Honest
<1>8. CASE method \in {"server/discover", "tools/list"} /\ code # 0
  <2>1. a = Error(status, code, peer.meta \cup peer.init)
    BY <1>1, <1>8
  <2> QED
    BY <1>2, <1>3, <1>5, <1>8, <2>1, ErrorShape DEF Honest, Refused
<1>9. CASE method \in {"server/discover", "tools/list"} /\ code = 0
  <2>1. a = Result(peer.meta, Absent)
    BY <1>1, <1>9
  <2>2. UnsupportedVersion # 0
    BY DEF UnsupportedVersion
  <2> QED
    BY <1>3, <1>5, <1>9, <2>1, <2>2, ResultShape DEF Honest
<1> QED
  BY <1>6, <1>7, <1>8, <1>9 DEF Methods

(* ---------------- one attempt ---------------- *)

LEMMA VerdictOf ==
    ASSUME NEW t, NEW a \in AnswerSet
    PROVE  /\ Verdict(t, a) = "ok" <=> a.kind \in {"result", "accepted"}
           /\ Verdict(t, a) = "cancelled" <=> a.kind = "cancelled"
           /\ Verdict(t, a) = "auth" <=> a.kind = "unauthorized"
           /\ Verdict(t, a) = "timeout" <=> a.kind = "timeout"
           /\ Verdict(t, a) = "rpc" => a.kind = "error"
           /\ Verdict(t, a) = "transport" => a.kind = "broken" \/ (a.kind = "bare" /\ a.status = 400)
           /\ t.session = Absent =>
                /\ a.kind = "error" => Verdict(t, a) = "rpc"
                /\ a.kind = "bare" => Verdict(t, a) = IF a.status = 400 THEN "transport" ELSE "plain"
           /\ a.kind = "broken" => Verdict(t, a) = "transport"
           /\ a.kind = "nothing" => Verdict(t, a) = "plain"
<1>1. a.kind \in AnswerKinds
  BY DEF AnswerSet
<1>2. CASE a.kind \in {"result", "accepted", "cancelled", "unauthorized", "timeout", "broken",
                       "nothing"}
  BY <1>2, ZenonT(60) DEF Verdict
<1>3. CASE a.kind = "error"
  BY <1>3 DEF Verdict
<1>4. CASE a.kind = "bare"
  BY <1>4 DEF Verdict
<1> QED
  BY <1>1, <1>2, <1>3, <1>4 DEF AnswerKinds

LEMMA Answered ==
    ASSUME PeerHeld, CountsTyped, NEW t \in Transports, NEW method \in Methods,
           NEW version \in ClientVersions, NEW bearer \in Nat,
           t.version = version, method = "server/discover" => version = Discovery,
           method = "initialize" => version \in InitializeSupported,
           NEW a \in Answers(t, method, version, bearer)
    PROVE  \/ client.ended /\ a = Bare("cancelled", 0)
           \/ ~client.ended /\ ~peer.http /\ t.channel = "gone" /\ a = Bare("broken", 0)
           \/ ~client.ended /\ (peer.http \/ t.channel # "gone")
                /\ Honest(method, version, bearer, a)
<1>1. CASE peer.own
  BY <1>1, OwnAnswers DEF Answers
<1>2. CASE ~peer.own
  BY <1>2, OthersAnswer DEF Answers
<1> QED
  BY <1>1, <1>2

\* What an attempt leaves of the transport it was made over.
LEMMA AfterTyped ==
    ASSUME NEW t \in Transports, NEW a \in AnswerSet, NEW bearer
    PROVE  /\ After(t, a, bearer) \in Transports
           /\ After(t, a, bearer).session \in {Absent, t.session, a.session}
           /\ ~peer.http \/ Speaks(t.version) => After(t, a, bearer).session \in {Absent, t.session}
           /\ After(t, a, bearer).session # Absent => After(t, a, bearer).version = t.version
           /\ After(t, a, bearer).channel = "gone"
              => t.channel = "gone" \/ (~peer.http /\ (a.kind = "broken" \/ a.exits))
           /\ peer.http /\ a.status # 0 => After(t, a, bearer).status = a.status
<1>1. CASE ~peer.http
  BY <1>1 DEF After, Transports, AnswerSet
<1>2. CASE peer.http
  <2> DEFINE read == [t EXCEPT
                !.status = IF a.status = 0 THEN @ ELSE a.status,
                !.session = IF a.session = Absent \/ Speaks(t.version) THEN @ ELSE a.session,
                !.initialized = @ \/ (a.status \in 200..299 /\ ~Speaks(t.version))]
  <2>1. /\ read \in Transports /\ read.version = t.version /\ read.channel = t.channel
        /\ read.session = IF a.session = Absent \/ Speaks(t.version) THEN t.session ELSE a.session
        /\ read.status = IF a.status = 0 THEN t.status ELSE a.status
    BY ZenonT(60) DEF Transports, AnswerSet
  <2>2. After(t, a, bearer) = IF Resets(t, a) THEN Reset(read) ELSE read
    BY <1>2 DEF After
  <2> HIDE DEF read
  <2> QED
    BY <1>2, <2>1, <2>2, ResetTyped
<1> QED
  BY <1>1, <1>2

LEMMA AfterHeld ==
    ASSUME NEW t \in Transports, NEW a \in AnswerSet, SessionHeld(t),
           a.session # Absent => peer.http /\ a.session.bearer = client.bearer,
           Speaks(t.version) \/ t.version \in InitializeSupported
    PROVE  SessionHeld(After(t, a, client.bearer))
<1> DEFINE u == After(t, a, client.bearer)
<1>1. /\ u.session \in {Absent, t.session, a.session}
      /\ Speaks(t.version) => u.session \in {Absent, t.session}
      /\ u.session # Absent => u.version = t.version
  BY AfterTyped
<1> HIDE DEF u
<1> SUFFICES SessionHeld(u)
  BY DEF u
<1>2. CASE u.session = Absent
  BY <1>2 DEF SessionHeld
<1>3. CASE u.session # Absent /\ u.session = t.session
  BY <1>1, <1>3 DEF SessionHeld
<1>4. CASE u.session # Absent /\ u.session = a.session /\ u.session # t.session
  BY <1>1, <1>4 DEF SessionHeld
<1> QED
  BY <1>1, <1>2, <1>3, <1>4

(* ---------------- how a handshake goes on ---------------- *)

\* The peer and the pin stay, and failures only add up.
Carried ==
    UNCHANGED <<peer, pin>> /\ failures' \in Nat /\ failures' >= failures /\ opened' \in Nat
Shaking == client.at \in {"discover", "initialize", "announce"}

LEMMA FailKeeps ==
    ASSUME Held, Carried, Shaking, NEW t \in Transports, Fail(t),
           failures' > 0 \/ NothingShared
    PROVE  Held'
<1>1. /\ client' = [client EXCEPT !.at = "rest", !.told = "failed", !.connected = FALSE]
      /\ client' = [client' EXCEPT !.at = "rest"]
  BY DEF Fail, Rest, Held, Typed, ClientTyped
<1>2. transport' \in Transports /\ transport'.session = Absent /\ transport'.channel = "closed"
  BY ResetTyped DEF Fail
<1>3. ClientTyped'
  BY <1>1 DEF Held, Typed, ClientTyped, Version
<1>4. PeerHeld'
  BY DEF Held, PeerHeld, Conforms, Carried
<1>5. TransportTyped' /\ CountsTyped'
  BY <1>2 DEF TransportTyped, CountsTyped, Transports, Carried, Version
<1>6. /\ client'.at = "rest" /\ client'.told = "failed" /\ ~client'.connected
      /\ client'.ended = client.ended
  BY <1>1 DEF Held, Typed, ClientTyped
<1>7. SessionsHeld'
  BY <1>2 DEF SessionsHeld, SessionHeld
<1>8. Standing' /\ Offered'
  BY <1>6 DEF Standing, Offered, FailureIsNotAnEra
<1>9. NothingShared' = NothingShared
  BY DEF NothingShared, Carried
<1>10. Blameless'
  <2>1. client'.ended => failures' > 0
    BY <1>6 DEF Held, Blameless, Carried, Typed, CountsTyped
  <2> QED
    BY <1>2, <1>9, <2>1 DEF Blameless, Carried
<1> QED
  BY <1>3, <1>4, <1>5, <1>7, <1>8, <1>10 DEF Held, Typed

LEMMA GoKeeps ==
    ASSUME Held, Carried, Shaking \/ client.at = "handshake", NEW at, NEW why \in Reasons,
           NEW version \in ClientVersions, at \in {"discover", "initialize", "announce"},
           client' \in {Go(at, why, version), [Go(at, why, version) EXCEPT !.conn = NoConnection]},
           transport' \in Transports, SessionHeld(transport'),
           at = "initialize" => transport'.session = Absent,
           failures' = 0 /\ transport'.channel = "gone"
             => ~peer.http /\ at = "initialize" /\ why = "fallback",
           Offered'
    PROVE  Held'
<1>1. PICK conn \in {NoConnection, client.conn} :
          client' = [client EXCEPT !.at = at, !.why = why, !.version = version, !.conn = conn]
  <2>1. CASE client' = Go(at, why, version)
    <3>1. client' = [client EXCEPT !.at = at, !.why = why, !.version = version,
                                   !.conn = client.conn]
      BY <2>1 DEF Go, Held, Typed, ClientTyped
    <3> QED
      BY <3>1
  <2>2. CASE client' = [Go(at, why, version) EXCEPT !.conn = NoConnection]
    <3>1. client' = [client EXCEPT !.at = at, !.why = why, !.version = version,
                                   !.conn = NoConnection]
      BY <2>2 DEF Go, Held, Typed, ClientTyped
    <3> QED
      BY <3>1
  <2> QED
    BY <2>1, <2>2
<1>2. ClientTyped'
  BY <1>1 DEF Held, Typed, ClientTyped, Version
<1>3. /\ client'.at = at /\ client'.why = why /\ client'.connected = client.connected
      /\ client'.ended = client.ended /\ client'.bearer = client.bearer
      /\ client'.told = client.told
  BY <1>1 DEF Held, Typed, ClientTyped
<1>4. ~client'.connected
  BY <1>3 DEF Held, Standing, Shaking
<1>5. PeerHeld'
  BY DEF Held, PeerHeld, Conforms, Carried
<1>6. TransportTyped' /\ CountsTyped'
  BY DEF TransportTyped, CountsTyped, Transports, Carried
<1>7. SessionsHeld'
  <2>1. SessionHeld(transport)'
    BY <1>3 DEF SessionHeld, Carried
  <2> QED
    BY <1>3, <2>1 DEF SessionsHeld
<1>8. Standing'
  BY <1>3, <1>4 DEF Standing, FailureIsNotAnEra
<1>9. Blameless'
  <2>1. NothingShared' = NothingShared
    BY DEF NothingShared, Carried
  <2>2. client'.ended => failures' > 0
    BY <1>3 DEF Held, Blameless, Carried, Typed, CountsTyped
  <2>3. client'.told = "failed" => failures' > 0 \/ NothingShared'
    BY <1>3, <2>1 DEF Held, Blameless, Carried, Typed, CountsTyped
  <2> QED
    BY <1>3, <2>2, <2>3 DEF Blameless, Carried
<1> QED
  BY <1>2, <1>5, <1>6, <1>7, <1>8, <1>9 DEF Held, Typed

LEMMA SettleKeeps ==
    ASSUME Held, Carried, Shaking, NEW t \in Transports, NEW version \in ClientVersions,
           Settle(t, version), SessionHeld(t), Served(version), pin \in {Absent, version},
           failures' = 0 => t.channel # "gone",
           pin = Absent /\ peer.http /\ Discovery \in peer.meta /\ client.why # "remembered"
             => Speaks(version)
    PROVE  Held'
<1> DEFINE conn == [version |-> version, context |-> client.bearer, via |-> client.why,
                    since |-> peer.n]
<1>1. PICK at \in {"rest", "request"}, told \in {"answered", client.told} :
          client' = [client EXCEPT !.connected = TRUE, !.conn = conn, !.at = at, !.told = told]
  BY DEF Settle, Established, Held, Typed, ClientTyped
<1>2. conn \in Connection /\ conn.version = version /\ conn.context = client.bearer
      /\ conn.via = client.why /\ conn.since = peer.n
  BY DEF Connection, Held, Typed, ClientTyped, PeerHeld, Conforms
<1> HIDE DEF conn
<1>3. ClientTyped'
  BY <1>1, <1>2 DEF Held, Typed, ClientTyped
<1>4. /\ client'.at = at /\ client'.connected /\ client'.conn = conn
      /\ client'.ended = client.ended /\ client'.bearer = client.bearer
      /\ client'.told = told
  BY <1>1 DEF Held, Typed, ClientTyped
<1>5. transport' = t
  BY DEF Settle
<1>6. PeerHeld'
  BY DEF Held, PeerHeld, Conforms, Carried
<1>7. TransportTyped' /\ CountsTyped'
  BY <1>5 DEF TransportTyped, CountsTyped, Transports, Carried
<1>8. SessionsHeld'
  <2>1. SessionHeld(transport)'
    BY <1>4, <1>5 DEF SessionHeld, Carried
  <2> QED
    BY <1>1, <1>4, <2>1 DEF SessionsHeld
<1>9. Standing'
  <2>1. Served(client.conn.version)'
    BY <1>2, <1>4 DEF Served, Carried
  <2>2. peer'.n \in Nat /\ client'.conn.since = peer'.n
    BY <1>2, <1>4 DEF Held, PeerHeld, Conforms, Carried
  <2>3. pin' \in {Absent, client'.conn.version}
    BY <1>2, <1>4 DEF Carried
  <2>4. FailureIsNotAnEra'
    BY <1>2, <1>4 DEF FailureIsNotAnEra, Carried
  <2> QED
    BY <1>1, <1>2, <1>4, <2>1, <2>2, <2>3, <2>4 DEF Standing
<1>10. Offered'
  BY <1>1, <1>4 DEF Offered
<1>11. Blameless'
  <2>1. NothingShared' = NothingShared
    BY DEF NothingShared, Carried
  <2>2. client'.ended => failures' > 0
    BY <1>4 DEF Held, Blameless, Carried, Typed, CountsTyped
  <2>3. client'.told = "failed" => failures' > 0 \/ NothingShared'
    BY <1>1, <1>4, <2>1 DEF Held, Blameless, Carried, Typed, CountsTyped
  <2> QED
    BY <1>5, <2>2, <2>3 DEF Blameless
<1> QED
  BY <1>3, <1>6, <1>7, <1>8, <1>9, <1>10, <1>11 DEF Held, Typed

(* ---------------- the attempts of a handshake ---------------- *)

LEMMA Attempting ==
    ASSUME Held, NEW method \in Methods, NEW version \in ClientVersions,
           method = "server/discover" => version = Discovery,
           method = "initialize" => version \in InitializeSupported,
           NEW failing \in BOOLEAN, NEW a, NEW t, t = UseProtocol(transport, version),
           Attempted(t, method, version, failing, a)
    PROVE  /\ Carried /\ a \in AnswerSet
           /\ t \in Transports /\ t.version = version /\ SessionHeld(t)
           /\ t.channel = transport.channel
           /\ Speaks(version) => t.session = Absent
           /\ transport.session = Absent => t.session = Absent
           /\ failures' = 0 => failures = 0 /\ ~failing /\ ~client.ended
           /\ failing => a \in Interference /\ failures' > 0
           /\ ~failing =>
                \/ client.ended /\ a = Bare("cancelled", 0)
                \/ ~client.ended /\ ~peer.http /\ t.channel = "gone" /\ a = Bare("broken", 0)
                \/ ~client.ended /\ (peer.http \/ t.channel # "gone")
                     /\ Honest(method, version, client.bearer, a)
           /\ a.session # Absent => method = "initialize" /\ peer.http
                                     /\ a.session.bearer = client.bearer
<1>1. failures \in Nat /\ opened \in Nat /\ client.bearer \in Nat /\ transport \in Transports
  BY DEF Held, Typed, CountsTyped, ClientTyped, TransportTyped, Transports
<1>2. Carried
  BY <1>1 DEF Attempted, Carried
<1>3. /\ t \in Transports /\ t.version = version /\ t.channel = transport.channel
      /\ t.session \in {transport.session, Absent}
      /\ transport.version # Absent /\ Speaks(transport.version) # Speaks(version)
         => t.session = Absent
  BY <1>1, UseProtocolTyped
<1>4. SessionHeld(transport)
  BY DEF Held, SessionsHeld
<1>5. transport.session # Absent => transport.version # Absent /\ ~Speaks(transport.version)
  <2>1. \A v \in InitializeSupported : v # Absent /\ ~Speaks(v)
    BY VersionsKnown, StandIns DEF InitializeSupported, Speaks, Discovery
  <2> QED
    BY <1>4, <2>1 DEF SessionHeld
<1>6. Speaks(version) => t.session = Absent
  BY <1>3, <1>5
<1>7. SessionHeld(t)
  <2>1. CASE t.session = Absent
    BY <2>1 DEF SessionHeld
  <2>2. CASE t.session # Absent
    <3>1. t.session = transport.session /\ ~Speaks(version)
      BY <1>3, <1>6, <2>2
    <3>2. t.version \in InitializeSupported
      BY <1>3, <3>1, VersionsKnown DEF Speaks
    <3> QED
      BY <1>4, <2>2, <3>1, <3>2 DEF SessionHeld
  <2> QED
    BY <2>1, <2>2
<1>8. failing => a \in Interference /\ failures' > 0
  BY <1>1 DEF Attempted
<1>9. ~failing => a \in Answers(t, method, version, client.bearer) /\ failures' = failures
  BY DEF Attempted
<1>10. ~failing =>
            \/ client.ended /\ a = Bare("cancelled", 0)
            \/ ~client.ended /\ ~peer.http /\ t.channel = "gone" /\ a = Bare("broken", 0)
            \/ ~client.ended /\ (peer.http \/ t.channel # "gone")
                 /\ Honest(method, version, client.bearer, a)
  <2> SUFFICES ASSUME ~failing
               PROVE  \/ client.ended /\ a = Bare("cancelled", 0)
                      \/ ~client.ended /\ ~peer.http /\ t.channel = "gone" /\ a = Bare("broken", 0)
                      \/ ~client.ended /\ (peer.http \/ t.channel # "gone")
                           /\ Honest(method, version, client.bearer, a)
    OBVIOUS
  <2>1. PeerHeld /\ CountsTyped
    BY DEF Held, Typed
  <2> QED
    BY <1>1, <1>3, <1>9, <2>1, Answered
<1>11. a \in AnswerSet /\ (a.session # Absent => method = "initialize" /\ peer.http
                                                  /\ a.session.bearer = client.bearer)
  <2>1. CASE failing
    BY <1>8, <2>1, Struck
  <2>2. CASE a \in {Bare("cancelled", 0), Bare("broken", 0)}
    <3>1. PICK kind \in {"cancelled", "broken"} : a = Bare(kind, 0)
      BY <2>2
    <3> QED
      BY <3>1, BareShape DEF AnswerKinds
  <2>3. CASE Honest(method, version, client.bearer, a)
    BY <2>3 DEF Honest
  <2> QED
    BY <1>10, <2>1, <2>2, <2>3
<1>12. failures' = 0 => failures = 0 /\ ~failing /\ ~client.ended
  BY <1>1, <1>8, <1>9 DEF Held, Blameless
<1> QED
  BY <1>2, <1>3, <1>6, <1>7, <1>8, <1>10, <1>11, <1>12

\* What is known of a probe that came to nothing: over t, with a, leaving u.
Probed(t, a, u) ==
    /\ a \in AnswerSet /\ t.session = Absent /\ t.channel = transport.channel
    /\ u \in Transports /\ SessionHeld(u) /\ u.session = Absent
    /\ u.channel = "gone" => t.channel = "gone" \/ (~peer.http /\ (a.kind = "broken" \/ a.exits))
    /\ peer.http /\ a.status # 0 => u.status = a.status
Told(t, a, failing) ==
    /\ failing => a \in Interference /\ failures' > 0
    /\ ~failing =>
            \/ client.ended /\ a = Bare("cancelled", 0)
            \/ ~client.ended /\ ~peer.http /\ t.channel = "gone" /\ a = Bare("broken", 0)
            \/ ~client.ended /\ (peer.http \/ t.channel # "gone")
                 /\ Honest("server/discover", Discovery, client.bearer, a)
    /\ failures' = 0 => failures = 0
    /\ failures' = 0 =>
            ~client.ended /\ Discovery \notin peer.meta /\ (Refused(a) \/ Unknown(a))

\* A probe that fails falls back only on a server that told it is of the older
\* era, negotiates down only to what that server named, and gives up otherwise.
LEMMA ProbeFailsKeeps ==
    ASSUME Held, Carried, client.at = "discover", client.why = "probe", pin = Absent,
           NEW failing \in BOOLEAN, NEW a, NEW t, NEW u, Probed(t, a, u), Told(t, a, failing),
           NEW verdict, verdict = Verdict(t, a), verdict # "ok",
           ProbeFails(u, a, verdict)
    PROVE  Held'
<1> USE DEF Probed, Told
<1> DEFINE named == ~Unanswered(a) /\ verdict = "rpc" /\ IdentifiesDiscoveryServer(a.code)
           legacy == /\ ~Unanswered(a) /\ ~client.ended
                     /\ \/ verdict \in {"transport", "timeout"}
                        \/ /\ verdict = "rpc" /\ ~IdentifiesDiscoveryServer(a.code)
                           /\ AnsweredAsLegacy(u, a)
<1>0. Shaking
  BY DEF Shaking
<1>1. /\ named => NegotiateDown(u, a.versions)
      /\ legacy => FallBack(u)
      /\ ~named /\ ~legacy => Fail(u)
  <2>1. ~(named /\ legacy)
    OBVIOUS
  <2> QED
    BY <2>1 DEF ProbeFails
<1>2. /\ ~IdentifiesDiscoveryServer(InternalError) /\ ~IdentifiesDiscoveryServer(MethodNotFound)
      /\ ~IdentifiesDiscoveryServer(-32600) /\ IdentifiesDiscoveryServer(UnsupportedVersion)
      /\ InternalError # MethodNotFound
  BY DEF IdentifiesDiscoveryServer, InternalError, MethodNotFound, UnsupportedVersion
<1>3. failing => ~named
  BY <1>2, Struck, VerdictOf
\* Its own words tell whose they are.
<1>4. Refused(a) => named
  BY <1>2, VerdictOf DEF Refused, Unanswered
<1>5. Unknown(a) /\ ~client.ended => legacy
  <2> SUFFICES ASSUME Unknown(a), ~client.ended PROVE legacy
    OBVIOUS
  <2>1. CASE peer.http /\ a.kind = "bare" /\ a.status = 400
    BY <2>1, VerdictOf DEF Unanswered
  <2>2. CASE a.kind = "error" /\ a.code \in {-32600, MethodNotFound}
             /\ (peer.http => a.status = 400 \/ a.code = MethodNotFound)
    <3>1. AnsweredAsLegacy(u, a)
      BY <2>2 DEF AnsweredAsLegacy
    <3> QED
      BY <1>2, <2>2, <3>1, VerdictOf DEF Unanswered
  <2>3. CASE ~peer.http /\ a.kind = "timeout"
    BY <2>3, VerdictOf DEF Unanswered
  <2> QED
    BY <2>1, <2>2, <2>3 DEF Unknown
<1>6. CASE ~named /\ ~legacy
  <2>1. failures' > 0
    BY <1>4, <1>5, <1>6 DEF Carried
  <2> QED
    BY <1>0, <1>1, <1>6, <2>1, FailKeeps
<1>7. CASE named
  <2>1. ~failing /\ Honest("server/discover", Discovery, client.bearer, a)
    <3>1. a.kind = "error"
      BY <1>7, VerdictOf, ZenonT(60)
    <3>2. Bare("cancelled", 0).kind = "cancelled" /\ Bare("broken", 0).kind = "broken"
      BY BareShape DEF AnswerKinds
    <3> QED
      BY <1>3, <1>7, <3>1, <3>2
  <2>2. Discovery \notin peer.meta /\ Refused(a)
    <3>1. a.kind = "error"
      BY <1>7, VerdictOf, ZenonT(60)
    <3>2. Discovery \notin peer.meta /\ (Refused(a) \/ Unknown(a))
      BY <2>1, <3>1 DEF Honest
    <3> QED
      BY <1>2, <1>7, <3>1, <3>2 DEF Unknown
  <2>3. PICK v : v = Preferred(a.versions)
    OBVIOUS
  <2>4. IF v = Absent \/ Speaks(v) THEN Fail(u)
        ELSE client' = Go("initialize", "down", v) /\ transport' = u
    BY <1>1, <1>7, <2>3 DEF NegotiateDown
  <2>5. a.versions = peer.meta \cup peer.init
    BY <2>2 DEF Refused
  <2>6. CASE v = Absent
    <3>1. NothingShared
      BY <2>3, <2>5, <2>6 DEF NothingShared
    <3> QED
      BY <1>0, <2>4, <2>6, <3>1, FailKeeps
  <2>7. CASE v # Absent
    <3>1. v \in ClientVersions /\ v \in peer.meta \cup peer.init
      BY <2>3, <2>5, <2>7, PreferredVersion DEF Version
    <3>2. v # Discovery /\ v \in InitializeSupported /\ v \in peer.init
      BY <2>2, <3>1, VersionsKnown DEF Held, PeerHeld, Conforms
    <3>3. client' = Go("initialize", "down", v) /\ transport' = u
      BY <2>4, <2>7, <3>2 DEF Speaks
    <3>4. client'.at = "initialize" /\ client'.why = "down" /\ client'.version = v
      BY <3>3 DEF Go, Held, Typed, ClientTyped
    <3>5. Offered'
      BY <2>2, <3>2, <3>4 DEF Offered, Carried
    <3>6. failures' = 0 => u.channel # "gone"
      BY <2>2 DEF Held, Blameless, Refused
    <3>7. "down" \in Reasons
      BY DEF Reasons
    <3> QED
      BY <1>0, <3>1, <3>3, <3>5, <3>6, <3>7, GoKeeps
  <2> QED
    BY <2>6, <2>7
<1>8. CASE legacy
  <2>1. client' = Go("initialize", "fallback", "2025-11-25") /\ transport' = Connected(u)
    BY <1>1, <1>8 DEF FallBack
  <2>2. client'.at = "initialize" /\ client'.why = "fallback" /\ client'.version = "2025-11-25"
    BY <2>1 DEF Go, Held, Typed, ClientTyped
  <2>3. peer.http => Discovery \notin peer.meta
    <3> SUFFICES ASSUME peer.http PROVE Discovery \notin peer.meta
      OBVIOUS
    <3>1. a.kind \in {"bare", "error"} /\ (a.kind = "bare" => a.status = 400)
          /\ (a.kind = "error" => u.status = 400 \/ a.code = MethodNotFound)
      <4>1. a.kind \notin {"timeout", "broken"}
        BY <1>8 DEF Unanswered
      <4> QED
        BY <1>8, <4>1, VerdictOf DEF AnsweredAsLegacy
    <3>2. ~failing
      BY <1>2, <3>1, Struck
    <3>3. Bare("cancelled", 0).kind = "cancelled" /\ Bare("broken", 0).kind = "broken"
      BY BareShape DEF AnswerKinds
    <3>4. Honest("server/discover", Discovery, client.bearer, a)
      BY <3>1, <3>2, <3>3
    <3> QED
      BY <3>1, <3>4 DEF Honest
  <2>4. failures' = 0 => peer.meta = {}
    <3>1. Refused(a) => ~legacy
      BY <1>4
    <3> QED
      BY <1>8, <3>1 DEF Unknown
  <2>5. Offered'
    BY <2>2, <2>3, <2>4 DEF Offered, Carried, InitializeSupported
  <2>6. transport' \in Transports /\ transport'.session = Absent
    BY <2>1, ConnectedTyped
  <2>7. "fallback" \in Reasons /\ "2025-11-25" \in ClientVersions
    BY VersionsKnown DEF Reasons, InitializeSupported
  <2>8. failures' = 0 /\ transport'.channel = "gone" => ~peer.http
    <3>1. failures = 0 => t.channel # "gone"
      BY DEF Held, Blameless
    <3> QED
      BY <2>1, <3>1, ConnectedTyped
  <2> QED
    BY <1>0, <2>1, <2>5, <2>6, <2>7, <2>8, GoKeeps DEF SessionHeld
<1> QED
  BY <1>6, <1>7, <1>8

\* A probe settles, ends, or goes on to the older handshake by what was told.
LEMMA DiscoverKeeps ==
    ASSUME Held, Discover
    PROVE  Held'
<1>1. client.at = "discover" /\ client.version = Discovery /\ Shaking
  BY DEF Held, Offered, Discover, Shaking
<1>2. PICK t : t = UseProtocol(transport, Discovery)
  OBVIOUS
<1>3. PICK failing, a :
          /\ failing \in BOOLEAN
          /\ Discovered(After(t, a, client.bearer), a)
          /\ Attempted(t, "server/discover", Discovery, failing, a)
  BY <1>1, <1>2 DEF Discover, Attempt
<1>4. /\ Carried /\ a \in AnswerSet
      /\ t \in Transports /\ t.version = Discovery /\ SessionHeld(t)
      /\ t.channel = transport.channel
      /\ t.session = Absent
      /\ failures' = 0 => failures = 0 /\ ~failing /\ ~client.ended
      /\ failing => a \in Interference /\ failures' > 0
      /\ ~failing =>
            \/ client.ended /\ a = Bare("cancelled", 0)
            \/ ~client.ended /\ ~peer.http /\ t.channel = "gone" /\ a = Bare("broken", 0)
            \/ ~client.ended /\ (peer.http \/ t.channel # "gone")
                 /\ Honest("server/discover", Discovery, client.bearer, a)
      /\ a.session = Absent
  <2>1. "server/discover" \in Methods /\ Discovery \in ClientVersions /\ Speaks(Discovery)
    BY VersionsKnown DEF Methods, Speaks
  <2> QED
    BY <1>2, <1>3, <2>1, Attempting
<1>5. PICK u : u = After(t, a, client.bearer)
  OBVIOUS
<1>6. /\ u \in Transports /\ SessionHeld(u) /\ u.session = Absent
      /\ u.channel = "gone" => t.channel = "gone" \/ (~peer.http /\ (a.kind = "broken" \/ a.exits))
      /\ peer.http /\ a.status # 0 => u.status = a.status
  <2>1. SessionHeld(u)
    BY <1>4, <1>5, AfterHeld DEF Speaks
  <2> QED
    BY <1>4, <1>5, <2>1, AfterTyped
<1>7. PICK verdict : verdict = Verdict(t, a)
  OBVIOUS
<1>8. PICK v : v = Preferred(a.versions)
  OBVIOUS
<1>9. IF verdict # "ok"
      THEN IF client.why = "probe" THEN ProbeFails(u, a, verdict) ELSE Fail(u)
      ELSE IF v = Absent \/ (client.why = "pinned" /\ v # pin) THEN Fail(u)
      ELSE IF Speaks(v) THEN Settle(u, v)
      ELSE client' = Go("initialize", "settled", v) /\ transport' = u
  BY <1>1, <1>2, <1>3, <1>5, <1>7, <1>8, Zenon DEF Discovered
<1>10. a.kind = "broken" /\ ~failing => failures # 0
  \* A process is gone before the probe only for a failure.
  <2>1. failures = 0 => t.channel # "gone"
    BY <1>1, <1>4 DEF Held, Blameless
  <2>2. Bare("cancelled", 0).kind # "broken"
    BY BareShape DEF AnswerKinds
  <2> QED
    BY <1>4, <2>1, <2>2 DEF Held, Blameless, Honest
<1>11. /\ client.why \in {"probe", "pinned"} /\ (client.why = "pinned" <=> pin # Absent)
       /\ pin \in {Absent, Discovery}
  BY <1>1 DEF Held, Offered
<1>12. CASE verdict = "ok"
  <2>1. a.kind \in {"result", "accepted"}
    BY <1>4, <1>7, <1>12, VerdictOf, ZenonT(60)
  <2>2. ~failing /\ Honest("server/discover", Discovery, client.bearer, a)
    <3>1. ~failing
      BY <1>4, <2>1, Struck
    <3>2. Bare("cancelled", 0).kind = "cancelled" /\ Bare("broken", 0).kind = "broken"
      BY BareShape DEF AnswerKinds
    <3> QED
      BY <1>4, <2>1, <3>1, <3>2
  <2>3. Discovery \in peer.meta /\ Discovery \in a.versions /\ ~a.exits
    BY <2>1, <2>2 DEF Honest, Refused, Unknown
  <2>4. v = Discovery /\ Speaks(v) /\ v # Absent /\ v \in ClientVersions
    BY <1>8, <2>3, PreferredVersion, StandIns, VersionsKnown DEF Speaks
  <2>5. Settle(u, v)
    BY <1>9, <1>11, <1>12, <2>4
  <2>6. failures' = 0 => u.channel # "gone"
    BY <1>1, <1>4, <1>6, <2>1, <2>3 DEF Held, Blameless
  <2>7. Served(v) /\ pin \in {Absent, v}
    BY <1>11, <2>3, <2>4 DEF Served
  <2> QED
    BY <1>1, <1>4, <1>6, <2>4, <2>5, <2>6, <2>7, SettleKeeps
\* Without a failure, the server told its era.
<1>13. CASE verdict # "ok"
  <2>1. failures' = 0 => /\ ~client.ended /\ Discovery \notin peer.meta
                         /\ Refused(a) \/ Unknown(a)
    <3> SUFFICES ASSUME failures' = 0
                 PROVE  ~client.ended /\ Discovery \notin peer.meta /\ (Refused(a) \/ Unknown(a))
      OBVIOUS
    <3>1. failures = 0 /\ ~failing /\ ~client.ended
      BY <1>4
    <3>2. t.channel # "gone"
      BY <1>1, <1>4, <3>1 DEF Held, Blameless
    <3>3. Honest("server/discover", Discovery, client.bearer, a)
      BY <1>4, <3>1, <3>2
    <3>4. a.kind # "result"
      BY <1>4, <1>7, <1>13, VerdictOf
    <3> QED
      BY <3>1, <3>3, <3>4 DEF Honest
  <2>2. CASE client.why = "pinned"
    <3>1. Fail(u)
      BY <1>9, <1>13, <2>2
    <3>2. pin = Discovery /\ pin # Absent
      BY <1>11, <2>2, StandIns, VersionsKnown
    <3>3. failures' > 0 \/ NothingShared
      BY <1>4, <2>1, <3>2 DEF NothingShared, Speaks, Carried
    <3> QED
      BY <1>1, <1>4, <1>6, <3>1, <3>3, FailKeeps
  <2>3. CASE client.why = "probe"
    <3>1. ProbeFails(u, a, verdict) /\ pin = Absent
      BY <1>9, <1>11, <1>13, <2>3
    <3> QED
      <4>1. Probed(t, a, u)
        BY <1>4, <1>6 DEF Probed
      <4>2. Told(t, a, failing)
        BY <1>4, <2>1 DEF Told
      <4>3. failing \in BOOLEAN
        BY <1>3
      <4> QED
        BY <1>1, <1>4, <1>7, <1>13, <2>3, <3>1, <4>1, <4>2, <4>3, ProbeFailsKeeps
  <2> QED
    BY <1>11, <2>2, <2>3
<1> QED
  BY <1>12, <1>13

\* Without a failure, an initialize that fails was offered for what is known of
\* the server, or there is nothing to offer it, or its process had gone.
Spurned(u, verdict) ==
    /\ u \in Transports /\ SessionHeld(u)
    /\ failures' = 0 =>
        /\ failures = 0 /\ ~client.ended /\ verdict # "auth" /\ client.at = "initialize"
        /\ \/ client.why = "remembered" /\ u.channel # "gone"
           \/ client.why # "remembered" /\ NothingShared
           \/ client.why = "fallback" /\ verdict = "transport"

LEMMA InitializeFailsKeeps ==
    ASSUME Held, Carried, client.at \in {"initialize", "announce"},
           NEW u, NEW a, NEW verdict, Spurned(u, verdict), InitializeFails(u, a, verdict)
    PROVE  Held'
<1> DEFINE known == client.why = "remembered" /\ verdict # "auth" /\ ~client.ended
           gone == client.why = "fallback" /\ verdict = "transport" /\ ~client.ended
<1>0. Shaking /\ u \in Transports /\ SessionHeld(u)
  BY DEF Shaking, Spurned
<1>1. /\ client.why \in {"fallback", "again", "down", "remembered", "pinned"}
      /\ client.why = "pinned" <=> pin # Absent
  BY DEF Held, Offered
<1>2. /\ known => /\ client' = [Go("discover", "probe", Discovery) EXCEPT !.conn = NoConnection]
                  /\ transport' = Connected(u)
      /\ gone => /\ client' = Go("initialize", "again", "2025-11-25")
                 /\ transport' = Connected(Disconnected(u))
      /\ ~known /\ ~gone => Fail(u)
  <2>1. client.why # "settled" /\ ~(known /\ gone)
    BY <1>1
  <2> QED
    BY <2>1 DEF InitializeFails
<1>3. CASE known
  <2>1. client' = [Go("discover", "probe", Discovery) EXCEPT !.conn = NoConnection]
        /\ transport' = Connected(u)
    BY <1>2, <1>3
  <2>2. client'.at = "discover" /\ client'.why = "probe" /\ client'.version = Discovery
    BY <2>1 DEF Go, Held, Typed, ClientTyped
  <2>3. Offered'
    BY <1>1, <1>3, <2>2 DEF Offered, Carried
  <2>4. transport' \in Transports /\ transport'.session = Absent
        /\ (transport'.channel = "gone" => u.channel = "gone")
    BY <1>0, <2>1, ConnectedTyped DEF SessionHeld
  <2>5. failures' = 0 => u.channel # "gone"
    BY <1>3 DEF Spurned
  <2>6. "probe" \in Reasons /\ Discovery \in ClientVersions
    BY VersionsKnown DEF Reasons
  <2> QED
    BY <1>0, <2>1, <2>3, <2>4, <2>5, <2>6, GoKeeps DEF SessionHeld
<1>4. CASE gone
  <2>1. client' = Go("initialize", "again", "2025-11-25")
        /\ transport' = Connected(Disconnected(u))
    BY <1>2, <1>4
  <2>2. client'.at = "initialize" /\ client'.why = "again" /\ client'.version = "2025-11-25"
    BY <2>1 DEF Go, Held, Typed, ClientTyped
  <2>3. failures' = 0 => peer.meta = {}
    BY <1>4 DEF Spurned, Held, Offered
  <2>4. peer.http /\ Discovery \in peer.meta => FALSE
    BY <1>4 DEF Held, Offered
  <2>5. Offered'
    BY <1>1, <1>4, <2>2, <2>3, <2>4 DEF Offered, Carried, InitializeSupported
  <2>6. transport' \in Transports /\ transport'.session = Absent /\ transport'.channel # "gone"
    <3>1. Disconnected(u) \in Transports /\ Disconnected(u).session = Absent
          /\ Disconnected(u).channel = "closed"
      BY <1>0, ResetTyped
    <3> QED
      BY <2>1, <3>1, ConnectedTyped
  <2>7. "again" \in Reasons /\ "2025-11-25" \in ClientVersions
    BY VersionsKnown DEF Reasons, InitializeSupported
  <2> QED
    BY <1>0, <2>1, <2>5, <2>6, <2>7, GoKeeps DEF SessionHeld
<1>5. CASE ~known /\ ~gone
  <2>1. failures' > 0 \/ NothingShared
    BY <1>5 DEF Spurned, Carried
  <2> QED
    BY <1>0, <1>2, <1>5, <2>1, FailKeeps
<1> QED
  BY <1>3, <1>4, <1>5

LEMMA InitializeKeeps ==
    ASSUME Held, Initialize
    PROVE  Held'
<1>1. /\ client.at = "initialize" /\ client.version \in InitializeSupported
      /\ client.version \in ClientVersions /\ ~Speaks(client.version)
  BY VersionsKnown DEF Held, Offered, Initialize, Speaks, InitializeSupported, Discovery
<1>2. PICK version : version = client.version
  OBVIOUS
<1>3. PICK t : t = UseProtocol(transport, version)
  OBVIOUS
<1>4. PICK failing, a :
          /\ failing \in BOOLEAN
          /\ Initialized(After(t, a, client.bearer), a)
          /\ Attempted(t, "initialize", version, failing, a)
  BY <1>1, <1>2, <1>3 DEF Initialize, Attempt
<1>5. /\ Carried /\ a \in AnswerSet
      /\ t \in Transports /\ t.version = version /\ SessionHeld(t)
      /\ t.channel = transport.channel
      /\ transport.session = Absent => t.session = Absent
      /\ failures' = 0 => failures = 0 /\ ~failing /\ ~client.ended
      /\ failing => a \in Interference /\ failures' > 0
      /\ ~failing =>
            \/ client.ended /\ a = Bare("cancelled", 0)
            \/ ~client.ended /\ ~peer.http /\ t.channel = "gone" /\ a = Bare("broken", 0)
            \/ ~client.ended /\ (peer.http \/ t.channel # "gone")
                 /\ Honest("initialize", version, client.bearer, a)
      /\ a.session # Absent => peer.http /\ a.session.bearer = client.bearer
  <2>1. "initialize" \in Methods
    BY DEF Methods
  <2> QED
    BY <1>1, <1>2, <1>3, <1>4, <2>1, Attempting
<1>6. PICK u : u = After(t, a, client.bearer)
  OBVIOUS
<1>7. /\ u \in Transports /\ SessionHeld(u)
      /\ u.channel = "gone" => t.channel = "gone" \/ (~peer.http /\ (a.kind = "broken" \/ a.exits))
  BY <1>1, <1>2, <1>5, <1>6, AfterHeld, AfterTyped
<1>8. PICK verdict : verdict = Verdict(t, a)
  OBVIOUS
<1>9. PICK v : v = CHOOSE chosen \in a.versions : TRUE
  OBVIOUS
<1>10. IF verdict # "ok" THEN InitializeFails(u, a, verdict)
       ELSE IF v \notin InitializeSupported \/ (client.why = "pinned" /\ v # pin)
            THEN InitializeFails(u, a, "plain")
            ELSE client' = Go("announce", client.why, v) /\ transport' = u
  BY <1>2, <1>3, <1>4, <1>6, <1>8, <1>9, Zenon DEF Initialized
<1>11. /\ client.why \in {"fallback", "again", "down", "remembered", "pinned"}
       /\ client.why = "pinned" <=> pin # Absent
       /\ client.why = "pinned" => pin = version
       /\ client.why = "down" => version \in peer.init
       /\ client.why \in {"fallback", "again"} => version = "2025-11-25"
       /\ client.why \in {"fallback", "again"} /\ failures = 0 => peer.meta = {}
       /\ peer.http /\ Discovery \in peer.meta => client.why \in {"remembered", "pinned"}
  BY <1>1, <1>2 DEF Held, Offered
<1>12. transport.session = Absent /\ t.session = Absent
  BY <1>1, <1>5 DEF Held, SessionsHeld
<1>13. peer.meta \cap InitializeSupported = {} /\ Discovery \notin peer.init
  BY DEF Held, PeerHeld, Conforms
<1>14. Bare("cancelled", 0).kind = "cancelled" /\ Bare("broken", 0).kind = "broken"
  BY BareShape DEF AnswerKinds
<1>15. CASE verdict = "ok"
  <2>1. a.kind \in {"result", "accepted"}
    BY <1>5, <1>8, <1>15, VerdictOf, ZenonT(60)
  <2>2. ~failing
    BY <1>5, <2>1, Struck
  <2>3. Honest("initialize", version, client.bearer, a) /\ (peer.http \/ t.channel # "gone")
        /\ ~client.ended
    BY <1>5, <1>14, <2>1, <2>2
  <2>4. PICK w \in peer.init : a.versions = {w} /\ (version \in peer.init => w = version)
    BY <2>1, <2>3 DEF Honest
  <2>5. v = w /\ v \in peer.init
    BY <1>9, <2>4
  <2>6. u.channel # "gone" \/ peer.http
    BY <1>7, <2>1, <2>3 DEF Honest
  <2>7. CASE v \notin InitializeSupported \/ (client.why = "pinned" /\ v # pin)
    <3>1. InitializeFails(u, a, "plain")
      BY <1>10, <1>15, <2>7
    <3>2. version \in peer.init => v = version
      BY <2>4, <2>5
    <3>3. client.why # "down"
      BY <1>1, <1>2, <1>11, <2>7, <3>2
    <3>4. client.why = "pinned" => NothingShared
      <4>1. client.why = "pinned" => pin \notin peer.init /\ pin # Absent /\ ~Speaks(pin)
        BY <1>1, <1>2, <1>11, <2>7, <3>2
      <4> QED
        BY <4>1 DEF NothingShared
    <3>5. client.why \in {"fallback", "again"} /\ failures = 0 => NothingShared
      <4> SUFFICES ASSUME client.why \in {"fallback", "again"}, failures = 0
                   PROVE NothingShared
        OBVIOUS
      <4>1. pin = Absent /\ peer.meta = {} /\ version = "2025-11-25"
        BY <1>11
      <4>2. v \notin InitializeSupported
        BY <1>11, <2>7
      <4>3. "2025-11-25" \notin peer.init
        BY <1>1, <1>2, <3>2, <4>1, <4>2
      <4>4. peer.init \cap InitializeSupported = {}
        BY <2>5, <4>2, <4>3 DEF Held, PeerHeld, Conforms
      <4>5. (peer.meta \cup peer.init) \cap ClientVersions = {}
        BY <1>13, <4>1, <4>4, VersionsKnown
      <4> QED
        BY <4>1, <4>5, PreferredVersion DEF NothingShared
    <3>6. failures' = 0 => u.channel # "gone" \/ client.why # "remembered"
      <4>1. peer.http /\ failures = 0 => client.why # "remembered" \/ t.channel # "gone"
        BY <1>1, <1>5 DEF Held, Blameless
      <4> QED
        BY <1>5, <1>7, <2>3, <4>1 DEF Honest
    <3>7. Spurned(u, "plain")
      BY <1>1, <1>5, <1>7, <1>11, <3>3, <3>4, <3>5, <3>6 DEF Spurned
    <3> QED
      BY <1>1, <1>5, <3>1, <3>7, InitializeFailsKeeps
  <2>8. CASE v \in InitializeSupported /\ ~(client.why = "pinned" /\ v # pin)
    <3>1. client' = Go("announce", client.why, v) /\ transport' = u
      BY <1>10, <1>15, <2>8
    <3>2. client'.at = "announce" /\ client'.why = client.why /\ client'.version = v
      BY <3>1 DEF Go, Held, Typed, ClientTyped
    <3>3. Offered'
      <4>1. pin' = pin /\ peer' = peer
        BY <1>5 DEF Carried
      <4>2. pin \in {Absent, v}
        BY <1>11, <2>8
      <4> QED
        BY <1>11, <2>5, <2>8, <3>2, <4>1, <4>2 DEF Offered
    <3>4. failures' = 0 => u.channel # "gone"
      <4>1. failures = 0 /\ t.channel = "gone" => ~peer.http
        BY <1>1, <1>5 DEF Held, Blameless
      <4>2. failures' = 0 => failures = 0
        BY <1>5
      <4>3. u.channel = "gone" => t.channel = "gone" \/ ~peer.http
        BY <1>7
      <4> QED
        BY ONLY <2>6, <4>1, <4>2, <4>3
    <3>5. v \in ClientVersions /\ client.why \in Reasons
      BY <2>8, VersionsKnown DEF Held, Typed, ClientTyped
    <3> QED
      BY <1>1, <1>5, <1>7, <3>1, <3>3, <3>4, <3>5, GoKeeps DEF Shaking
  <2> QED
    BY <2>7, <2>8
<1>16. CASE verdict # "ok"
  <2>1. InitializeFails(u, a, verdict)
    BY <1>10, <1>16
  <2>2. CASE failures' = 0
    <3>1. failures = 0 /\ ~failing /\ ~client.ended
      BY <1>5, <2>2
    <3>2. CASE ~peer.http /\ t.channel = "gone" /\ a = Bare("broken", 0)
      <4>1. client.why = "fallback"
        BY <1>1, <1>5, <3>1, <3>2 DEF Held, Blameless
      <4>2. verdict = "transport"
        BY <1>5, <1>8, <1>14, <3>2, VerdictOf
      <4>3. Spurned(u, verdict)
        BY <1>1, <1>7, <3>1, <4>1, <4>2 DEF Spurned
      <4> QED
        BY <1>1, <1>5, <2>1, <4>3, InitializeFailsKeeps
    <3>3. CASE Honest("initialize", version, client.bearer, a) /\ (peer.http \/ t.channel # "gone")
      <4>1. a.kind # "result"
        BY <1>5, <1>8, <1>16, VerdictOf
      <4>2. a.kind = "error" /\ peer.init = {}
        BY <3>3, <4>1 DEF Honest
      <4>3. verdict # "auth"
        BY <1>5, <1>8, <4>2, VerdictOf
      <4>4. client.why # "remembered" => NothingShared
        <5>1. CASE client.why = "pinned"
          BY <1>1, <1>2, <1>11, <4>2, <5>1 DEF NothingShared
        <5>2. CASE client.why \in {"fallback", "again"}
          <6>1. pin = Absent /\ peer.meta \cup peer.init = {}
            BY <1>11, <3>1, <4>2, <5>2
          <6> QED
            BY <6>1, PreferredVersion DEF NothingShared
        <5> QED
          BY <1>11, <4>2, <5>1, <5>2
      <4>5. client.why = "remembered" => u.channel # "gone"
        <5>1. client.why = "remembered" => t.channel # "gone"
          BY <1>1, <1>5, <3>1 DEF Held, Blameless
        <5> QED
          BY <1>7, <3>3, <5>1 DEF Honest
      <4>6. Spurned(u, verdict)
        BY <1>1, <1>7, <3>1, <4>3, <4>4, <4>5 DEF Spurned
      <4> QED
        BY <1>1, <1>5, <2>1, <4>6, InitializeFailsKeeps
    <3> QED
      BY <1>5, <3>1, <3>2, <3>3
  <2>3. CASE failures' # 0
    <3>1. Spurned(u, verdict)
      BY <1>7, <2>3 DEF Spurned
    <3> QED
      BY <1>1, <1>5, <2>1, <3>1, InitializeFailsKeeps
  <2> QED
    BY <2>2, <2>3
<1> QED
  BY <1>15, <1>16

LEMMA AnnounceKeeps ==
    ASSUME Held, Announce
    PROVE  Held'
<1>1. /\ client.at = "announce" /\ client.version \in InitializeSupported
      /\ client.version \in ClientVersions /\ ~Speaks(client.version) /\ Shaking
      /\ client.version \in peer.init /\ pin \in {Absent, client.version}
      /\ client.why = "pinned" <=> pin # Absent
      /\ peer.http /\ Discovery \in peer.meta => client.why \in {"remembered", "pinned"}
  BY VersionsKnown
  DEF Held, Offered, Announce, Speaks, InitializeSupported, Discovery, Shaking
<1>2. PICK version : version = client.version
  OBVIOUS
<1>3. PICK t : t = UseProtocol(transport, version)
  OBVIOUS
<1>4. PICK failing, a :
          /\ failing \in BOOLEAN
          /\ Announced(After(t, a, client.bearer), a)
          /\ Attempted(t, "notifications/initialized", version, failing, a)
  BY <1>1, <1>2, <1>3 DEF Announce, Attempt
<1>5. /\ Carried /\ a \in AnswerSet
      /\ t \in Transports /\ t.version = version /\ SessionHeld(t)
      /\ t.channel = transport.channel
      /\ failures' = 0 => failures = 0 /\ ~failing /\ ~client.ended
      /\ ~failing =>
            \/ client.ended /\ a = Bare("cancelled", 0)
            \/ ~client.ended /\ ~peer.http /\ t.channel = "gone" /\ a = Bare("broken", 0)
            \/ ~client.ended /\ (peer.http \/ t.channel # "gone")
                 /\ Honest("notifications/initialized", version, client.bearer, a)
      /\ a.session = Absent
  <2>1. "notifications/initialized" \in Methods
    BY DEF Methods
  <2> QED
    BY <1>1, <1>2, <1>3, <1>4, <2>1, Attempting
<1>6. PICK u : u = After(t, a, client.bearer)
  OBVIOUS
<1>7. /\ u \in Transports /\ SessionHeld(u)
      /\ u.channel = "gone" => t.channel = "gone" \/ (~peer.http /\ (a.kind = "broken" \/ a.exits))
  BY <1>1, <1>2, <1>5, <1>6, AfterHeld, AfterTyped
<1>8. PICK verdict : verdict = Verdict(t, a)
  OBVIOUS
<1>9. PICK refused \in BOOLEAN : refused = (peer.http /\ verdict = "rpc")
  OBVIOUS
<1>10. \/ Settle([u EXCEPT !.stale = refused], version)
       \/ verdict # "ok" /\ InitializeFails(u, a, verdict)
  BY <1>2, <1>3, <1>4, <1>6, <1>8, <1>9 DEF Announced
<1>11. failures' = 0 => verdict = "ok" /\ u.channel # "gone"
  <2> SUFFICES ASSUME failures' = 0 PROVE verdict = "ok" /\ u.channel # "gone"
    OBVIOUS
  <2>1. failures = 0 /\ ~failing /\ ~client.ended
    BY <1>5
  <2>2. t.channel # "gone"
    BY <1>1, <1>5, <2>1 DEF Held, Blameless
  <2>3. Honest("notifications/initialized", version, client.bearer, a)
    BY <1>5, <2>1, <2>2
  <2>4. a.kind = "accepted" /\ ~a.exits
    BY <2>3 DEF Honest
  <2> QED
    BY <1>5, <1>7, <1>8, <2>2, <2>4, VerdictOf
<1>12. CASE Settle([u EXCEPT !.stale = refused], version)
  <2>1. PICK w : w = [u EXCEPT !.stale = refused]
    OBVIOUS
  <2>2. w \in Transports /\ w.session = u.session /\ w.version = u.version
        /\ w.channel = u.channel
    BY <1>7, <2>1 DEF Transports
  <2>3. SessionHeld(w) /\ Settle(w, version)
    BY <1>7, <1>12, <2>1, <2>2 DEF SessionHeld
  <2>4. Served(version) /\ version \in ClientVersions /\ pin \in {Absent, version}
    BY <1>1, <1>2 DEF Served
  <2> QED
    BY <1>1, <1>5, <1>11, <2>2, <2>3, <2>4, SettleKeeps
<1>13. CASE verdict # "ok" /\ InitializeFails(u, a, verdict)
  <2>1. Spurned(u, verdict)
    BY <1>7, <1>11, <1>13 DEF Spurned
  <2> QED
    BY <1>1, <1>5, <1>13, <2>1, InitializeFailsKeeps
<1> QED
  BY <1>10, <1>12, <1>13

(* ---------------- a request ---------------- *)

\* A request leaves its connection standing, or gives it up with its session.
LEMMA RequestEnds ==
    ASSUME Held, Carried, client.at = "request",
           NEW at \in {"rest", "connect", "handshake"}, NEW stands \in BOOLEAN,
           NEW conn \in {NoConnection, client.conn}, NEW retried \in BOOLEAN,
           NEW refused \in Version, NEW told \in {"answered", "misled", "broken", client.told},
           client' = [client EXCEPT !.at = at, !.connected = stands, !.conn = conn,
                                    !.retried = retried, !.refused = refused, !.told = told],
           transport' \in Transports, SessionHeld(transport'),
           stands => at = "rest" /\ conn = client.conn,
           transport'.session # Absent => stands \/ (at = "handshake" /\ conn = NoConnection /\ pin = Absent),
           failures' = 0 => transport'.channel # "gone"
    PROVE  Held'
<1>1. ClientTyped'
  BY DEF Held, Typed, ClientTyped
<1>2. /\ client'.at = at /\ client'.connected = stands /\ client'.conn = conn
      /\ client'.ended = client.ended /\ client'.bearer = client.bearer
      /\ client'.told = told
  BY DEF Held, Typed, ClientTyped
<1>3. PeerHeld'
  BY DEF Held, PeerHeld, Conforms, Carried
<1>4. TransportTyped' /\ CountsTyped'
  BY DEF TransportTyped, CountsTyped, Transports, Carried
<1>5. SessionsHeld'
  <2>1. SessionHeld(transport)'
    BY <1>2 DEF SessionHeld, Carried
  <2>2. pin' = pin
    BY DEF Carried
  <2> QED
    BY <1>2, <2>1, <2>2 DEF SessionsHeld
<1>6. Standing'
  <2>1. CASE ~stands
    BY <1>2, <2>1 DEF Standing, FailureIsNotAnEra
  <2>2. CASE stands
    <3>1. client'.at = "rest" /\ client'.conn = client.conn /\ client'.connected
          /\ client.connected
      BY <1>2, <2>2 DEF Held, Standing
    <3>2. FailureIsNotAnEra'
      BY <3>1 DEF Held, Standing, FailureIsNotAnEra, Carried
    <3> QED
      BY <1>2, <3>1, <3>2 DEF Held, Standing, Served, Carried
  <2> QED
    BY <2>1, <2>2
<1>7. Offered'
  BY <1>2 DEF Offered
<1>8. Blameless'
  <2>1. NothingShared' = NothingShared
    BY DEF NothingShared, Carried
  <2>2. client'.ended => failures' > 0
    BY <1>2 DEF Held, Blameless, Carried, Typed, CountsTyped
  <2>3. client'.told = "failed" => failures' > 0 \/ NothingShared'
    BY <1>2, <2>1 DEF Held, Blameless, Carried, Typed, CountsTyped
  <2> QED
    BY <2>2, <2>3 DEF Blameless
<1> QED
  BY <1>1, <1>3, <1>4, <1>5, <1>6, <1>7, <1>8 DEF Held, Typed

LEMMA RequestedOutcomes ==
    ASSUME NEW u, NEW a, Requested(u, a)
    PROVE  \/ client' = Rest("misled") /\ transport' = [u EXCEPT !.stale = FALSE]
           \/ /\ pin = Absent /\ transport' = u
              /\ client' = [client EXCEPT !.at = "handshake", !.connected = FALSE,
                              !.conn = NoConnection, !.refused = client.conn.version]
           \/ client' = Rest("answered") /\ transport' = u
           \/ /\ client' = [client EXCEPT !.at = "connect", !.connected = FALSE, !.retried = TRUE]
              /\ transport' = Disconnected(u)
           \/ \E stands \in BOOLEAN :
                /\ client' = [Rest("broken") EXCEPT !.connected = stands]
                /\ transport' = IF stands THEN u ELSE Disconnected(u)
BY Zenon DEF Requested

LEMMA RequestKeeps ==
    ASSUME Held, Request
    PROVE  Held'
<1>1. /\ client.at = "request" /\ client.connected /\ client.conn \in Connection
      /\ client.conn.version \in ClientVersions
      /\ client.conn.since <= peer.n
      /\ client.conn.since = peer.n => Served(client.conn.version)
  BY DEF Held, Standing, Request, Connection
<1>2. PICK version : version = client.conn.version
  OBVIOUS
<1>3. PICK t : t = UseProtocol(transport, version)
  OBVIOUS
<1>4. PICK failing, a :
          /\ failing \in BOOLEAN
          /\ Requested(After(t, a, client.bearer), a)
          /\ Attempted(t, "tools/list", version, failing, a)
  BY <1>1, <1>2, <1>3 DEF Request, Attempt
<1>5. /\ Carried /\ a \in AnswerSet
      /\ t \in Transports /\ t.version = version /\ SessionHeld(t)
      /\ t.channel = transport.channel
      /\ failures' = 0 => failures = 0 /\ ~failing /\ ~client.ended
      /\ ~failing =>
            \/ client.ended /\ a = Bare("cancelled", 0)
            \/ ~client.ended /\ ~peer.http /\ t.channel = "gone" /\ a = Bare("broken", 0)
            \/ ~client.ended /\ (peer.http \/ t.channel # "gone")
                 /\ Honest("tools/list", version, client.bearer, a)
      /\ a.session = Absent
  <2>1. "tools/list" \in Methods
    BY DEF Methods
  <2> QED
    BY <1>1, <1>2, <1>3, <1>4, <2>1, Attempting
<1>6. PICK u : u = After(t, a, client.bearer)
  OBVIOUS
<1>7. /\ u \in Transports /\ SessionHeld(u)
      /\ u.channel = "gone" => t.channel = "gone" \/ (~peer.http /\ (a.kind = "broken" \/ a.exits))
  <2>1. Speaks(t.version) \/ t.version \in InitializeSupported
    BY <1>1, <1>2, <1>5, VersionsKnown DEF Speaks
  <2> QED
    BY <1>5, <1>6, <2>1, AfterHeld, AfterTyped
<1>8. failures' = 0 => u.channel # "gone"
  <2> SUFFICES ASSUME failures' = 0 PROVE u.channel # "gone"
    OBVIOUS
  <2>1. failures = 0 /\ ~failing /\ ~client.ended
    BY <1>5
  <2>2. t.channel # "gone"
    BY <1>1, <1>5, <2>1 DEF Held, Blameless
  <2>3. Honest("tools/list", version, client.bearer, a)
    BY <1>5, <2>1, <2>2
  <2>4. ~peer.http => ~(Speaks(version) /\ peer.meta = {})
    <3>1. ~peer.http => client.conn.since = peer.n
      BY <1>1 DEF Held, PeerHeld, Conforms, Connection
    <3> QED
      BY <1>1, <1>2, <3>1 DEF Served
  <2> QED
    BY <1>7, <2>2, <2>3, <2>4 DEF Honest
<1>9. /\ Disconnected(u) \in Transports /\ Disconnected(u).session = Absent
      /\ Disconnected(u).channel = "closed" /\ SessionHeld(Disconnected(u))
  BY <1>7, ResetTyped DEF SessionHeld
<1>10. [u EXCEPT !.stale = FALSE] \in Transports
       /\ [u EXCEPT !.stale = FALSE].channel = u.channel
       /\ SessionHeld([u EXCEPT !.stale = FALSE])
  BY <1>7 DEF Transports, SessionHeld
<1>11. client = [client EXCEPT !.at = client.at]
       /\ client.conn \in {NoConnection, client.conn} /\ client.retried \in BOOLEAN
       /\ client.refused \in Version /\ client.conn.version \in Version
       /\ client.connected = TRUE
  BY <1>1 DEF Held, Typed, ClientTyped, Version
<1>12. CASE client' = Rest("misled") /\ transport' = [u EXCEPT !.stale = FALSE]
  <2>1. client' = [client EXCEPT !.at = "rest", !.connected = TRUE, !.conn = client.conn,
            !.retried = client.retried, !.refused = client.refused, !.told = "misled"]
    BY <1>11, <1>12 DEF Rest, Held, Typed, ClientTyped
  <2>2. /\ transport' \in Transports /\ SessionHeld(transport')
        /\ failures' = 0 => transport'.channel # "gone"
    BY <1>8, <1>10, <1>12
  <2> QED
    BY <1>1, <1>5, <1>11, <2>1, <2>2, RequestEnds
<1>13. CASE /\ pin = Absent /\ transport' = u
            /\ client' = [client EXCEPT !.at = "handshake", !.connected = FALSE,
                            !.conn = NoConnection, !.refused = client.conn.version]
  <2>1. client' = [client EXCEPT !.at = "handshake", !.connected = FALSE, !.conn = NoConnection,
            !.retried = client.retried, !.refused = client.conn.version, !.told = client.told]
    BY <1>13 DEF Held, Typed, ClientTyped
  <2> QED
    BY <1>1, <1>5, <1>7, <1>8, <1>11, <1>13, <2>1, RequestEnds, ZenonT(60)
<1>14. CASE client' = Rest("answered") /\ transport' = u
  <2>1. client' = [client EXCEPT !.at = "rest", !.connected = TRUE, !.conn = client.conn,
            !.retried = client.retried, !.refused = client.refused, !.told = "answered"]
    BY <1>11, <1>14 DEF Rest, Held, Typed, ClientTyped
  <2>2. /\ transport' \in Transports /\ SessionHeld(transport')
        /\ failures' = 0 => transport'.channel # "gone"
    BY <1>7, <1>8, <1>14
  <2>3. "rest" \in {"rest", "connect", "handshake"} /\ TRUE \in BOOLEAN
        /\ "answered" \in {"answered", "misled", "broken", client.told}
    OBVIOUS
  <2> QED
    BY <1>1, <1>5, <1>11, <2>1, <2>2, <2>3, RequestEnds
<1>15. CASE /\ client' = [client EXCEPT !.at = "connect", !.connected = FALSE, !.retried = TRUE]
            /\ transport' = Disconnected(u)
  <2>1. client' = [client EXCEPT !.at = "connect", !.connected = FALSE, !.conn = client.conn,
            !.retried = TRUE, !.refused = client.refused, !.told = client.told]
    BY <1>15 DEF Held, Typed, ClientTyped
  <2> QED
    BY <1>1, <1>5, <1>9, <1>11, <1>15, <2>1, RequestEnds
<1>16. CASE \E stands \in BOOLEAN :
                /\ client' = [Rest("broken") EXCEPT !.connected = stands]
                /\ transport' = IF stands THEN u ELSE Disconnected(u)
  <2>1. PICK stands \in BOOLEAN :
                /\ client' = [Rest("broken") EXCEPT !.connected = stands]
                /\ transport' = IF stands THEN u ELSE Disconnected(u)
    BY <1>16
  <2>2. client' = [client EXCEPT !.at = "rest", !.connected = stands, !.conn = client.conn,
            !.retried = client.retried, !.refused = client.refused, !.told = "broken"]
    BY <2>1 DEF Rest, Held, Typed, ClientTyped
  <2>3. /\ transport' \in Transports /\ SessionHeld(transport')
        /\ transport'.session # Absent => stands
        /\ failures' = 0 => transport'.channel # "gone"
    BY <1>7, <1>8, <1>9, <2>1
  <2> QED
    BY <1>1, <1>5, <1>11, <2>2, <2>3, RequestEnds
<1> QED
  <2>1. Requested(u, a)
    BY <1>4, <1>6
  <2> QED
    BY ONLY <1>12, <1>13, <1>14, <1>15, <1>16, <2>1, RequestedOutcomes, Zenon

(* ---------------- around the attempts ---------------- *)

LEMMA HeldAtFirst == Init => Held
<1> SUFFICES ASSUME Init PROVE Held
  OBVIOUS
<1>1. PeerHeld
  BY PeersAssumption, PinsAssumption, VersionsKnown DEF Init, PeerHeld, Conforms, Version
<1>2. ClientTyped
  BY DEF Init, ClientTyped, Reasons, Version
<1>3. TransportTyped /\ CountsTyped
  BY DEF Init, TransportTyped, CountsTyped, Fresh, Version
<1>4. client.at = "rest" /\ ~client.connected /\ client.told = "none" /\ ~client.ended
  BY DEF Init
<1>5. transport.session = Absent /\ transport.channel = "closed"
  BY DEF Init, Fresh
<1> QED
  BY <1>1, <1>2, <1>3, <1>4, <1>5
  DEF Held, Typed, SessionsHeld, SessionHeld, Standing, FailureIsNotAnEra, Offered, Blameless

LEMMA ChooseKeeps ==
    ASSUME Held, Choose
    PROVE  Held'
<1>1. client.at = "handshake" /\ transport' = transport /\ transport \in Transports
      /\ SessionHeld(transport)
  BY DEF Choose, Held, Typed, TransportTyped, Transports, SessionsHeld
<1>2. Carried /\ failures' = failures
  BY DEF Choose, Carried, Held, Typed, CountsTyped
<1>3. failures = 0 => transport.channel # "gone"
  BY <1>1 DEF Held, Blameless
<1>4. pin \in Version /\ client.conn \in {NoConnection} \cup Connection
  BY DEF Held, PeerHeld, Typed, ClientTyped
<1>5. CASE pin # Absent
  <2>1. PICK at : at = IF Speaks(pin) THEN "discover" ELSE "initialize"
    OBVIOUS
  <2>2. client' = Go(at, "pinned", pin)
    BY <1>5, <2>1 DEF Choose
  <2>3. client'.at = at /\ client'.why = "pinned" /\ client'.version = pin
    BY <2>2 DEF Go, Held, Typed, ClientTyped
  <2>4. pin \in ClientVersions /\ (Speaks(pin) => pin = Discovery)
        /\ (~Speaks(pin) => pin \in InitializeSupported)
    BY <1>4, <1>5, VersionsKnown DEF Version, Speaks
  <2>5. pin' = pin /\ peer' = peer
    BY <1>2 DEF Carried
  <2>6. Offered'
    BY <1>5, <2>1, <2>3, <2>4, <2>5 DEF Offered
  <2>7. transport'.session = Absent
    BY <1>1, <1>5 DEF Held, SessionsHeld
  <2>8. "pinned" \in Reasons /\ at \in {"discover", "initialize", "announce"}
    BY <2>1 DEF Reasons
  <2> QED
    BY <1>1, <1>2, <1>3, <2>2, <2>4, <2>6, <2>7, <2>8, GoKeeps
<1>6. CASE pin = Absent /\ client.conn.version # Absent /\ ~Speaks(client.conn.version)
  <2>1. PICK version : version = client.conn.version
    OBVIOUS
  <2>2. client' = Go("initialize", "remembered", version)
    BY <1>6, <2>1 DEF Choose
  <2>3. client'.at = "initialize" /\ client'.why = "remembered" /\ client'.version = version
    BY <2>2 DEF Go, Held, Typed, ClientTyped
  <2>4. client.conn # NoConnection /\ version \in ClientVersions
        /\ version \in InitializeSupported
    BY <1>4, <1>6, <2>1, VersionsKnown DEF NoConnection, Connection, Speaks
  <2>5. Offered'
    BY <1>2, <1>6, <2>3, <2>4 DEF Offered, Carried
  <2>6. transport'.session = Absent
    BY <1>1, <2>4 DEF Held, SessionsHeld
  <2>7. "remembered" \in Reasons
    BY DEF Reasons
  <2> QED
    BY <1>1, <1>2, <1>3, <2>2, <2>4, <2>5, <2>6, <2>7, GoKeeps
<1>7. CASE pin = Absent /\ ~(client.conn.version # Absent /\ ~Speaks(client.conn.version))
  <2>1. client' = Go("discover", "probe", Discovery)
    BY <1>7 DEF Choose
  <2>2. client'.at = "discover" /\ client'.why = "probe" /\ client'.version = Discovery
    BY <2>1 DEF Go, Held, Typed, ClientTyped
  <2>3. Offered'
    BY <1>2, <1>7, <2>2 DEF Offered, Carried
  <2>4. "probe" \in Reasons /\ Discovery \in ClientVersions
    BY VersionsKnown DEF Reasons
  <2> QED
    BY <1>1, <1>2, <1>3, <2>1, <2>3, <2>4, GoKeeps
<1> QED
  BY <1>5, <1>6, <1>7

LEMMA BeginKeeps ==
    ASSUME Held, Begin
    PROVE  Held'
<1>1. PICK forsaken \in BOOLEAN :
          forsaken <=> client.connected /\ client.conn.context # client.token
  OBVIOUS
<1>2. PICK stands \in BOOLEAN : stands <=> client.connected /\ ~forsaken
  OBVIOUS
<1>3. /\ client.at = "rest" /\ UNCHANGED <<peer, pin, live, opened, failures>>
      /\ client' = [client EXCEPT
            !.bearer = client.token, !.exchanges = client.exchanges + 1, !.told = "none",
            !.ended = FALSE, !.retried = FALSE, !.refused = Absent,
            !.connected = stands, !.at = IF stands THEN "request" ELSE "connect"]
      /\ transport' = IF forsaken THEN Disconnected(transport) ELSE transport
  <2>1. client.at = "rest" /\ UNCHANGED <<peer, pin, live, opened, failures>>
    BY DEF Begin
  <2>2. client.connected \in BOOLEAN
    BY DEF Held, Typed, ClientTyped
  <2>3. forsaken = (client.connected /\ client.conn.context # client.token)
    BY <1>1, <2>2
  <2>4. stands = (client.connected /\ ~(client.connected /\ client.conn.context # client.token))
    BY <1>1, <1>2, <2>2
  <2> QED
    BY <2>1, <2>3, <2>4 DEF Begin
<1>a. PICK at \in {"request", "connect"} : at = IF stands THEN "request" ELSE "connect"
  OBVIOUS
<1>b. client' = [client EXCEPT
            !.bearer = client.token, !.exchanges = client.exchanges + 1, !.told = "none",
            !.ended = FALSE, !.retried = FALSE, !.refused = Absent,
            !.connected = stands, !.at = at]
  BY <1>3, <1>a
<1>4. ClientTyped'
  <2>1. ClientTyped /\ client.token \in Nat /\ client.exchanges + 1 \in Nat
    BY DEF Held, Typed, ClientTyped
  <2>2. PICK count \in Nat : count = client.exchanges + 1
    BY <2>1
  <2>3. client' = [client EXCEPT
            !.bearer = client.token, !.exchanges = count, !.told = "none",
            !.ended = FALSE, !.retried = FALSE, !.refused = Absent,
            !.connected = stands, !.at = at]
    BY <1>b, <2>2
  <2>4. Absent \in Version /\ at \in {"request", "connect"}
    BY DEF Version
  <2> QED
    BY <2>1, <2>3, <2>4 DEF ClientTyped
<1>5. /\ client'.at = (IF stands THEN "request" ELSE "connect") /\ client'.connected = stands
      /\ client'.conn = client.conn /\ ~client'.ended /\ client'.told = "none"
      /\ client'.bearer = client.token
  BY <1>a, <1>b DEF Held, Typed, ClientTyped
<1>6. transport \in Transports
  BY DEF Held, Typed, TransportTyped, Transports
<1>7. transport' \in Transports /\ transport'.channel \in {transport.channel, "closed"}
      /\ transport'.session \in {transport.session, Absent}
      /\ (forsaken => transport'.session = Absent)
      /\ (~forsaken => transport' = transport)
  BY <1>3, <1>6, ResetTyped
<1>8. TransportTyped' /\ CountsTyped' /\ PeerHeld'
  BY <1>3, <1>7 DEF TransportTyped, CountsTyped, Transports, Held, Typed, PeerHeld, Conforms
<1>9. stands => client.conn.context = client.bearer /\ client.token = client.bearer
                /\ client.connected
  BY <1>1, <1>2 DEF Held, Standing
<1>10. SessionsHeld'
  <2>1. CASE transport'.session = Absent
    BY <2>1 DEF SessionsHeld, SessionHeld
  <2>2. CASE transport'.session # Absent
    <3>1. ~forsaken /\ transport' = transport /\ transport.session # Absent
      BY <1>7, <2>2
    <3>2. stands
      BY <1>2, <1>3, <3>1 DEF Held, SessionsHeld
    <3>3. client'.bearer = client.bearer /\ client'.at = "request" /\ peer' = peer
      BY <1>3, <1>5, <1>9, <3>2
    <3> QED
      BY <3>1, <3>3 DEF Held, SessionsHeld, SessionHeld
  <2> QED
    BY <2>1, <2>2
<1>11. Standing'
  <2>1. CASE ~stands
    BY <1>5, <2>1 DEF Standing, FailureIsNotAnEra
  <2>2. CASE stands
    <3>1. /\ client'.at = "request" /\ client'.conn = client.conn /\ client'.connected
          /\ client.connected /\ client'.bearer = client.bearer
      BY <1>5, <1>9, <2>2
    <3>2. peer' = peer /\ pin' = pin
      BY <1>3
    <3>3. FailureIsNotAnEra'
      BY <3>1, <3>2 DEF Held, Standing, FailureIsNotAnEra
    <3> QED
      BY <3>1, <3>2, <3>3 DEF Held, Standing, Served
  <2> QED
    BY <2>1, <2>2
<1>12. Offered'
  BY <1>5 DEF Offered
<1>13. Blameless'
  <2>1. failures = 0 => transport'.channel # "gone"
    BY <1>3, <1>7 DEF Held, Blameless
  <2> QED
    BY <1>3, <1>5, <2>1 DEF Blameless
<1> QED
  BY <1>4, <1>8, <1>10, <1>11, <1>12, <1>13 DEF Held, Typed

LEMMA ConnectKeeps ==
    ASSUME Held, Connect
    PROVE  Held'
<1>1. /\ client.at = "connect" /\ UNCHANGED <<peer, pin, live, opened>> /\ ~client.connected
      /\ failures \in Nat /\ transport \in Transports
  BY DEF Connect, Held, Typed, CountsTyped, TransportTyped, Transports, Standing
<1>2. failures = 0 => transport.channel # "gone"
  BY <1>1 DEF Held, Blameless
<1>3. PeerHeld'
  BY <1>1 DEF Held, PeerHeld, Conforms
<1>4. CASE client' = [client EXCEPT !.at = "handshake"] /\ transport' = Connected(transport)
           /\ failures' = failures
  <2>1. ClientTyped'
    BY <1>4 DEF Held, Typed, ClientTyped
  <2>2. /\ client'.at = "handshake" /\ client'.connected = client.connected
        /\ client'.ended = client.ended /\ client'.told = client.told
    BY <1>4 DEF Held, Typed, ClientTyped
  <2>3. /\ transport' \in Transports /\ transport'.session = Absent
        /\ transport'.channel = "gone" => transport.channel = "gone"
    BY <1>1, <1>4, ConnectedTyped DEF Held, SessionsHeld, SessionHeld
  <2>4. TransportTyped' /\ CountsTyped'
    BY <1>1, <1>4, <2>3 DEF TransportTyped, CountsTyped, Transports, Held, Typed
  <2>5. SessionsHeld' /\ Standing' /\ Offered'
    BY <1>1, <2>2, <2>3
    DEF SessionsHeld, SessionHeld, Standing, Offered, FailureIsNotAnEra
  <2>6. Blameless'
    <3>1. NothingShared' = NothingShared
      BY <1>1 DEF NothingShared
    <3> QED
      BY <1>2, <1>4, <2>2, <2>3, <3>1 DEF Held, Blameless
  <2> QED
    BY <1>3, <2>1, <2>4, <2>5, <2>6 DEF Held, Typed
<1>5. CASE client' = Rest("failed") /\ ~peer.http /\ failures' = failures + 1
           /\ transport' = transport
  <2>1. ClientTyped'
    BY <1>5 DEF Rest, Held, Typed, ClientTyped
  <2>2. client'.at = "rest" /\ client'.connected = client.connected
    BY <1>5 DEF Rest, Held, Typed, ClientTyped
  <2>3. transport'.session = Absent
    BY <1>5 DEF Held, SessionsHeld, SessionHeld
  <2>4. TransportTyped' /\ CountsTyped'
    BY <1>1, <1>5 DEF TransportTyped, CountsTyped, Held, Typed
  <2>5. SessionsHeld' /\ Standing' /\ Offered'
    BY <1>1, <2>2, <2>3
    DEF SessionsHeld, SessionHeld, Standing, Offered, FailureIsNotAnEra
  <2>6. Blameless'
    BY <1>1, <1>5 DEF Blameless
  <2> QED
    BY <1>3, <2>1, <2>4, <2>5, <2>6 DEF Held, Typed
<1> QED
  BY <1>4, <1>5 DEF Connect

\* The caller's token, the end of his context and a restart of the server.
LEMMA TokenKeeps ==
    ASSUME Held, ChangeToken
    PROVE  Held'
<1>1. /\ client' = [client EXCEPT !.token = client.token + 1]
      /\ UNCHANGED <<peer, pin, transport, live, opened, failures>>
  BY DEF ChangeToken
<1>2. ClientTyped'
  BY <1>1 DEF Held, Typed, ClientTyped
<1>3. /\ client'.at = client.at /\ client'.connected = client.connected
      /\ client'.conn = client.conn /\ client'.ended = client.ended
      /\ client'.told = client.told /\ client'.bearer = client.bearer
      /\ client'.why = client.why /\ client'.version = client.version
  BY <1>1 DEF Held, Typed, ClientTyped
<1>4. PeerHeld' /\ TransportTyped' /\ CountsTyped'
  BY <1>1 DEF Held, Typed, PeerHeld, Conforms, TransportTyped, CountsTyped
<1>5. SessionsHeld' /\ Offered'
  BY <1>1, <1>3 DEF Held, SessionsHeld, SessionHeld, Offered
<1>6. Standing'
  BY <1>1, <1>3 DEF Held, Standing, Served, FailureIsNotAnEra
<1>7. Blameless'
  BY <1>1, <1>3 DEF Held, Blameless, NothingShared
<1> QED
  BY <1>2, <1>4, <1>5, <1>6, <1>7 DEF Held, Typed

LEMMA EndContextKeeps ==
    ASSUME Held, EndContext
    PROVE  Held'
<1>1. /\ client' = [client EXCEPT !.ended = TRUE] /\ failures' = failures + 1
      /\ UNCHANGED <<peer, pin, transport, live, opened>>
  BY DEF EndContext
<1>2. ClientTyped'
  BY <1>1 DEF Held, Typed, ClientTyped
<1>3. /\ client'.at = client.at /\ client'.connected = client.connected
      /\ client'.conn = client.conn /\ client'.bearer = client.bearer
      /\ client'.why = client.why /\ client'.version = client.version
  BY <1>1 DEF Held, Typed, ClientTyped
<1>4. PeerHeld' /\ TransportTyped' /\ CountsTyped' /\ failures' > 0 /\ failures' # 0
  BY <1>1 DEF Held, Typed, PeerHeld, Conforms, TransportTyped, CountsTyped
<1>5. SessionsHeld'
  BY <1>1, <1>3 DEF Held, SessionsHeld, SessionHeld
<1>6. Standing'
  BY <1>1, <1>3 DEF Held, Standing, Served, FailureIsNotAnEra
<1>7. Offered'
  BY <1>1, <1>3, <1>4 DEF Held, Offered
<1>8. Blameless'
  BY <1>4 DEF Blameless
<1> QED
  BY <1>2, <1>4, <1>5, <1>6, <1>7, <1>8 DEF Held, Typed

LEMMA StillKeeps ==
    ASSUME Held, UNCHANGED <<peer, pin, client, transport, opened, failures>>
    PROVE  Held'
<1>1. PeerHeld' /\ ClientTyped' /\ TransportTyped' /\ CountsTyped'
  BY DEF Held, Typed, PeerHeld, Conforms, ClientTyped, TransportTyped, CountsTyped
<1>2. SessionsHeld' /\ Offered'
  BY DEF Held, SessionsHeld, SessionHeld, Offered
<1>3. Standing' /\ Blameless'
  BY DEF Held, Standing, Served, FailureIsNotAnEra, Blameless, NothingShared
<1> QED
  BY <1>1, <1>2, <1>3 DEF Held, Typed

\* Another server takes the place of one over HTTP, between two exchanges.
LEMMA ReplaceKeeps ==
    ASSUME Held, ReplaceServer
    PROVE  Held'
<1>1. PICK p \in Peers : p.http /\ peer' = [p EXCEPT !.n = peer.n + 1]
  BY DEF ReplaceServer
<1>2. /\ peer.http /\ client.at = "rest" /\ client' = [client EXCEPT !.told = "none"]
      /\ UNCHANGED <<pin, transport, opened, failures>>
  BY DEF ReplaceServer
<1>3. peer.n \in Nat
  BY DEF Held, PeerHeld, Conforms
<1>4. peer' \in [own : BOOLEAN, http : BOOLEAN, meta : SUBSET STRING, init : SUBSET STRING, n : Nat]
      /\ peer'.own = p.own /\ peer'.http = p.http /\ peer'.meta = p.meta /\ peer'.init = p.init
      /\ peer'.n = peer.n + 1
  <2>1. /\ p \in [own : BOOLEAN, http : BOOLEAN, meta : SUBSET STRING, init : SUBSET STRING,
                  n : {0}]
    BY <1>1, PeersAssumption
  <2>2. PICK next \in Nat : next = peer.n + 1
    BY <1>3
  <2>3. peer' = [p EXCEPT !.n = next]
    BY <1>1, <2>2
  <2>4. p \in [own : BOOLEAN, http : BOOLEAN, meta : SUBSET STRING, init : SUBSET STRING, n : Nat]
    BY <2>1
  <2> QED
    BY <2>2, <2>3, <2>4
<1>5. PeerHeld'
  BY <1>1, <1>2, <1>4, PeersAssumption DEF Held, PeerHeld, Conforms
<1>6. ClientTyped'
  BY <1>2 DEF Held, Typed, ClientTyped
<1>7. /\ client'.at = "rest" /\ client'.connected = client.connected
      /\ client'.conn = client.conn /\ client'.bearer = client.bearer
      /\ client'.told = "none" /\ client'.ended = client.ended
  BY <1>2 DEF Held, Typed, ClientTyped
<1>8. TransportTyped' /\ CountsTyped'
  BY <1>2 DEF Held, Typed, TransportTyped, CountsTyped
<1>9. SessionsHeld'
  BY <1>1, <1>2, <1>4, <1>7 DEF Held, SessionsHeld, SessionHeld
<1>10. Standing'
  <2>1. client'.connected => client'.conn \in Connection /\ client'.conn.since <= peer.n
                             /\ client'.conn.since < peer'.n /\ client'.conn.since # peer'.n
    <3>1. client'.connected => client'.conn \in Connection /\ client'.conn.since <= peer.n
      BY <1>7 DEF Held, Standing
    <3> QED
      BY <1>3, <1>4, <3>1 DEF Connection
  <2>2. FailureIsNotAnEra'
    BY <2>1 DEF FailureIsNotAnEra
  <2>3. client'.connected => client'.conn.since <= peer'.n
    BY <1>3, <1>4, <2>1 DEF Connection
  <2> QED
    BY <1>2, <1>7, <2>1, <2>2, <2>3 DEF Held, Standing
<1>11. Offered'
  BY <1>7 DEF Offered
<1>12. Blameless'
  BY <1>2, <1>7 DEF Held, Blameless
<1> QED
  BY <1>5, <1>6, <1>8, <1>9, <1>10, <1>11, <1>12 DEF Held, Typed

(* ---------------- what is put on the wire ---------------- *)

\* A frame keeps a session with its credential and with its handshake.
Keeps(f) ==
    f.session # Absent =>
        /\ f.session.bearer = f.bearer
        /\ f.version \in InitializeSupported \cup {Absent}
        /\ f.method \notin {"initialize", "server/discover"}

LEMMA FrameKeeps ==
    ASSUME NEW t \in Transports, NEW method, NEW bearer,
           t.session # Absent => /\ t.version \in InitializeSupported
                                 /\ t.session.bearer = bearer
                                 /\ method \notin {"initialize", "server/discover"}
    PROVE  Keeps(Frame(t, method, bearer))
<1>1. PICK f : f = Frame(t, method, bearer)
  OBVIOUS
<1>2. f.method = method /\ f.session = SessionHeader(t) /\ f.version = VersionHeader(t)
      /\ f.bearer = bearer
  BY <1>1 DEF Frame
<1>3. SessionHeader(t) \in {Absent, t.session} /\ VersionHeader(t) \in {Absent, t.version}
  BY DEF SessionHeader, VersionHeader
<1> QED
  BY <1>1, <1>2, <1>3 DEF Keeps

LEMMA ReleaseKeeps ==
    ASSUME NEW t \in Transports, SessionHeld(t)
    PROVE  \A f \in Release(t) : Keeps(f)
<1>1. CASE ~peer.http \/ t.session = Absent
  BY <1>1 DEF Release
<1>2. CASE peer.http /\ t.session # Absent
  <2>1. Keeps(Frame(t, "DELETE", t.session.bearer))
    BY <1>2, FrameKeeps DEF SessionHeld
  <2> QED
    BY <1>2, <2>1 DEF Release
<1> QED
  BY <1>1, <1>2

\* An attempt sends its frame over the transport as it was told of the version,
\* and the release of the session a handshake or an exchange ends with.
LEMMA AttemptedKeeps ==
    ASSUME Held, NEW method \in Methods, NEW version \in ClientVersions,
           method = "server/discover" => version = Discovery,
           method = "initialize" => version \in InitializeSupported /\ transport.session = Absent,
           NEW failing \in BOOLEAN, NEW a, NEW t, t = UseProtocol(transport, version),
           Attempted(t, method, version, failing, a)
    PROVE  SessionsKeptApart'
<1>1. /\ a \in AnswerSet /\ t \in Transports /\ t.version = version /\ SessionHeld(t)
      /\ Speaks(version) => t.session = Absent
      /\ transport.session = Absent => t.session = Absent
      /\ a.session # Absent => peer.http /\ a.session.bearer = client.bearer
  BY Attempting
<1>2. PICK u : u = After(t, a, client.bearer)
  OBVIOUS
<1>3. u \in Transports /\ SessionHeld(u)
  <2>1. Speaks(t.version) \/ t.version \in InitializeSupported
    BY <1>1, VersionsKnown DEF Speaks
  <2> QED
    BY <1>1, <1>2, <2>1, AfterHeld, AfterTyped
<1>4. Keeps(Frame(t, method, client.bearer))
  <2>1. Speaks(Discovery)
    BY DEF Speaks
  <2> QED
    BY <1>1, <2>1, FrameKeeps DEF SessionHeld
<1>5. \A f \in Release(u) : Keeps(f)
  BY <1>3, ReleaseKeeps
<1>6. wire' \subseteq {Frame(t, method, client.bearer)} \cup Release(u)
  BY <1>2 DEF Attempted
<1>7. \A f \in wire' : Keeps(f)
  BY <1>4, <1>5, <1>6
<1> QED
  BY <1>7 DEF Keeps, SessionsKeptApart

LEMMA WireKeeps ==
    ASSUME Held, Next
    PROVE  SessionsKeptApart'
<1>1. CASE wire' = {}
  BY <1>1 DEF SessionsKeptApart
<1>2. CASE Begin
  <2>1. transport \in Transports /\ SessionHeld(transport)
    BY DEF Held, Typed, TransportTyped, Transports, SessionsHeld
  <2>2. wire' \subseteq Release(transport)
    BY <1>2 DEF Begin
  <2>3. \A f \in wire' : Keeps(f)
    BY <2>1, <2>2, ReleaseKeeps
  <2> QED
    BY <2>3 DEF Keeps, SessionsKeptApart
<1>3. CASE Discover
  <2>1. client.version = Discovery /\ Discovery \in ClientVersions
    BY <1>3, VersionsKnown DEF Held, Offered, Discover
  <2>2. PICK failing \in BOOLEAN :
            \E a : Attempted(UseProtocol(transport, Discovery), "server/discover", Discovery,
                             failing, a)
    BY <1>3, <2>1 DEF Discover, Attempt
  <2>3. "server/discover" \in Methods
    BY DEF Methods
  <2> QED
    BY <2>1, <2>2, <2>3, AttemptedKeeps
<1>4. CASE Initialize
  <2>1. PICK version : version = client.version
    OBVIOUS
  <2>2. version \in InitializeSupported /\ version \in ClientVersions /\ transport.session = Absent
    BY <1>4, <2>1, VersionsKnown DEF Held, Offered, SessionsHeld, Initialize
  <2>3. PICK failing \in BOOLEAN :
            \E a : Attempted(UseProtocol(transport, version), "initialize", version, failing, a)
    BY <1>4, <2>1 DEF Initialize, Attempt
  <2>4. "initialize" \in Methods
    BY DEF Methods
  <2> QED
    BY <2>2, <2>3, <2>4, AttemptedKeeps
<1>5. CASE Announce
  <2>1. PICK version : version = client.version
    OBVIOUS
  <2>2. version \in ClientVersions
    BY <1>5, <2>1, VersionsKnown DEF Held, Offered, Announce
  <2>3. PICK failing \in BOOLEAN :
            \E a : Attempted(UseProtocol(transport, version), "notifications/initialized",
                             version, failing, a)
    BY <1>5, <2>1 DEF Announce, Attempt
  <2>4. "notifications/initialized" \in Methods
    BY DEF Methods
  <2> QED
    BY <2>2, <2>3, <2>4, AttemptedKeeps
<1>6. CASE Request
  <2>1. PICK version : version = client.conn.version
    OBVIOUS
  <2>2. version \in ClientVersions
    BY <1>6, <2>1 DEF Held, Standing, Connection, Request
  <2>3. PICK failing \in BOOLEAN :
            \E a : Attempted(UseProtocol(transport, version), "tools/list", version, failing, a)
    BY <1>6, <2>1 DEF Request, Attempt
  <2>4. "tools/list" \in Methods
    BY DEF Methods
  <2> QED
    BY <2>2, <2>3, <2>4, AttemptedKeeps
<1>7. Connect \/ Choose \/ ChangeToken \/ EndContext \/ RestartServer \/ ReplaceServer => wire' = {}
  BY DEF Connect, Choose, ChangeToken, EndContext, RestartServer, ReplaceServer
<1> QED
  BY <1>1, <1>2, <1>3, <1>4, <1>5, <1>6, <1>7 DEF Next

(* ---------------- the theorems ---------------- *)

LEMMA NextKeeps ==
    ASSUME NegotiationInv, [Next]_vars
    PROVE  NegotiationInv'
<1>1. Held
  BY DEF NegotiationInv
<1>2. CASE Next
  <2>1. RestartServer => UNCHANGED <<peer, pin, client, transport, opened, failures>>
    BY DEF RestartServer
  <2>2. Held'
    BY <1>1, <1>2, <2>1, BeginKeeps, ConnectKeeps, ChooseKeeps, DiscoverKeeps,
       InitializeKeeps,
       AnnounceKeeps, RequestKeeps, TokenKeeps, EndContextKeeps, StillKeeps, ReplaceKeeps DEF Next
  <2> QED
    BY <1>1, <1>2, <2>2, WireKeeps DEF NegotiationInv
<1>3. CASE UNCHANGED vars
  <2>1. UNCHANGED <<peer, pin, client, transport, opened, failures>> /\ wire' = wire
    BY <1>3 DEF vars
  <2>2. SessionsKeptApart'
    BY <2>1 DEF NegotiationInv, SessionsKeptApart
  <2> QED
    BY <1>1, <2>1, <2>2, StillKeeps DEF NegotiationInv
<1> QED
  BY <1>2, <1>3

\* Between any client and any peer as PeersAssumption has them, whatever is
\* replaced, restarted or fails at whichever frame (protocolEngine.handshake and
\* StreamableHTTPTransport.send).
THEOREM NegotiationInvariant == Spec => []NegotiationInv
<1>1. Init => NegotiationInv
  <2> SUFFICES ASSUME Init PROVE NegotiationInv
    OBVIOUS
  <2>1. wire = {}
    BY DEF Init
  <2> QED
    BY <2>1, HeldAtFirst DEF NegotiationInv, SessionsKeptApart
<1>2. NegotiationInv /\ [Next]_vars => NegotiationInv'
  BY NextKeeps
<1> QED
  BY <1>1, <1>2, PTL DEF Spec

\* A server of the discovery revision that failed while it was asked is not
\* taken for one of the older handshake (probe, passing, refusesTheRequest).
THEOREM FailuresAreNotAnEra == Spec => []FailureIsNotAnEra
<1>1. NegotiationInv => FailureIsNotAnEra
  BY DEF NegotiationInv, Held, Standing
<1> QED
  BY <1>1, NegotiationInvariant, PTL

\* A session goes to the wire only under the token that opened it and in the
\* handshake that opened it, its release included (captureSessionID,
\* terminateSession, forsake, UseProtocol).
THEOREM SessionsAreKeptApart == Spec => []SessionsKeptApart
<1>1. NegotiationInv => SessionsKeptApart
  BY DEF NegotiationInv
<1> QED
  BY <1>1, NegotiationInvariant, PTL

\* A handshake nothing got in the way of settles on a version of both ends if
\* there is one, and none settles on anything else (probe, fallback,
\* negotiateDown, parseInitializeResult).
THEOREM SharedVersionsAreFound == Spec => []SharedVersionIsFound
<1>1. NegotiationInv => SharedVersionIsFound
  <2> SUFFICES ASSUME NegotiationInv PROVE SharedVersionIsFound
    OBVIOUS
  <2>1. SettledOnSharedVersion
    BY DEF NegotiationInv, Held, Standing, Served, SettledOnSharedVersion
  <2>2. client.told = "failed" => failures > 0 \/ NothingShared
    BY DEF NegotiationInv, Held, Blameless
  <2> QED
    BY <2>1, <2>2 DEF SharedVersionIsFound, NothingShared
<1> QED
  BY <1>1, NegotiationInvariant, PTL
===============================================================================
