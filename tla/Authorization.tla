---------------------------- MODULE Authorization ----------------------------
(***************************************************************************)
(* How an application obtains, keeps and renews what authorizes it at an   *)
(* MCP server: client/oauth (Client, Discovery), the OAuth routes of       *)
(* mcpclient (handleRedirect, handleCallback) and the stores that keep a   *)
(* pending authorization and a token (SessionStore, MemoryStore).          *)
(*                                                                         *)
(* A flow is one call that starts from discovery: an authorization begun   *)
(* by a browser at the redirect route, or a Refresh or ClientCredentials   *)
(* of the application.  Flows that share an oauth.Client share what it     *)
(* memoized and its gate.  A visit is one request of a browser to the      *)
(* callback route.  The authorization servers, the protected resource and  *)
(* the network between are external: the resource may come to declare      *)
(* another authorization server, and requests may fail.                    *)
(*                                                                         *)
(* Each flow runs once, and it names what is made for it: the state of its *)
(* pending authorization, the session id minted for its browser, and the   *)
(* oauth.Client built for it when none is shared.                          *)
(***************************************************************************)
EXTENDS Naturals, FiniteSets, PendingStore

CONSTANTS
    Flows,              \* calls that start from discovery
    Visits,             \* requests to the callback route
    Browsers,
    Servers,            \* authorization servers, by issuer
    Origin,             \* the issuer a resource that declares none stands for
    Home,               \* the server the configured credentials belong to
    NoServer, NoFlow,
    Configurations,     \* oauth.Config, WithPublicURL, and the store with its room
    Offers,             \* what the metadata of each authorization server may say
    Kinds,              \* the calls made: "authorize", "refresh", "credentials"
    Resources,          \* where the resource publishes its metadata, and the
                        \* authorization server it declares there
    DiscoveryTTL, RegistrationTTL, PendingLifetime,
    MaxNow,             \* bound: the clock, in units of a quarter of an hour
    MaxFailures,        \* bound: requests that fail
    MaxMoves            \* bound: changes of what the resource declares

ASSUME AuthorizationAssumption ==
    /\ Origin \in Servers /\ Home \in Servers
    /\ NoServer \notin Servers /\ NoFlow \notin Flows
    /\ {DiscoveryTTL, RegistrationTTL, PendingLifetime} \subseteq Nat \ {0}
    /\ MaxNow \in Nat /\ IsFiniteSet(Flows)

\* What is configured and published; a store holds one entry at least.
ASSUME SettingAssumption ==
    /\ Configurations \subseteq [id : BOOLEAN, secret : BOOLEAN, bound : BOOLEAN, pinned : BOOLEAN,
                                 store : {"memory", "session"}, capacity : Nat \ {0}]
    /\ Offers \subseteq [Servers -> [pkce : BOOLEAN, document : BOOLEAN, registers : BOOLEAN,
                                     iss : BOOLEAN]]
    /\ Resources \subseteq [at : {"named", "inserted", "root", "nowhere"}, declares : Servers]

VARIABLES
    config,             \* how the application is set up
    offers,             \* the metadata each authorization server publishes
    resource,           \* what the protected resource publishes
    clients,            \* the memory of each oauth.Client
    shared,             \* OAuthRouteModule.shared and sharedFor
    flow,               \* the locals of each flow
    visit,              \* the locals of each visit
    pending,            \* the pending authorizations stored
    cookie,             \* mcp_oauth_sid of each browser
    tokens,             \* the flow each place holds the access token of
    sets,               \* the token sets issued to the application
    now, failures, moves

VARIABLE declared       \* every issuer the resource declared so far

vars == <<config, offers, resource, clients, shared, flow, visit, pending, cookie,
          tokens, sets, now, failures, moves, declared>>

setting == <<config, offers>>
world   == <<resource, now, moves, declared>>
stored  == <<pending, cookie, tokens>>

\* A client id or secret, and the server it belongs to: the one it was
\* configured for, or the one that registered it.  The document at the
\* client ID metadata URL identifies the application to any server.
Nothing == [kind |-> "none", of |-> NoServer]
Configured == [kind |-> "configured", of |-> Home]
Document == [kind |-> "document", of |-> NoServer]
Registered(s) == [kind |-> "registered", of |-> s]
Credentials == {Nothing, Configured, Document} \cup {Registered(s) : s \in Servers}

\* A token request as it is posted: to the token endpoint of which server, with
\* which credentials, and the grant, which is another server's or its own.
NoRequest == [to |-> NoServer, id |-> Nothing, secret |-> Nothing, grant |-> NoServer]

NoRecord == [of |-> NoServer, at |-> 0, expires |-> 0]
NewClient == [discovered |-> NoServer, discoveredAt |-> 0, record |-> NoRecord, gate |-> NoFlow]

Idle == [step |-> "idle", kind |-> "authorize", browser |-> NoFlow, client |-> NoFlow,
         named |-> FALSE, found |-> NoServer, savedAt |-> 0,
         lost |-> FALSE, request |-> NoRequest, cookie |-> NoFlow]
NoEntry == [by |-> NoFlow, place |-> NoFlow, expires |-> 0, issuer |-> NoServer,
            id |-> Nothing, secret |-> Nothing, promised |-> FALSE]
Away == [step |-> "idle", browser |-> NoFlow, place |-> NoFlow, state |-> NoFlow,
         code |-> NoServer, iss |-> NoServer, entry |-> NoEntry, took |-> FALSE, at |-> 0,
         request |-> NoRequest]

Init ==
    /\ config \in Configurations
    /\ offers \in Offers
    /\ resource \in Resources
    /\ clients = [c \in Flows |-> NewClient]
    /\ shared = [client |-> NoFlow, named |-> FALSE]
    /\ flow = [f \in Flows |-> Idle]
    /\ visit = [v \in Visits |-> Away]
    /\ pending = {}
    /\ cookie = [b \in Browsers |-> NoFlow]
    /\ tokens = [place \in Browsers \cup Flows |-> NoFlow]
    /\ sets = {}
    /\ now = 0 /\ failures = 0 /\ moves = 0
    /\ declared = {resource.declares}

At(f, step) == flow[f].step = step
ClientOf(f) == clients[flow[f].client]

\* A flow goes on, with its client as it becomes.
GoOn(f, step, client) ==
    /\ flow' = [flow EXCEPT ![f].step = step]
    /\ clients' = [clients EXCEPT ![flow[f].client] = client]

Released(client) == [client EXCEPT !.gate = NoFlow]

\* What a call leaves when it returns: its locals are gone, and the client with
\* them when nothing shares it.
Left(client) == IF config.pinned THEN client ELSE NewClient
Ended == [Idle EXCEPT !.step = "ended"]

Fail(f, client) ==
    /\ flow' = [flow EXCEPT ![f] = Ended]
    /\ clients' = [clients EXCEPT ![flow[f].client] = Left(client)]

\* The deferred release of a flow that fails behind the gate.
FailBehindGate(f) == Fail(f, Released(ClientOf(f)))

-----------------------------------------------------------------------------
(* Which credentials may go where.                                          *)

\* requireConfiguredIssuer.
RequireConfiguredIssuer(s) == config.bound => s = Home

\* requireConfiguredCredentialsBelongTo, presentsConfigured.
RequireCredentialsBelongTo(s, id, secret) ==
    "configured" \in {id.kind, secret.kind} => config.bound /\ RequireConfiguredIssuer(s)

\* requireSameIssuer.
RequireSameIssuer(bound, s) == bound # NoServer /\ bound = s

\* validateIssuer.
ValidIssuer(entry, iss) ==
    IF iss # NoServer THEN entry.issuer = iss ELSE ~entry.promised

\* Mutant: a record is reused whichever server issued it.
UsableAnywhere(client, s) ==
    /\ client.record.of # NoServer
    /\ now < client.record.at + RegistrationTTL

\* memoizedRegistration, registrationIdentity and ClientRegistration.Expired;
\* an expiry of 0 is none.
Usable(client, s) ==
    /\ client.record.of = s
    /\ client.record.expires # 0 => now < client.record.expires
    /\ now < client.record.at + RegistrationTTL

\* memoizedDiscovery.
Fresh(client) ==
    client.discovered # NoServer /\ now < client.discoveredAt + DiscoveryTTL

\* The configured credentials, where the configuration holds any.
ConfiguredId == IF config.id THEN Configured ELSE Nothing
ConfiguredSecret == IF config.secret THEN Configured ELSE Nothing

-----------------------------------------------------------------------------
(* Starting a flow.                                                         *)

\* oauthClient: with the public URL pinned, the flows built alike share one.
ClientFor(f, named) ==
    IF config.pinned /\ shared.client # NoFlow /\ shared.named = named THEN shared.client ELSE f

SharedAfter(f, named) ==
    IF config.pinned THEN [client |-> ClientFor(f, named), named |-> named] ELSE shared

\* handleRedirect up to AuthorizationURL: challengeFrom asks the server what it
\* requires; an answer that names no metadata and no answer at all read alike.
StartAuthorization(f, b) ==
    /\ At(f, "idle")
    /\ \E heard \in BOOLEAN :
           LET named == heard /\ resource.at = "named"
           IN  /\ ~heard => failures < MaxFailures
               /\ failures' = IF heard THEN failures ELSE failures + 1
               /\ flow' = [flow EXCEPT ![f] =
                     [Idle EXCEPT !.step = "discover", !.browser = b, !.named = named,
                                  !.client = ClientFor(f, named), !.cookie = cookie[b]]]
               /\ shared' = SharedAfter(f, named)
    /\ UNCHANGED <<setting, world, clients, visit, stored, sets>>

\* Refresh and ClientCredentials over the Client that the application holds: one
\* of its own or the shared one.  A set may have been kept without its issuer.
StartOther(f, kind) ==
    /\ At(f, "idle")
    /\ IF kind = "refresh" THEN sets # {} ELSE config.id
    /\ \E named \in {resource.at = "named"}, set \in sets \cup {NoRequest}, lost \in BOOLEAN :
           /\ IF kind = "refresh" THEN set \in sets ELSE set = NoRequest /\ ~lost
           /\ flow' = [flow EXCEPT ![f] =
                 [Idle EXCEPT !.step = "discover", !.kind = kind, !.named = named,
                              !.client = ClientFor(f, named), !.lost = lost, !.request = set]]
    /\ UNCHANGED <<setting, world, clients, shared, visit, stored, sets, failures>>

-----------------------------------------------------------------------------
(* discover.                                                                *)

\* discoverMetadata before the gate.
Discover(f) ==
    /\ At(f, "discover")
    /\ IF Fresh(ClientOf(f))
       THEN flow' = [flow EXCEPT ![f].step = "discovered", ![f].found = ClientOf(f).discovered]
       ELSE flow' = [flow EXCEPT ![f].step = "wait to discover"]
    /\ UNCHANGED <<setting, world, clients, shared, visit, stored, sets, failures>>

\* Behind the gate another flow may have discovered meanwhile.
AcquireToDiscover(f) ==
    /\ At(f, "wait to discover")
    /\ ClientOf(f).gate = NoFlow
    /\ IF Fresh(ClientOf(f))
       THEN /\ flow' = [flow EXCEPT ![f].step = "discovered", ![f].found = ClientOf(f).discovered]
            /\ UNCHANGED clients
       ELSE GoOn(f, IF flow[f].named THEN "ask named" ELSE "ask inserted",
                 [ClientOf(f) EXCEPT !.gate = f])
    /\ UNCHANGED <<setting, world, shared, visit, stored, sets, failures>>

\* acquire: the context of a flow ends while it waits for the gate.
GiveUpWaiting(f) ==
    /\ flow[f].step \in {"wait to discover", "wait to register"}
    /\ failures < MaxFailures
    /\ failures' = failures + 1
    /\ Fail(f, ClientOf(f))
    /\ UNCHANGED <<setting, world, shared, visit, stored, sets>>

\* The locations asked in turn, by the step that asks and the place it asks.
Asking == [step \in {"ask named", "ask inserted", "ask root"} |->
              IF step = "ask named" THEN "named"
              ELSE IF step = "ask inserted" THEN "inserted" ELSE "root"]

\* Mutant: a status that settles nothing reads as there being no document.
UnavailableIsNone == {"none", "unavailable"}

\* fetchResourceMetadata: the answers that say a location holds no document.
SaysNone == {"none"}

\* The answers a location may give now: what it holds, or, while the network
\* fails, no answer or one that settles nothing (inconclusive).
AnswerOf(step) == IF Asking[step] = resource.at THEN "document" ELSE "none"
Answers(step) == {AnswerOf(step)} \cup (IF failures < MaxFailures THEN {"unavailable"} ELSE {})

\* resourceMetadata, one location: a document decides, none moves on to the
\* next unless the resource named the location itself, anything else is fatal.
AskResource(f) ==
    /\ flow[f].step \in DOMAIN Asking
    /\ \E answer \in Answers(flow[f].step) :
          /\ failures' = IF answer = "unavailable" THEN failures + 1 ELSE failures
          /\ \/ /\ answer = "document"
                /\ flow' = [flow EXCEPT ![f].step = "ask server", ![f].found = resource.declares]
                /\ UNCHANGED clients
             \/ /\ answer \in SaysNone
                /\ \/ /\ At(f, "ask named")
                      /\ FailBehindGate(f)
                   \/ /\ At(f, "ask inserted")
                      /\ GoOn(f, "ask root", ClientOf(f))
                   \/ /\ At(f, "ask root")
                      /\ flow' = [flow EXCEPT ![f].step = "ask server", ![f].found = Origin]
                      /\ UNCHANGED clients
             \/ /\ answer \notin SaysNone \cup {"document"}
                /\ FailBehindGate(f)
    /\ UNCHANGED <<setting, world, shared, visit, stored, sets>>

\* fetchMetadata and what Discover requires of the answer: on success it is
\* memoized, a failed discovery is not.
AskServer(f) ==
    /\ At(f, "ask server")
    /\ \/ /\ GoOn(f, "discovered",
                  Released([ClientOf(f) EXCEPT !.discovered = flow[f].found, !.discoveredAt = now]))
          /\ UNCHANGED failures
       \/ /\ failures < MaxFailures
          /\ failures' = failures + 1
          /\ FailBehindGate(f)
    /\ UNCHANGED <<setting, world, shared, visit, stored, sets>>

-----------------------------------------------------------------------------
(* What each kind of flow does with the server it discovered.               *)

\* MemoryStore.sid: the cookie the request carries, or a session id minted for
\* it.  The velocity session of SessionStore is the browser's own.
Place(f) ==
    IF config.store = "session" THEN flow[f].browser
    ELSE IF flow[f].cookie # NoFlow THEN flow[f].cookie ELSE f

\* SavePending of either store, and the response that sets the cookie.
SavePending(f, entry) ==
    IF config.store = "session"
    THEN /\ pending' = pending \cup {entry}
         /\ UNCHANGED cookie
    ELSE /\ \E kept \in RoomMade(pending, now, config.capacity) : pending' = kept \cup {entry}
         /\ cookie' = IF flow[f].cookie # NoFlow THEN cookie
                      ELSE [cookie EXCEPT ![flow[f].browser] = entry.place]

\* The rest of AuthorizationURL and handleRedirect, once the client is known.
Redirect(f, id, secret, client) ==
    LET s == flow[f].found
        entry == [by |-> f, place |-> Place(f), expires |-> now + PendingLifetime, issuer |-> s,
                  id |-> id, secret |-> secret, promised |-> offers[s].iss]
    IN  IF RequireCredentialsBelongTo(s, id, secret)
        THEN /\ flow' = [flow EXCEPT ![f] = [Idle EXCEPT !.step = "redirected",
                               !.browser = flow[f].browser, !.savedAt = now]]
             /\ clients' = [clients EXCEPT ![flow[f].client] = Left(client)]
             /\ SavePending(f, entry)
        ELSE /\ Fail(f, client)
             /\ UNCHANGED <<pending, cookie>>

\* AuthorizationURL: PKCE, then a client id: configured, the document, a record
\* registered earlier, or a registration.
Authorize(f) ==
    /\ At(f, "discovered") /\ flow[f].kind = "authorize"
    /\ LET s == flow[f].found
       IN  \/ /\ ~(RequireConfiguredIssuer(s) /\ offers[s].pkce)
              /\ Fail(f, ClientOf(f))
              /\ UNCHANGED <<pending, cookie>>
           \/ /\ RequireConfiguredIssuer(s) /\ offers[s].pkce
              /\ \/ /\ config.id
                    /\ Redirect(f, Configured, ConfiguredSecret, ClientOf(f))
                 \/ /\ ~config.id /\ offers[s].document
                    /\ Redirect(f, Document, Nothing, ClientOf(f))
                 \/ /\ ~config.id /\ ~offers[s].document /\ Usable(ClientOf(f), s)
                    /\ Redirect(f, Registered(ClientOf(f).record.of),
                                Registered(ClientOf(f).record.of), ClientOf(f))
                 \/ /\ ~config.id /\ ~offers[s].document /\ ~Usable(ClientOf(f), s)
                    /\ GoOn(f, "wait to register", ClientOf(f))
                    /\ UNCHANGED <<pending, cookie>>
    /\ UNCHANGED <<setting, world, shared, visit, tokens, sets, failures>>

\* Mutant: what another flow registered meanwhile is not looked up again.
Registers(f) == TRUE

\* resolveRegistration behind the gate: registered meanwhile or not.
NeedsRecord(f) == ~Usable(ClientOf(f), flow[f].found)

AcquireToRegister(f) ==
    /\ At(f, "wait to register")
    /\ ClientOf(f).gate = NoFlow
    /\ LET s == flow[f].found
       IN  \/ /\ ~NeedsRecord(f)
              /\ Redirect(f, Registered(ClientOf(f).record.of),
                          Registered(ClientOf(f).record.of), ClientOf(f))
           \/ /\ NeedsRecord(f)
              /\ IF offers[s].registers THEN GoOn(f, "register", [ClientOf(f) EXCEPT !.gate = f])
                                        ELSE Fail(f, ClientOf(f))
              /\ UNCHANGED <<pending, cookie>>
    /\ UNCHANGED <<setting, world, shared, visit, tokens, sets, failures>>

\* registerClient: the record is kept, whose secret may expire.
Register(f) ==
    /\ At(f, "register")
    /\ LET s == flow[f].found
       IN  \/ /\ \E expires \in {0, now + 1} :
                    Redirect(f, Registered(s), Registered(s),
                             Released([ClientOf(f) EXCEPT !.record =
                                          [of |-> s, at |-> now, expires |-> expires]]))
              /\ UNCHANGED failures
           \/ /\ failures < MaxFailures
              /\ failures' = failures + 1
              /\ FailBehindGate(f)
              /\ UNCHANGED <<pending, cookie>>
    /\ UNCHANGED <<setting, world, shared, visit, tokens, sets>>

\* What a refresh presents: the pair the set carries, or the configured one.
RefreshId(set) == IF set.id = Nothing THEN ConfiguredId ELSE set.id
RefreshSecret(set) ==
    IF set.secret = Nothing /\ RefreshId(set) = ConfiguredId THEN ConfiguredSecret ELSE set.secret

\* Refresh and ClientCredentials up to the token request.
RequestToken(f) ==
    /\ At(f, "discovered") /\ flow[f].kind # "authorize"
    /\ LET s == flow[f].found
           set == flow[f].request
           again == flow[f].kind = "refresh"
           id == IF again THEN RefreshId(set) ELSE ConfiguredId
           secret == IF again THEN RefreshSecret(set) ELSE ConfiguredSecret
           allowed == /\ RequireConfiguredIssuer(s)
                      /\ again => RequireSameIssuer(IF flow[f].lost THEN NoServer ELSE set.to, s)
                      /\ RequireCredentialsBelongTo(s, id, secret)
       IN  \/ /\ allowed
              /\ flow' = [flow EXCEPT ![f].step = "token",
                            ![f].request = [to |-> s, id |-> id, secret |-> secret,
                                            grant |-> IF again THEN set.to ELSE s]]
              /\ UNCHANGED clients
           \/ ~allowed /\ Fail(f, ClientOf(f))
    /\ UNCHANGED <<setting, world, shared, visit, stored, sets, failures>>

\* requestToken: the token set records the issuer the request went to.
TokenAnswered(f) ==
    /\ At(f, "token")
    /\ Fail(f, ClientOf(f))
    /\ \/ /\ sets' = sets \cup {[flow[f].request EXCEPT !.grant = flow[f].request.to]}
          /\ UNCHANGED failures
       \/ /\ failures < MaxFailures
          /\ failures' = failures + 1
          /\ UNCHANGED sets
    /\ UNCHANGED <<setting, world, shared, visit, stored>>

-----------------------------------------------------------------------------
(* The callback.                                                            *)

\* The entry stored under the place and the state of a visit.
Found(r) == {e \in pending : e.place = r.place /\ e.by = r.state}

\* Mutant: the entry stays in the store.
KeptOnTake(found) == pending

\* TakePending removes the entry with the lock it read it under.
LeftAfterTake(found) == pending \ found

\* What a visit leaves when it returns.
Over(r, step) == [Away EXCEPT !.step = step, !.browser = r.browser, !.state = r.state,
                              !.took = r.took, !.at = r.at]

\* ExchangeCode up to the token request: the state and iss before anything else
\* of the response, then the code, then where the credentials may go.
Exchange(r, e) ==
    LET allowed == /\ e.by = r.state
                   /\ ValidIssuer(e, r.iss)
                   /\ r.code # NoServer
                   /\ RequireConfiguredIssuer(e.issuer)
                   /\ RequireCredentialsBelongTo(e.issuer, e.id, e.secret)
        taken == [r EXCEPT !.entry = NoEntry, !.took = TRUE, !.at = now]
    IN  IF allowed THEN [taken EXCEPT !.step = "token",
                             !.request = [to |-> e.issuer, id |-> e.id, secret |-> e.secret,
                                          grant |-> r.code]]
                   ELSE Over(taken, "refused")

\* A browser is sent to the callback with the state of a flow, by the server the
\* code is of or by one that refused it; any browser may follow the link.
Request(b, f, code) ==
    [Away EXCEPT !.browser = b, !.state = f, !.code = code,
                 !.iss = IF code # NoServer /\ offers[code].iss THEN code ELSE NoServer,
                 !.place = IF config.store = "session" THEN b ELSE cookie[b]]

\* handleCallback over MemoryStore, up to the token request.
TakeFromMemory(v, r) ==
    /\ config.store = "memory"
    /\ \/ \E e \in Found(r) : Honoured(e, now) /\ visit' = [visit EXCEPT ![v] = Exchange(r, e)]
       \/ /\ ~\E e \in Found(r) : Honoured(e, now)
          /\ visit' = [visit EXCEPT ![v] = Over([r EXCEPT !.browser = NoFlow], "refused")]
    /\ pending' = LeftAfterTake(Found(r))

\* handleCallback over SessionStore: TakePending gets the entry, then removes it.
GetFromSession(v, r) ==
    /\ config.store = "session"
    /\ \/ \E e \in Found(r) :
             visit' = [visit EXCEPT ![v] = [r EXCEPT !.step = "remove", !.entry = e]]
       \/ /\ Found(r) = {}
          /\ visit' = [visit EXCEPT ![v] = Over([r EXCEPT !.browser = NoFlow], "refused")]
    /\ UNCHANGED pending

Arrive(v, b, f, code) ==
    /\ visit[v].step = "idle"
    /\ At(f, "redirected")
    /\ TakeFromMemory(v, Request(b, f, code)) \/ GetFromSession(v, Request(b, f, code))
    /\ UNCHANGED <<setting, world, clients, shared, flow, cookie, tokens, sets, failures>>

RemoveFromSession(v) ==
    /\ visit[v].step = "remove"
    /\ pending' = pending \ Found(visit[v])
    /\ visit' = [visit EXCEPT ![v] = Exchange(visit[v], visit[v].entry)]
    /\ UNCHANGED <<setting, world, clients, shared, flow, cookie, tokens, sets, failures>>

\* The token endpoint answers, and SaveToken keeps the token for the browser; a
\* code it did not issue or has exchanged already is refused.
CodeExchanged(v) ==
    /\ visit[v].step = "token"
    /\ \/ /\ visit[v].code = visit[v].request.to
          /\ ~\E w \in Visits : w # v /\ visit[w].step = "saved" /\ visit[w].state = visit[v].state
          /\ visit' = [visit EXCEPT ![v] = Over(visit[v], "saved")]
          /\ tokens' = [tokens EXCEPT ![visit[v].place] = visit[v].state]
          /\ sets' = sets \cup {visit[v].request}
          /\ UNCHANGED failures
       \/ /\ \/ /\ failures < MaxFailures
                /\ failures' = failures + 1
             \/ /\ \/ visit[v].code # visit[v].request.to
                   \/ \E w \in Visits : w # v /\ visit[w].step = "saved"
                                              /\ visit[w].state = visit[v].state
                /\ UNCHANGED failures
          /\ visit' = [visit EXCEPT ![v] = Over(visit[v], "refused")]
          /\ UNCHANGED <<tokens, sets>>
    /\ UNCHANGED <<setting, world, clients, shared, flow, pending, cookie>>

-----------------------------------------------------------------------------
(* The world around.                                                        *)

\* The resource comes to declare another authorization server.
Redeclare ==
    /\ moves < MaxMoves
    /\ moves' = moves + 1
    /\ \E s \in Servers \ {resource.declares} : resource' = [resource EXCEPT !.declares = s]
    /\ declared' = declared \cup {resource'.declares}
    /\ UNCHANGED <<setting, clients, shared, flow, visit, stored, sets, now, failures>>

Tick ==
    /\ now < MaxNow
    /\ now' = now + 1
    /\ UNCHANGED <<setting, resource, moves, declared, clients, shared, flow, visit, stored,
                   sets, failures>>

Start(f) ==
    \/ "authorize" \in Kinds /\ \E b \in Browsers : StartAuthorization(f, b)
    \/ \E kind \in Kinds \ {"authorize"} : StartOther(f, kind)

GoesOn(f) ==
    \/ Discover(f) \/ AcquireToDiscover(f) \/ AskResource(f) \/ AskServer(f)
    \/ Authorize(f) \/ AcquireToRegister(f) \/ Register(f)
    \/ RequestToken(f) \/ TokenAnswered(f)
    \/ GiveUpWaiting(f)

Return(v) ==
    \/ \E b \in Browsers, f \in Flows, code \in Servers \cup {NoServer} : Arrive(v, b, f, code)
    \/ RemoveFromSession(v)
    \/ CodeExchanged(v)

Next ==
    \/ \E f \in Flows : Start(f) \/ GoesOn(f)
    \/ \E v \in Visits : Return(v)
    \/ Redeclare
    \/ Tick

Spec == Init /\ [][Next]_vars

-----------------------------------------------------------------------------
(* Properties.                                                              *)

Requests == [to : Servers \cup {NoServer}, id : Credentials, secret : Credentials,
             grant : Servers \cup {NoServer}]

\* The locals and the memory of flows, visits and clients keep their types.
AuthorizationTypeOK ==
    /\ \A f \in Flows :
          /\ flow[f].client \in Flows \cup {NoFlow}
          /\ flow[f].found \in Servers \cup {NoServer}
          /\ flow[f].request \in Requests
          /\ clients[f].gate \in Flows \cup {NoFlow}
          /\ clients[f].record.of \in Servers \cup {NoServer}
    /\ \A v \in Visits : visit[v].request \in Requests
    /\ sets \subseteq Requests
    /\ config.store = "memory" => Cardinality(pending) <= config.capacity
    /\ tokens \in [Browsers \cup Flows -> Flows \cup {NoFlow}]

\* The token requests on their way.
Sent == {flow[f].request : f \in {g \in Flows : At(g, "token")}}
        \cup {visit[v].request : v \in {w \in Visits : visit[w].step = "token"}}

\* A client id, a secret, a refresh token and the code of a server that states
\* its iss reach no token endpoint but that of the server they belong to,
\* although the resource comes to name another one between discovery,
\* registration, redirect, callback and refresh (client/oauth/oauth.go:60-67).
CredentialsStayWithTheirServer ==
    \A r \in Sent :
        /\ r.id.of \in {NoServer, r.to}
        /\ r.secret.of \in {NoServer, r.to}
        /\ r.grant # r.to => ~offers[r.grant].iss /\ ~offers[r.to].iss

\* The visits that went on with a pending authorization.
Completing == {v \in Visits : visit[v].took}

\* With MemoryStore a pending authorization is handed to one visit at most, of
\* the browser that began the flow, before its lifetime is over; with
\* SessionStore to the browser that began it (mcpclient/store.go:180-235).
HandedToItsBrowser ==
    \A v \in Completing :
        /\ visit[v].browser = flow[visit[v].state].browser
        /\ config.store = "memory" =>
              /\ visit[v].at < flow[visit[v].state].savedAt + PendingLifetime
              /\ \A w \in Completing \ {v} : visit[w].state # visit[v].state

\* A pending authorization that MemoryStore no longer holds was asked about, has
\* lapsed, or made room for as many newer ones as the store holds
\* (mcpclient/store.go:126-127, dropLapsed).
NoFlowIsLost ==
    \A f \in Flows :
        \/ ~At(f, "redirected") \/ config.store # "memory"
        \/ \E e \in pending : e.by = f
        \/ \E v \in Visits : visit[v].state = f
        \/ now >= flow[f].savedAt + PendingLifetime
        \/ Cardinality({g \in Flows \ {f} : At(g, "redirected")
                                           /\ flow[g].savedAt >= flow[f].savedAt}) >= config.capacity

\* What a flow left behind when it redirected is there for its callback, and for
\* nothing else (TakePending, dropLapsed, handleCallback).
CallbackCompletesItsOwnFlow == HandedToItsBrowser /\ NoFlowIsLost

\* The server a flow turns to is one the resource declared; its own origin stands
\* in only where the locations the flow was left to ask hold no document, and
\* never because one could not answer (resourceMetadata,
\* client/oauth/discovery.go:159-174).
ResourceDecides ==
    \A f \in Flows :
        flow[f].found \in declared
                         \cup (IF resource.at \in {"nowhere", "named"} THEN {Origin} ELSE {})
                         \cup {NoServer}

\* A record is registered anew only when the one at hand cannot serve: a burst of
\* first flows leaves one record, not one per browser, also when some of them
\* fail or give up (client/oauth/oauth.go:479-482).
RecordKeptWhileUsable ==
    [][\A c \in Flows : clients'[c].record # clients[c].record
                            => ~Usable(clients[c], clients'[c].record.of)]_vars

=============================================================================
