# velocity-mcp in TLA+

A TLA+ development of [velocity-mcp](../src/), a Go implementation of the Model
Context Protocol: modules that model its components, TLC configurations that
check them on small instances, and theorems proved with TLAPS for every value of
the constants.  Source paths below are relative to `src/`.

1. [The system](#the-system): its components, their state, what is hard about them
2. [The modules](#the-modules): which module models what, and how it maps to the code
3. [The runs](#the-runs): what each shows, its bounds, the fairness it assumes
4. [The proofs](#the-proofs)
5. [Findings](#findings)
6. [What is not modelled](#what-is-not-modelled)
7. [Plan](#plan)

## The system

The repository holds an MCP **client**, an MCP **server**, the transports of
both, an **OAuth** client for the first and OAuth endpoints for the second, a
**console** command that runs an inspector over a server, and the glue that puts
any of it into an application.  Most of what interleaves is on the client's side:
one `Client` is shared by the goroutines of an application, talks to a process or a
service it does not control, and keeps what it learned from one exchange for the
next.  The server handles a message over a registry that no longer changes, and is
hard in another way: what it answers is decided in many places (headers, parser,
protocol metadata, dispatch, method, envelope, framing) that must agree.

| component | state it keeps | operations | properties that make it correct |
|---|---|---|---|
| protocol engine (`client/protocol.go`, `clock.go`) | the one-slot exchange gate; `connected`, `conn`, `generation`, `pinned`; requests withdrawn and not accounted for | `connect`, `dispatch`, `exchange`, `advertised`, `pinProtocolVersion`, `disconnect`, `discoverResult`, `initializeResult` | an answer names the connection it came over; one context is one credential; a request is carried out at most once; a pin holds; the gate is let go of on every path |
| negotiation (`client/negotiation.go`, `discover.go`, `protocol_version.go`) | the remembered handshake | probe, fall back, negotiate down, initialize | two peers that share a version settle on one; a failure is never taken for an older server |
| tool catalogue of the client (`client/client.go`, `methods.go`, `caching.go`) | `catalogue`, `changes`, `excluded`, `excludedFor` under `Client.mu` | `Tools`, `CallTool`, `ExcludedTools`, `serverNotified` | a call is mirrored from what this server stated over this connection; an announced change outdates everything older; a listing is one caller's |
| stdio transport (`client/transport_stdio.go`) | the subprocess, a reader goroutine, the channel of lines, the backlog, `readErr` | `Connect`, `Send`, `Receive`, `Disconnect` | frames in order and whole; bounded memory; readers and servers come to an end |
| HTTP transport (`client/transport_http.go`, `headers.go`) | the settled bearer, the context number, the session, queued frames | `SettleAuthorization`, `UseProtocol`, `Send`, `Receive`, `Disconnect` | a session belongs to one credential and one handshake |
| manager (`client/manager.go`, `webclient.go`) | the map of factories and clients | `Register`, `Client`, `Build`, `DisconnectAll` | a client handed out is one `DisconnectAll` reaches |
| OAuth client (`client/oauth/`) | memos of discovery and registration, a gate | `AuthorizationURL`, `ExchangeCode`, `ClientCredentials`, `Refresh` | one registration per issuer; a credential leaves no server it belongs to |
| OAuth of the application (`mcpclient/`) | pending authorizations in a session or in memory | the redirect and callback routes, `SavePending`, `TakePending` | a pending authorization completes its own flow, once, within its lifetime |
| server core and methods (`server/`, `server/methods/`, `jsonrpc/`) | registry fixed at start; the key of session ids | one handler per method | the order of validation; what runs is what was stated; a failure is not cached |
| server transports (`transport/`) | the stream of one reply; the session of a process over stdio | the stdio loop, the HTTP handler | one readable reply per request; a session id vouched for |
| searchable tool catalog (`server/tool_catalog.go`) | the finalized catalog, the limits | `search_tools`, `execute_tools` | every reply within its limit; what it says ran is what ran |
| inspector (`console/inspector*.go`) | a process group, a configuration file | one run of `mcp:inspector` | nothing it started outlives it, nothing else is signalled |
| protocol types, generators, test harness, module | none | conversions, templates, assertions | |

**How they interact.**  A caller's operation (`Tools`, `CallTool`, `Connect`)
waits for the engine's exchange gate, settles the credential with the transport,
connects if no connection of that credential's context stands, runs the handshake,
sends one request and reads frames until its response.  The tool catalogue sits on
the engine: a listing is one exchange per page, a call may read pages *inside* its
own exchange (the `headerFunc` runs with the gate held), and a notification that
arrives inside anybody's exchange reaches it as a callback.  The engine uses a
transport through `Connect`, `Send`, `Receive`, `Disconnect` and a few optional
interfaces; over stdio, a reader goroutine fills a bounded channel from the pipe;
over HTTP, what a POST is answered with waits in a queue until it is received.  The
token a transport presents comes from the OAuth client, which the routes of an
application drive from two requests of a browser with a store between them.  On the
other side the HTTP handler checks the headers against the body, hands the message
to the server, and frames what comes back; two of the server's own tools run its
other tools and report on them.

**What is hard.**  `Disconnect` takes neither the gate nor waits for anyone, so it
falls between any two steps of an exchange.  The token callback may resolve to
another credential at any moment, while a connection, a cursor, a catalogue and a
list of refused names of the previous one are held.  A session expires, a version
is refused, a discover result outlives its lifetime, each in the middle of an
exchange that has to go on or start over.  Several values are read under one lock
and used under another (`recordListing`, `presentable`, `ExcludedTools`).  A
subprocess hangs, floods, closes its output or dies with frames still unread.  A
server fails, or something before it does, at the very frame that tells its era.
A protected resource comes to name another authorization server between two
requests of one flow.  A reply does not fit after the call it reports has run.  A
process of the inspector's starts another while the group is being listed.
`PROJECT.json` lists these hazards, each at its line, with the property that
covers it.

## The modules

    Exchanges               what the engine promises to the layers above
      ^            ^
      | implements  \ EXTENDS
    ClientProtocol   ToolCatalogue
      | its channel: open or closed
    StdioTransport        Correlation: the frames of one exchange over it

    McpServer               how the server settles one message
      ^            ^
      | EXTENDS     \ INSTANCE: what the peer of a client answers
    HttpServer       Negotiation

    PendingStore            the memory of pending authorizations
      ^ EXTENDS
    Authorization

    ToolSearch              limits, registration and search_tools
      ^ EXTENDS
    ToolBatch               execute_tools and the client that resumes

    Inspector

    ClientProtocol_proofs   its safety, and that it implements Exchanges
    <Module>_proofs         the theorems about HttpServer, Authorization, ToolCatalogue,
                            Inspector, Correlation, Negotiation, ToolBatch
    MC<Module>              sizes, inputs and symmetry for TLC

### Exchanges

The abstract specification: exchanges are carried one at a time, under the one
credential settled for each (`Authorize`), over a link that a handshake settled
(`Settle`) and that may turn out to be no good (`Lose`); a reply is stamped with
its link (`Reply`).  A `Link` is a connection as the layers above know it: its
`heldConnection.generation`, its authorization context, and, as a record of the
truth, the credential it was settled under.

### ClientProtocol

The engine, with the part of the HTTP transport it consults.  One caller at a time
holds `gate`; `turn` is the locals of `exchangeFor`, `step` where it is.

| code | model |
|---|---|
| `acquireExchange`, `releaseExchange` | `Ask`, `GiveUp`, `Acquire`, `Return` |
| `connectLocked`, `authorize`, `forsake`, `standingConnection` | `KeepConnection`, `OpenConnection`, `CannotConnect` |
| `settle`, `handshake` | `HandshakeSucceeds`, `HandshakeFails`, `Settled`: the connection is published, then counted, and readers may come in between |
| `terms`, `errAuthorizationChanged` | `Refuse`, `Accept` |
| `advertised`, `outlived` | `Found`, `ReadAgain` (a second handshake within the exchange), `Outlive` |
| `attempt`, `exchangeFor`, `renegotiated` | `Send`, `Succeed`, `EndStanding`, `ChannelFails`, `Expire`, `RefuseVersion` |
| `pinProtocolVersion` | `Pin` |
| `disconnect` | `BeginDisconnect` under the mutex, `EndDisconnect` after it |
| `discoverResult`, `initializeResult`, `presentable` | `PeekConnection` under the mutex, `PeekCredential` after it |
| `SettleAuthorization`, `AuthorizationContext` | the operators of those names |

`peer`, `frame` and the `cred` fields are not the client's: they record what truly
happened on the wire, so that a property compares the client's belief with the
fact.  A step of the gate's holder that nobody can observe apart from the next is
one action with it.  A credential never settled has context 0; what `settle` is
given as the authorization is read, as in the code, when the handshake begins.

Versions are opaque values, split into those of the discovery era and the others;
`UnknownVersion` stands for a pin the client does not speak.  A handshake is one
step that succeeds at some version or fails: how it gets there (probe, fallback,
negotiating down) is module Negotiation.  A request that cannot be encoded, or its
headers rendered, ends like one the server answered with an error (`EndStanding`): it
was not sent, and the connection stands.

### ToolCatalogue

`Client.Tools`, `Client.CallTool` and `Client.ExcludedTools` over `Exchanges`.
Page *n* of a listing states tool *n*; tool 0 is on no page.  A definition is who
stated it and when (`Statement`): link, revision of the server's catalogue, and
the time it goes stale.  `work[c]` holds the locals of one `Tools` or `CallTool`:

| code | model |
|---|---|
| `listOn`, `readPages` | `Start`, `AskPage`, `PageArrives`, `CredentialChanged` (starts over, at most once), `BadPage` |
| `recordListing`: reads the generation, then takes `Client.mu` | `ReadGeneration`, then `Record` |
| `mirroring`, `statedFor`, `wholeUntil`, `forgetOtherConnection` | `SendBare`, `SendFromCatalogue`, `ReadFirst` |
| `readDefinition`, within the exchange of the call | `AskHeldPage`, `HeldPageArrives`, `LastHeldPageArrives`, `ListingRefused` |
| the repeat after a header mismatch, of a call rendered with no headers as well | `HeaderMismatch` |
| `serverNotified` | `Announced` |
| the cap of a listing, met at any page and ahead of what its last page holds | `PageArrives`, `Shown` |
| `ExcludedTools`: resolves the context, then takes `Client.mu` | `ResolveContext`, `ShowExcluded` |

### StdioTransport

One user (whoever holds the exchange gate) connects, sends and receives; any
goroutine may disconnect.  Each subprocess has its own pipe, reader, channel of
lines, backlog and `done`, as a call works on copies it took under the mutex.

| code | model |
|---|---|
| `readLoop`, `readFrame` | `ReadFrame`, `OutputEnded`, `ReadEnd`, `TakeRoom`, `Push`, `Abandoned`, `Drain` |
| `backlog` | `held`, `closed`; `Room`, `TakeLine`, `Release` |
| `Connect` (adopts a running process, or starts one) | `Connect` |
| `Send` | `Send`, `Sent`, `SendFails` |
| `Receive`, a `select` over line, end, `done`, context | `Receive`, then `ReceiveLine`, `ReceiveEnd`, `ReceiveGivenUp`, `ReceiveTimesOut` |
| `Disconnect`: under the mutex, then stage by stage | `GiveUp`, `Release`, `GraceOver`, `Reap` |

A frame is its number in the output of its process and a size in units of the
bound, and is written and read in one step, where `readFrame` puts it together
chunk by chunk and may wait in the middle of one: a server that stops there is one
that wrote nothing more, and the partial last line of a server that ends there is
a frame like any other.  `select` over several ready cases is a free choice.

### Correlation

What ClientProtocol leaves out of one exchange over a shared channel: which frame
answers it, and what becomes of a request nobody waits for any more.

| code | model |
|---|---|
| `attempt`, `bounded` | `Send`, `SendFails`, `ContextEnds` |
| `exchangeFrame`, `serveServerFrame` | `ReadReply`, `ReadNullError`, `ReadServerFrame`, `ReadBadFrame`, `ReceiveFails`, `Abandon`; `MayRead` is its check of the context |
| `heard`, `accountedFor`, `repliesToWithdrawn`, `lapseLocked` | `Heard`, `AccountedFor`, `ReadNullError`, `Unlapsed` |
| `withdrawn`: under the mutex, then `notify`, then `account` | `Withdraw`, `Notify`, `Account` |
| `disconnect`: under the mutex, then the transport | `Forget` then `CloseChannel`, in `Fail` and `Close` or in `BeginDisconnect` and `EndDisconnect` |

The server answers each request at most once, in any order, with its id or with an
error that carries none, and speaks on its own.  The variables of the second group
record the truth: which requests were withdrawn and when (`gone`), whose replies
were read (`heardOf`), whether the server kept to the order (`inOrder`), and
whether the client was entitled to lose track (`excused`: an entry lapsed, was
pushed out by the cap or went with its channel).  An exchange that progress keeps
alive is one whose context ends later or never; the pings a client answers leave no
trace in it.

### McpServer, HttpServer

McpServer is the server without its transport: the server keeps nothing between two
messages, so how one is settled is an operator of the message, of its headers and of
what the application's handler did (`Outcomes`).  A JSON-RPC error that a handler
returns is passed on with its own code and data (`WithError`), and with data of a kind
that cannot be encoded neither can the reply.
A message is a record of what its JSON members
hold; a member the code tells apart only by presence or type is `Absent` or
`IllTyped`.

| code | model |
|---|---|
| `InspectMessage`, `isLegacyRequest`, `isLegacyMeta` | `Inspected`, `Legacy`, `LegacyMeta` |
| `ValidateHeaders`, `legacyRequest`, `checkHeader` | `Admission`, `LegacyAdmission`, `HeaderAgrees`, `MirrorsBody` |
| `ParseRequest`, `ParseNotification`, `IsNotificationBytes` | `ParseVerdict`, `IsNotification` |
| `handle`: `validateProtocolMeta`, `validateArguments`, `route`, in this order | `Refusal` over `MetaVerdict`, `ArgumentsVerdict`, `RouteVerdict` |
| the methods | `CallTool`, `GetPrompt`, `ReadResource`, `CompletionComplete`, `Listen`, `Negotiated`, collected by `Answer` |
| `applyResultEnvelope`, `applyCacheHints`, `cacheHintFor` | the operators of those names |
| `statusForResponse`, `replyStatus`, `streamable` | `StatusFor`, `ReplyStatus`, `Streamable` |

HttpServer puts several instances of one deployment behind an endpoint, and others
behind a pipe (`Piped`).  `posts[c]` is the request a client waits on, with the locals
of `Handler` or of `dispatch`:

| code | model |
|---|---|
| `readBody`, `ValidateHeaders`, `inboundSessionID` | `RefuseBody`, `ValidateHeaders`, `InboundSession` |
| the choice between one reply and a stream | `Framing` inside `Refuse`, `Begin` |
| `createContext`, frames a primitive streams | `Begin`, `ReportProgress`, `Acknowledge` |
| `serveStream`, `writeSSEFrame`, `encodeResponse` | `Finish` with `Finished`, `Encodable` |
| `handleInitialize`, `newSessionKey`, `tagSessionID` | `NewSession`, `KeysAtStart`, `Restart` |
| `readLines`, `dispatch`, `setSessionID` | `WriteLine`, `ReadLine`, `FinishedLine`, `retained` |
| `Run` ends | `Restart` of an instance in `Piped` |

Over stdio a process holds the one session an `initialize` opened and handles every
later message under it, those of the discovery revision included; the headers do not
exist, so nothing is checked against them; and a reply that cannot be encoded is
dropped, so that nothing answers the request, which over HTTP can only happen behind a
stream already begun.  That is left to the application: `RepliesAreReadable` holds it
against a request only where its handler is the application's (`Handled`), and what the
server says itself always reaches the client.  `SessionsStayInTheirRevision` and
`RepliesAreReadable` state each of these for a line as they do for a POST.

### Negotiation

One client that settles a connection, from the probe to the initialized
notification, and what its HTTP transport puts on the wire meanwhile.  The peer is
this repository's own server, whose answers are those of McpServer through
`INSTANCE` (`ThisServer`), or another that conforms to what it speaks; it may be
restarted or replaced, and any frame may instead meet one of the failures of
`Interference`: a proxy's page, a timeout, a reset, a JSON-RPC error of something
in between.

| code | model |
|---|---|
| `connectLocked`, `forsake` | `Begin`, `Connect` |
| `handshake`, `negotiatePinned` | `Choose` |
| `probe`, `discover`, `probeAnsweredAsLegacy` | `Discover` with `Discovered`, `ProbeFails`, `AnsweredAsLegacy` |
| `fallback`, `negotiateDown` | `FallBack`, `NegotiateDown`, `InitializeFails` |
| `initialize`, `notify` | `Initialize`, `Announce` |
| `SendWithHeaders`, `applyHeaders`, `captureSessionID`, `reset`, `terminateSession` | `Attempted` over `Frame`, `Verdict`, `Resets`, `After`, `Release` |
| `SettleAuthorization` | `ChangeToken` before a `Begin` |

Over HTTP the connection counts as initialized from the first answer of a status of
success, one that holds a JSON-RPC error included.  `wire` holds the frames of the last step, with the bearer each presents; `told` what
the caller was told.  A step between two frames is part of the action that takes the
answer to the first.

### Authorization, PendingStore

A *flow* is a call that starts from discovery (an authorization begun at the redirect
route, a `Refresh`, a `ClientCredentials`), a *visit* a request to the callback route.
A configuration says whether flows share one `oauth.Client`, which store the routes
have, whether a client is configured, and of what issuer.

| code | model |
|---|---|
| `handleRedirect`, `AuthorizationURL` | `StartAuthorization`, `Discover` or `AcquireToDiscover`, `AskResource`, `AskServer`, `Authorize`, `AcquireToRegister`, `Register`, `Redirect` |
| the gate: taken, waited for, given up on, looked behind again | `AcquireTo...`, `GiveUpWaiting`, `Released`, `FailBehindGate` |
| `resourceMetadata`, `inconclusive` | `AskResource` with `SaysNone`: each location in turn, a failure is not an absence |
| `memoizedDiscovery`, `memoizedRegistration` | `Fresh`, `Usable` |
| `requireConfiguredIssuer`, `requireConfiguredCredentialsBelongTo`, `requireSameIssuer` | the operators of those names, checked before any credential is sent |
| `handleCallback` | `Arrive`, `RemoveFromSession`, `CodeExchanged` |
| `MemoryStore` | `RoomMade`, `Honoured`, `TakeFromMemory` in one step under its mutex |
| `SessionStore` | `GetFromSession`, then `RemoveFromSession` |

A credential (client id, secret, code, refresh token) is a record of the server it
belongs to; a request is what it carries and where it goes.  PendingStore is the
limit and the lifetime of `MemoryStore` as operators on a set of entries.

### ToolSearch, ToolBatch

JSON is its size: `Weight` gives what each part of a report costs, a text its length
in characters, a result the sizes of its items, structured content and metadata.

| code | model |
|---|---|
| `WithToolCatalogLimits`, `finalizeToolCatalog` | `Limits`, `Finalized` |
| `search`, `rank`, `payloads` | `Search`, `Rank`, `Prefix`, `Fitting` |
| `catalogLongestFit`, `catalogClip`, `messageReply` | `LongestFit`, `Clipped`, `HeldTo`, `MessageReply` |
| `Handle` of `execute_tools`, call by call | `Ask`, `Start`, `StopForRoom`, `Finish`, `Abandon` |
| `render`: what is measured, and what is sent | `Measured` over `Placeholder` and `Held`; `Sent` |
| `canReport`, `worstFailure`, `failReply` | the operators of those names |
| `dispatch`, `invoke` | `Invoke`, `EntryFor` |

The code measures a copy with placeholders and adds what was held back; the property
weighs what is sent.  The client (external: the contract of `catalogExecuteReport`)
reads the report, settles what it tells of each call, and asks again for the rest.

### Inspector

A run of `mcp:inspector` and the processes around it, the inspector's and others', in
the command's group or in one of the inspector's own.  Each may start others, exit, and
leave its group with or without a session of its own, between any two steps of a
listing too.

| code | model |
|---|---|
| `inspect` | `WriteConfig`, `Watch`, then after the run `Unwatch`, `Remove`, `EndAsSignalled` |
| `runInspectorProcess` | `Start`, `StartFails`, `Wait`, `KillInspector`, `Judge` |
| `placeInspector`: the group as it is, or one of its own | `Place` |
| `listProcessGroup`: the ids, then process by process | `Begin`, `LookUp`, `ListingFails` |
| `startedProcesses`, `isReaper`: process by process, asked after the listing | `Compare`, `Consider` over `Started` and `IsReaper`, `End` |
| `interruptInspector` | `RelayToInspector`, `RelayLists`, `RelayFails`, `RelayListed`, `RelaySends`, `RelayEnds` |
| `endStartedProcesses` | `EndGroup`, or `RoundLists`, `RoundListed`, `RoundFails`, `RoundKills`, `RoundEnds`, `GiveUp` |

Histories say what the properties need of the past: `ours`, what the run started;
`strangers`, what else it signalled; `adrift`, what lost a process above it to death or
to a session of its own; `missed`, what the last listing of a round need not show, being
below a process that went, or changed groups, while it was made, or that is in a group
but not a session of its own.

The processes are looked up in any order, where the code goes up the ids, as ids say
nothing of who started whom once they wrap.  A process that exits is gone at once (a
zombie has no children left and is passed over), an id is not given out twice, and the
reaper is in another session.  The listing made
before the run is one step: what starts or exits while it is made is, to everything
after it, what started or exited after or before.  The look at the session of a
process the command may not ask about is left out.

## The runs

| run | module | distinct states | shows |
|---|---|---|---|
| `protocol` | ClientProtocol | 1.2 M, HTTP | every answer, cursor and frame belongs to the connection and credential the client says (`ContextsDoNotMix`, `CursorStaysInContext`, `FrameFitsHandshake`, `PinHolds`, `ExecutedAtMostOnce`, `ShownToItsOwner`), and the engine implements `Exchanges`, where an answer names the connection it travelled over (`ImplementsExchanges`) |
| `protocol_progress` | ClientProtocol | 0.07 M, stdio, fair | `EveryCallReturns` |
| `catalogue` | ToolCatalogue | 1.8 M | `MirroredOverItsConnection`, `AnnouncedOutdates`, `ListingOfOneCaller`, `ExcludedShownInItsContext`, `KeptWhileFresh` |
| `stdio` | StdioTransport | 0.3 M, fair | a process has one to stop it (`StoppedOnce`), `ReceivedInOrder`, `ReadersEnd`, `ServersStopped`, `WaitEndsWithAFrame` |
| `end_of_output` | StdioTransport | | finding |
| `correlation` | Correlation | 1.1 M, fair | `AnswerIsItsOwn`, `NoMoreThanOpen`, `HungServerGivenUp`, `ContextEndsExchange` |
| `server` | HttpServer | 4.4 M | what runs is what the headers say (`HeadersDescribeWhatRuns`), a session id is only ever the concern of its revision and of an instance that shares its key (`SessionsStayInTheirRevision`), each reply can be read by the client that asked (`RepliesAreReadable`), a failure is not cached (`FailuresAreNotCached`) |
| `negotiation` | Negotiation | 0.7 M | a failure is never taken for an older server (`FailureIsNotAnEra`), a session stays with its credential and handshake (`SessionsKeptApart`), two peers that share a version settle on one (`SharedVersionIsFound`) |
| `own_post` | Negotiation | | finding |
| `authorization` | Authorization | 1.1 M | `CredentialsStayWithTheirServer`, `CallbackCompletesItsOwnFlow`, `ResourceDecides`, `RecordKeptWhileUsable` |
| `toolbatch` | ToolBatch | 0.2 M | every reply within the limit as it is sent (`HeldToTheLimit`), the counters true (`ReportTellsWhatRan`), a client that resumes from them runs no call again that was not named as omitted (`OnlyOmittedRunsAgain`), a search that returns the best that fits (`SearchGivesTheBest`) |
| `inspector` | Inspector | 2.7 M | of others only what lost a process above it is signalled, and nothing that was there before (`OnlyTheRunsProcesses`); nothing the run started outlives it but what no listing could show (`NothingStartedOutlives`); the result tells a stop from a failure (`ResultTellsTheStop`) |

Every property of a passing run is also checked against a mutation of one
definition (the operators marked *Mutant* in the modules: a dropped guard, a stamp
read too late, a gate that is kept), and fails under it.

**Bounds.**  Most bounds stop the *environment*, never the program, so nothing is
cut off in the middle of an operation.

- *ClientProtocol, ToolCatalogue.*  `MaxGeneration` bounds the handshakes completed
  and `MaxAuthorization` the contexts handed out.  Three handshakes allow a
  connection to be settled, given up and settled again within one exchange of a
  second caller; two contexts allow a credential to change under a standing
  connection.  Two credentials and two callers are enough to mix anything up, as
  every property is about at most two of either.  Two pages make a listing that has
  a middle.  `catalogue` follows, by the constraint `Scenarios` of MCToolCatalogue,
  two callers at once while nothing goes stale, listings are whole, calls are mirrored
  from something and nobody reads the excluded tools; and one caller at a time where
  time passes, a reader asks, and a listing is capped or empty, over a server whose
  tools stay as they are.  The pages of a capped listing go stale together there.
- *StdioTransport.*  A channel of one line, a pipe of one frame and a bound of two
  units are each full with the frames allowed; a frame of size 2 fills the bound and
  one of size 3 goes beyond it; two processes show one being adopted or replaced
  after the other.  `end_of_output` has three frames and a frame of size 1 as well.
- *Correlation.*  Three requests with a cap of two overflow it, a window of one tick
  lapses within the time allowed, and two frames on the way let a reply be overtaken.
- *HttpServer.*  One client is enough, as no property relates two POSTs but through
  the sessions, which it may send anywhere: instances *a* and *b* share a key
  and are symmetric, *c* was given one too short and draws its own, *d* serves lines.  Five draws of a key are
  a start of each instance and one restart of any, two sessions one per key.  The POSTs are, for
  every method and era, a well-formed message, the same with one member deviating,
  and each under the headers its client states and under those with one deviating.
- *Negotiation.*  Three exchanges are one to settle, one to lose what was settled and
  one to use what was remembered; two failures may strike the probe and what follows
  it; two credentials, two sessions and one replacement of the server.  The peers are
  this server (default, and narrowed to a later revision) over HTTP and stdio, and
  others of either era, of both and of none that is shared.
- *Authorization.*  Two flows and two visits suffice for two that meet at a gate or a
  store.  One failure, one change of what the resource declares, and one tick of
  time, which is enough for discovery and a pending authorization to lapse; the
  lifetime of a registration (two ticks) is not reached, so a record is renewed here
  only because its server or client changed.
- *ToolBatch.*  Batches of up to three calls under seven limits, one refusal, one
  repeat of an omitted call and one abandoned request.  `MCWeight` keeps the
  proportions of the real sizes, scaled down so that the limits bite between them.
- *Inspector.*  The command, the inspector and another process of its group, with two
  more to be started by any of them: a line of parents of the run, or one of another's,
  loses its middle.  Two rounds, where the code has more, so that giving up is reached;
  one failed listing; two departures and stops between them, one more process where one
  of them is a stop (`Scenarios` of MCInspector).

Callers, credentials, flows, visits, browsers and started processes are symmetric in
the runs of safety properties; the runs with fairness use no symmetry.

**Fairness.**  `ClientProtocol`: weak fairness of each holder's next step, since
every attempt runs under `bounded` (a timeout or the caller's deadline) and
nothing else in an exchange waits; strong fairness of `Acquire`, since the gate is
a Go channel, whose waiting senders are served in order.  `StdioTransport`: weak
fairness of the reader goroutine, of the stages of `Disconnect` (each has a timer),
and of a `Receive` that has something to return.  Nothing is assumed of the
server, which may hang at any point, nor of the timeout of a `Receive`.
`Correlation`: weak fairness of the exchange's own next step; that its context ends
is the premise of the property, not an assumption.  The other modules state safety
only.  Deadlock checking is off where the system really comes to rest: for
StdioTransport and Correlation, with every process or request used up and every
frame written; for Negotiation, when the exchanges are over; for Authorization, when
every flow and visit is; for ToolBatch, when the plan is done; for Inspector, when
the command has ended.

## The proofs

TLAPS proves the theorems below for every value of the constants that the named
assumptions allow: any number of callers, requests, flows, processes or exchanges,
any bounds, any peers.  Each invariant was a run's invariant first: TLC held it on
the instance of the module's run before it was proved.

| module | theorem | states |
|---|---|---|
| ClientProtocol_proofs | `TypeCorrect` | `[]TypeOK` of the engine |
| | `AnswersNameTheirConnection` | `[]AnswerNamesItsConnection` |
| | `ContextsAreKeptApart` | `[]ContextsDoNotMix` |
| | `CursorsStay` | `[]CursorStaysInContext` |
| | `FramesFit` | `[]FrameFitsHandshake` |
| | `PinsHold` | `[]PinHolds` |
| | `CarriedOutOnce` | `[]ExecutedAtMostOnce` |
| | `ShownToOwners` | `[]ShownToItsOwner` |
| | `EngineKeepsItsPromise` | `ImplementsExchanges`, the refinement of Exchanges |
| ToolCatalogue_proofs | `CatalogueInvariant` | `[]CatalogueInv` |
| | `CallsAreMirrored` | `[]MirroredOverItsConnection` |
| | `ChangesOutdate` | `[]AnnouncedOutdates` |
| | `ListingsAreOneCallers` | `[]ListingOfOneCaller` |
| | `ExclusionsKeepTheirContext` | `[]ExcludedShownInItsContext` |
| | `CallsRestOnTheFresh` | `KeptWhileFresh`, an action property |
| Correlation_proofs | `CorrelationInvariant` | `[]CorrelationInv` |
| | `NoMoreIsPassedOver` | `[]NoMoreThanOpen` |
| | `HungServersAreGivenUp` | `[]HungServerGivenUp` |
| | `AnswersAreTheirOwn` | `AnswerIsItsOwn`, an action property |
| HttpServer_proofs | `EndpointInvariant`, `TypeCorrect` | `[]EndpointInv`, `[]TypeOK` |
| | `HeadersAreTrue` | `[]HeadersDescribeWhatRuns` |
| | `SessionsAreKeptApart` | `[]SessionsStayInTheirRevision` |
| | `RepliesCanBeRead` | `[]RepliesAreReadable` |
| | `FailuresStayPrivate` | `[]FailuresAreNotCached` |
| Negotiation_proofs | `NegotiationInvariant` | `[]NegotiationInv` |
| | `FailuresAreNotAnEra` | `[]FailureIsNotAnEra` |
| | `SessionsAreKeptApart` | `[]SessionsKeptApart` |
| | `SharedVersionsAreFound` | `[]SharedVersionIsFound` |
| Authorization_proofs | `AuthorizationInvariant` | `[]AuthorizationInv` |
| | `CredentialsStay` | `[]CredentialsStayWithTheirServer` |
| | `CallbacksComplete` | `[]CallbackCompletesItsOwnFlow` |
| | `ResourceIsAsked` | `[]ResourceDecides` |
| | `RecordsAreKept` | `RecordKeptWhileUsable`, an action property |
| Inspector_proofs | `InspectorInvariant` | `[]InspectorInv` |
| | `OthersAreLeftAlone` | `[]OnlyTheRunsProcesses` |
| | `NothingIsLeftBehind` | `[]NothingStartedOutlives` |
| | `StopsAreTold` | `[]ResultTellsTheStop` |
| ToolBatch_proofs | `BatchInvariant` | `[]BatchInv` |
| | `RepliesAreHeldToTheLimit` | `[]HeldToTheLimit` |
| | `ReportsTellWhatRan` | `[]ReportTellsWhatRan` |
| | `NothingElseRunsAgain` | `[]OnlyOmittedRunsAgain` |
| | `SearchesGiveTheBest` | `[]SearchGivesTheBest` |

**ClientProtocol.**  Assumed (`CallersAssumption`, `CredentialsAssumption`,
`TransportAssumption`, `BoundsAssumption` and those of the versions): the "none"
values lie outside the sets they mark the absence of, and the bounds are numbers.
`TypeOK` is not inductive: the count of handshakes could outgrow its bound unless
it is that of the server's (`Counted`), the number of contexts could unless a
credential not yet settled leaves room for one more (`Budget`), and an idle gate
must leave no turn behind (`GateFree`).  `TypeInv` adds these three.  The safety
properties follow from one inductive invariant, `SafeInv`:

- `EngineInv`, what the holder of the gate knows.  Every record of a context is
  *dated* (`Dated`, `Recorded`): it claims no later context than the current one,
  and the current one only with the current credential, which is what survives a
  credential changing again and again.  The connection in hand is the one the
  server settled last (`Standing`); what is presented from the handshake on is
  the context just settled (`Presented`); a frame in flight carries both
  (`OnTheWire`); and a request carried out was carried out in the attempt now in
  flight (`Once`).
- `AnswerInv`, what is true of every answer ever given: it is dated, its stamp is
  the handshake it was settled by, and an answer over the last connection is of
  its context.  Only so can two answers be compared (`ContextsDoNotMix`).
- `CursorInv`: while a request that insists on a context is committed to the wire
  (`Committed`: being sent, awaited, or renegotiated to be sent again), the
  credential settled is the one its answer was given under.

`Disconnect`, the token callback, the readers and time leave all of this alone
(`EngineKept`, `AnswersKept`); each early return goes through `EngineReturned`.
The same invariant carries the refinement: each step of the engine, by any of these
actors, is mapped to the step of Exchanges it performs or to a stutter.

**ToolCatalogue.**  Assumed besides (`CatalogueAssumption`): a listing has a page, and
the bounds are numbers.  Two memories that the client does not keep carry the
argument.  A generation names one link, the last or an older one (`Settled`), so what
the catalogue keeps under its generation was stated over that link
(`CatalogueHeld`); and the number of a context names one credential, through the
function `owner`, which exists although no variable holds it (`ContextsHeld`).
`WorkHeld` says of every call and listing in progress that what it read is of one
context, and recent while the count of changes it read is.  That a
call rests on the fresh (`KeptWhileFresh`) is a fact of each step that sends one, under
the same invariant (`SentFresh`).

**Correlation.**  Assumed (`BoundsAssumption`): the bounds are numbers, with room for one
request, channel, frame and entry.  Once the server has answered request *h* in order,
nothing up to *h* is still on the way; so what the client holds of those requests is
each an error it passed over in the wrong request's name, in exchange for an entry of
a request that is still to be answered.  `Balanced` counts the two, which is what
`NoMoreThanOpen` needs and neither implies.  `Due` says which requests will be
answered and that each withdrawn one has its entry while nothing lapsed; it is why an
error without an id can be given to the request in flight (`AnswerIsItsOwn`).
`Mute` counts the silent timeouts of a connection.

**HttpServer.**  Assumed (`EndpointAssumption`, `KeysAssumption`): what a client posts is
a message under headers, finitely many clients and instances, a draw for each instance
at its start; a key drawn is none that was supplied.  `EndpointInv` holds of each
instance that its key is its own (`KeysHeld`), of the sessions that they and those a
running initialize may still open stay within the bound (`SessionsHeld`), and of each
POST that its stage says which checks it passed (`Standing`), its session is vouched
for by the key its instance holds *now* (`Vouched`), and a reply is what may be read
(`Settled`).  A restart may draw another
key, and ends what ran there, and with it what would name the old one.

**Negotiation.**  Assumed: a stand-in is nothing a frame states (`StandInsAssumption`);
a pin the client does not support is refused before any of this, which is
ClientProtocol's `UnknownVersion` (`PinsAssumption`); and the peers conform
(`PeersAssumption`): the revisions served request by request and those initialized in
are different ones, and this server initializes in all of its own.  The last clause of
it is about *other* servers.  One that is offered a version it does not know answers
with one of its own, and the client takes no second, so a server that initializes in
2025-06-18 and in a revision the client does not speak may answer with the latter and
the two part although they share a version.  What a peer and the client share is
therefore the client's newest, all the peer has, or nothing.  `NegotiationInv` says why
each version is being tried and what of the peer that tells (`Offered`: without a
failure a fallback means a server without discovery); that a handshake starts under no
session of another (`SessionsHeld`); what a connection stands on (`Standing`); and that
until a failure is met, a process is gone only where the fallback is about to find out
(`Blameless`).  What the peer may answer is summed up once, in `Honest`, for this
server through the operators of McpServer and for the others.

**Authorization.**  Assumed (`AuthorizationAssumption`, `SettingAssumption`): lifetimes and
capacities are positive, the flows finite, and configurations and offers are records
of what they say.  `AuthorizationInv` keeps of each flow the servers it may turn to
(`Trusted`, `GoodFlow`), that it is behind its client's gate where it says it is
(`GatesHeld`), of every cookie and stored entry whose browser it is and what it
promises (`CookiesHeld`, `PendingHeld`), of each visit what the callback was sent and
what it took (`VisitsHeld`), and, over `MemoryStore`, that this was taken once
(`TakenOnce`).

**Inspector.**  Assumed (`ProcessesAssumption`, `RunAssumption`): the named processes are
different ones and there are more rounds than failed listings.  A line of parents is
never followed in the proof: it is enough that every set of processes has a member whose
parent is outside it (`Grounded`), which starting and dying keep.  What others started and
is not adrift has a parent of the same kind in the command's session (`Others`), and a
listing shows that parent, at whatever moment it looks (`Seen`); a line that came to the
command or to a reaper would be a set without a ground, so none of it is picked.  A round
is to find what the run has alive but for `missed` (`Due`): what of it was looked up is
shown under the parent it still has, what the listing passed over descends from
something in it, and once all is judged it is picked (`Round`).  So when nothing was
picked nothing is due (`NothingDue`), for the set of what is due would have no ground
either.

**ToolBatch.**  Assumed (`TextsAssumption`, `OutcomesAssumption`, `InputsAssumption`):
what is registered, asked for and returned has sizes and names; and, of the numbers of
the code, that the floor of a reply leaves room for the smallest report of a failure
(`FloorAssumption`, which is what `minCatalogMaxOutputBytes` is for), for a message
and for a search with nothing in it (`WeightAssumption`).  Weights, limits, results and
plans are otherwise any.

The sums of sizes are recursive functions.  That one exists for every length is not by
induction but by a least counterexample (`LeastNumber`, from the well-foundedness of
the naturals; `PartialSumsExist`), and what is said of a sum, such as that the copy
with placeholders and what was held back weigh what is sent (`MeasuredIsWeighed`), is
said of its partial sums in the same way (`SumSplits`).

None of the three properties of a batch is inductive.  `BatchInv` adds what they rest
on: that the report held while a batch is under way is the one of exactly the results
carried, and fits (`UnderWay`); that while a call runs its failure can still be
reported, which is what makes dropping its result safe; that a batch is the front of
the client's list (`CallsHeld`); and, of every call, how often it ran, told from how
often it was named as omitted and whether it is outstanding in the request
(`Accounted`), which survives every way a client goes on.

A search is a separate argument, over the same invariant (`FoundHeld`).  `Ranking`
shows that placing each entry by the number of those before it makes a sequence of
all of them, since the places are an injection of a finite set into one of its own size;
`LowerBound` that the definitions alone never cost more than the reply, so the cut by that
lower bound drops nothing that fits (`SearchIs`); and `FirstAreBest` that a prefix of the
ranking is what the property asks for.

**Model-checked only.**

- Liveness (`EveryCallReturns`, `ReadersEnd`, `ServersStopped`, `WaitEndsWithAFrame`,
  `ContextEndsExchange`), which needs fairness, out of the prover's reach.
- `ReceivedInOrder` of StdioTransport, with that module's other properties.
- What the recursive functions compute, beyond what the proofs need of them: that
  `LongestFit` is the *greatest* length that fits was not needed, since `HeldTo` looks
  once more at what it found.

## Findings

Two statements of the sources that the code does not keep, each the counterexample
of a run:

- **`end_of_output`** (`EndIsNoticed`). A `Receive` that takes the end of the output from `select`
  while a line is ready returns the line and drops the end, of which there is only
  one; the next `Receive` waits out its timeout over a process that ended
  (`client/transport_stdio.go:328`).
- **`own_post`** (`ReplyOnItsOwnPost`). A JSON-RPC error that refuses `notifications/initialized` over HTTP
  is queued like a reply and reported as sent; the next request takes it for its own
  answer, although "the reply to a request arrives on the response to the POST that
  carried it, and on no other" (`client/transport_http.go:456`).

Further statements stand in the modules as definitions that TLC refutes when they
are put in place of the properties of their module's run:

- **`ConnectsOnDemand`** (ClientProtocol).  `protocol.disconnect` clears `connected`
  under its mutex and tears the transport down afterwards, without the exchange
  gate.  A handshake that settles in between sets it again; the teardown leaves an
  engine that believes in a subprocess that was stopped, and the next request fails
  instead of connecting on demand (`client/client.go:269`).
- **`ExcludedShownToItsAsker`** (ToolCatalogue).  `ExcludedTools` compares a context
  number of a credential that may never have been settled; that number is given to
  whichever credential is settled next, whose refused names are then shown
  (`client/client.go:357`).
- **`CallFollowsAnnouncement`** (ToolCatalogue).  A change announced while `CallTool`
  reads its own definition keeps that listing out of the catalogue, and yet the call
  is mirrored from it (`client/client.go:98`).
- **`KeptForThisChannel`** (Correlation).  `withdrawn` checks under the mutex that
  the connection stands, sends the cancellation, and then records the request.  A
  `Disconnect` in between has cleared the records; the late one survives into the
  next channel, and an error without an id arriving there within the window is passed
  over instead of answering the request in flight (`client/protocol.go:77`).
- **`NothingLeftInTheGroup`** (Inspector).  The group is listed process by process, and
  the first listing that picks nothing is the last.  A process started after the ids were
  read, by one that exits before it is looked up, is in no listing, nor does anything in
  the listing lead to it; the same comes of a parent that exits after its child was
  looked up, as a process that is gone is no reaper.  It outlives the command, although
  "nothing the command started outlives it" (`console/inspector_process_unix.go:285`).
  `NothingStartedOutlives`, which is checked and proved, leaves out by name what a
  listing need not show (`missed`).
- **`DescendantsLeftAlone`** (Inspector).  A process that was in the group before the
  inspector starts another and then takes a session of its own.  The line of parents ends
  at it, it is not in the command's session, and so it counts as a reaper: the other is
  taken for an orphan of the run and killed, although "neither is anything descended from
  such a process" one of those (`console/inspector_process_unix.go:174`).
  `OnlyTheRunsProcesses` says what does hold of others: only what is adrift is signalled.

Noticed while reading, without a property: a lookup of the manager that builds from
an old factory records its client after `Register` discarded the previous one
(`client/manager.go:66`).

## What is not modelled

- **Client manager and web client:** one map under one mutex in three critical
  sections; the race above is listed as a hazard.
- **Server OAuth (`server/oauth/`):** handlers that validate one registration or
  render one challenge; the storage is the application's.
- **Argument paths, URI templates, schemas, mirrored parameters, results, content,
  JSON-RPC encodings, events:** conversions without state.  What a definition
  mirrors is abstracted to who stated it and when; whether an argument is well formed
  to one member of a message.
- **The request a primitive is handed (`server/request.go`):** typed access to
  arguments; what a primitive may do with it is the set of its outcomes.
- **Reading of an event stream, redirects, canonical headers, limits on bodies,
  URL validation, PKCE, the wording of errors.**
- **The arguments, the environment and the guidance of the inspector; the other
  console commands:** parsing and file templates.  Windows has no process group to
  follow.
- **Test harness and application module:** assertions and registration.

## Plan

Left to do, in this order:

1. **Theorems** of StdioTransport: `StoppedOnce`, then `HeldWithinBound`, `EndReportedLast`
   and `BrokenNotReused`, which are stated there for this and hold in TLC as invariants
   of the `stdio` run, and `ReceivedInOrder`.
2. **Manager**: a lookup that builds a client racing a registration or
   `DisconnectAll`.
3. The stream of one HTTP reply frame by frame on the client's side, which would join
   `Correlation` to `HttpServer`.
