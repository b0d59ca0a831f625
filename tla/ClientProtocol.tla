--------------------------- MODULE ClientProtocol ---------------------------
(***************************************************************************)
(* The client's protocol engine: client/protocol.go, with the handshake of *)
(* client/negotiation.go as one step that succeeds or fails (module        *)
(* Negotiation takes it apart) and the transport reduced to what the       *)
(* engine relies on.                                                       *)
(*                                                                         *)
(* Every exchange holds a one-slot gate from the settling of its           *)
(* credential to its answer.  Three things happen without the gate: the    *)
(* token callback resolves to another credential, Disconnect tears the     *)
(* transport down, and a reader asks for the result the connection was     *)
(* settled with.  Steps of the gate's holder that nothing else can observe *)
(* apart are one action.                                                   *)
(*                                                                         *)
(* peer, frame and the cred fields are not the client's: they record what  *)
(* truly happened on the wire, for the properties to compare with what the *)
(* client believes.                                                        *)
(***************************************************************************)
EXTENDS Naturals

CONSTANTS
    Callers,            \* goroutines making requests
    Closers,            \* goroutines calling Disconnect
    Readers,            \* goroutines reading the settled handshake result
    Operations,         \* subset of {"request", "connect", "advertised", "pin"}
    Credentials,        \* values the token callback may resolve to
    Versions,           \* protocol versions both sides may settle on
    DiscoveryVersions,  \* those of the discovery era
    Pins,               \* what WithProtocolVersion may be called with
    Transport,          \* "http" or "stdio"
    NoCaller, NoCredential, NoVersion, UnknownVersion,
    MaxGeneration,      \* bound: handshakes completed
    MaxAuthorization    \* bound: authorization contexts handed out

ASSUME CallersAssumption == NoCaller \notin Callers
ASSUME CredentialsAssumption == NoCredential \notin Credentials
ASSUME VersionsAssumption ==
    /\ DiscoveryVersions \subseteq Versions
    /\ NoVersion \notin Versions
    /\ UnknownVersion \notin Versions
    /\ NoVersion # UnknownVersion
ASSUME PinsAssumption == Pins \subseteq Versions \cup {NoVersion, UnknownVersion}
ASSUME OperationsAssumption ==
    Operations \subseteq {"request", "connect", "advertised", "pin"}
ASSUME TransportAssumption == Transport \in {"http", "stdio"}
ASSUME BoundsAssumption == MaxGeneration \in Nat /\ MaxAuthorization \in Nat \ {0}

VARIABLES
    gate,           \* who holds the exchange gate
    pc,             \* each caller: "idle", "queued" for the gate, "held"
    op,             \* the operation each caller is making
    insisting,      \* whether its terms name the context of its last answer
    answer,         \* what each caller's last exchange brought back, if anything
    turn,           \* the locals of the exchange in progress
    connected,      \* protocol.connected
    conn,           \* protocol.conn
    generation,     \* protocol.generation
    pinned,         \* protocol.pinned, UnknownVersion standing for a pinErr
    cred,           \* what the token callback would resolve now
    bearer,         \* HTTPTransport.bearer, NoCredential until one is settled
    authorization,  \* HTTPTransport.authorization
    chan,           \* the subprocess runs (stdio), a session is held (http)
    closing,        \* Disconnect calls between their two steps
    seen,           \* the connection each reader of presentable read
    peer,           \* what the server's side of the last handshake settled
    frame           \* the request frame in flight

engineVars    == <<connected, conn, generation, pinned>>
transportVars == <<bearer, authorization, chan>>
callerVars    == <<gate, pc, op, insisting, answer, turn>>
wireVars      == <<peer, frame>>
vars == <<callerVars, engineVars, transportVars, wireVars, cred, closing, seen>>

Steps == {"none", "standing", "handshake", "settled", "confirmed", "send", "await", "pin"}

Connection ==
    [version       : Versions \cup {NoVersion},
     authorization : 0..MaxAuthorization,
     cred          : Credentials \cup {NoCredential},
     stated        : BOOLEAN,   \* holds the result of its handshake
     fresh         : BOOLEAN]   \* which has not outlived its lifetime

\* protocol.conn being nil.
NoConnection == [version |-> NoVersion, authorization |-> 0, cred |-> NoCredential,
                 stated |-> FALSE, fresh |-> FALSE]

Peer == [generation    : 0..MaxGeneration,
         version       : Versions \cup {NoVersion},
         authorization : 0..MaxAuthorization,
         cred          : Credentials \cup {NoCredential}]

NoPeer == [generation |-> 0, version |-> NoVersion, authorization |-> 0,
           cred |-> NoCredential]

Frame == [version  : Versions \cup {NoVersion},
          cred     : Credentials \cup {NoCredential},
          executed : BOOLEAN]

NoFrame == [version |-> NoVersion, cred |-> NoCredential, executed |-> FALSE]

Answer == [generation    : 0..MaxGeneration,
           authorization : 0..MaxAuthorization,
           settledBy     : 0..MaxGeneration,
           cred          : Credentials \cup {NoCredential}]

NoAnswer == [generation |-> 0, authorization |-> 0, settledBy |-> 0,
             cred |-> NoCredential]

Turn == [step          : Steps,
         after         : {"first", "stale", "refused"},
         attempt       : 1..3,
         refused       : Versions \cup {NoVersion},
         began         : 0..MaxGeneration,
         authorization : 0..MaxAuthorization,
         executed      : Nat]

NoTurn == [step |-> "none", after |-> "first", attempt |-> 1, refused |-> NoVersion,
           began |-> 0, authorization |-> 0, executed |-> 0]

Init ==
    /\ gate = NoCaller
    /\ pc = [c \in Callers |-> "idle"]
    /\ op = [c \in Callers |-> "none"]
    /\ insisting = [c \in Callers |-> FALSE]
    /\ answer = [c \in Callers |-> NoAnswer]
    /\ turn = NoTurn
    /\ connected = FALSE
    /\ conn = NoConnection
    /\ generation = 0
    /\ pinned = NoVersion
    /\ cred \in Credentials
    /\ bearer = NoCredential
    /\ authorization = 0
    /\ chan = "closed"
    /\ closing = {}
    /\ seen = [r \in Readers |-> NoConnection]
    /\ peer = NoPeer
    /\ frame = NoFrame

-----------------------------------------------------------------------------
(* The gate.                                                                *)

\* A caller starts an operation.  A request may carry what its last answer
\* handed out, as the next page of a listing does, and then names the context
\* it was handed out in.
Ask(c) ==
    /\ pc[c] = "idle"
    /\ \E o \in Operations, i \in BOOLEAN :
          /\ i => o = "request" /\ answer[c] # NoAnswer
          /\ op' = [op EXCEPT ![c] = o]
          /\ insisting' = [insisting EXCEPT ![c] = i]
    /\ pc' = [pc EXCEPT ![c] = "queued"]
    /\ UNCHANGED <<gate, answer, turn, engineVars, transportVars, seen,
                   wireVars, cred, closing>>

\* Its context is done before the gate is free.  Pinning waits without one.
GiveUp(c) ==
    /\ pc[c] = "queued"
    /\ op[c] # "pin"
    /\ pc' = [pc EXCEPT ![c] = "idle"]
    /\ op' = [op EXCEPT ![c] = "none"]
    /\ insisting' = [insisting EXCEPT ![c] = FALSE]
    /\ UNCHANGED <<gate, answer, turn, engineVars, transportVars,
                   seen, wireVars, cred, closing>>

Acquire(c) ==
    /\ pc[c] = "queued"
    /\ gate = NoCaller
    /\ gate' = c
    /\ pc' = [pc EXCEPT ![c] = "held"]
    /\ turn' = [NoTurn EXCEPT !.step = IF op[c] = "pin" THEN "pin" ELSE "standing",
                              !.began = IF op[c] = "advertised" THEN generation ELSE 0]
    /\ UNCHANGED <<op, insisting, answer, engineVars, transportVars, seen,
                   wireVars, cred, closing>>

Holds(c, step) == gate = c /\ turn.step = step

\* The exchange lets go of the gate with a, read while it was held.
Return(c, a) ==
    /\ gate' = NoCaller
    /\ pc' = [pc EXCEPT ![c] = "idle"]
    /\ turn' = NoTurn
    /\ frame' = NoFrame
    /\ answer' = [answer EXCEPT ![c] = a]
    /\ op' = [op EXCEPT ![c] = "none"]
    /\ insisting' = [insisting EXCEPT ![c] = FALSE]

ReturnError(c) == Return(c, NoAnswer)

GoOn(step) == turn' = [turn EXCEPT !.step = step]

\* answered, foundConnection: what a successful exchange reports.
Answered == [generation    |-> generation,
             authorization |-> conn.authorization,
             settledBy     |-> peer.generation,
             cred          |-> IF frame = NoFrame THEN bearer ELSE frame.cred]

-----------------------------------------------------------------------------
(* The credential.                                                          *)

\* The token callback starts resolving to another credential.
ChangeCredential(k) ==
    /\ authorization < MaxAuthorization
    /\ k # cred
    /\ cred' = k
    /\ UNCHANGED <<callerVars, engineVars, transportVars, seen, wireVars, closing>>

\* Mutant: a changed credential keeps the number of the one before.
OneContextForAll ==
    IF Transport = "stdio" \/ bearer # NoCredential THEN authorization ELSE authorization + 1

\* The number SettleAuthorization would return, settling nothing.
AuthorizationContext ==
    IF Transport = "stdio" \/ bearer = cred THEN authorization ELSE authorization + 1

SettleAuthorization ==
    /\ authorization' = AuthorizationContext
    /\ bearer' = IF Transport = "stdio" THEN bearer ELSE cred

-----------------------------------------------------------------------------
(* connectLocked, settle, standingConnection, advertised, renegotiated.     *)

\* Mutant: whatever stands is used, whoever it was settled for.
NeverForsaken == FALSE

\* The connection belongs to another context than the one now presented.
Forsaken ==
    /\ conn.version # NoVersion
    /\ conn.authorization # AuthorizationContext

Remembered == [NoConnection EXCEPT !.version = conn.version,
                                   !.authorization = conn.authorization,
                                   !.cred = conn.cred]

Authorized ==
    /\ SettleAuthorization
    /\ conn' = IF Forsaken THEN Remembered ELSE conn

\* The connection that stands is this caller's.
KeepConnection(c) ==
    /\ Holds(c, "standing")
    /\ Authorized
    /\ connected /\ ~Forsaken
    /\ GoOn("confirmed")
    /\ UNCHANGED <<gate, pc, op, insisting, answer, connected, generation, pinned,
                   chan, seen, wireVars, cred, closing>>

\* None stands, or the one that does is given up, and the channel is opened.
OpenConnection(c) ==
    /\ Holds(c, "standing")
    /\ Authorized
    /\ ~connected \/ Forsaken
    /\ pinned # UnknownVersion
    /\ connected' = FALSE
    /\ chan' = IF Transport = "stdio" THEN "open" ELSE "closed"
    /\ turn' = [turn EXCEPT !.step = "handshake", !.after = "first",
                            !.authorization = AuthorizationContext]
    /\ UNCHANGED <<gate, pc, op, insisting, answer, generation, pinned,
                   seen, wireVars, cred, closing>>

\* The pin is one this client does not speak, or the subprocess does not start.
CannotConnect(c) ==
    /\ Holds(c, "standing")
    /\ Authorized
    /\ ~connected \/ Forsaken
    /\ pinned = UnknownVersion \/ Transport = "stdio"
    /\ connected' = FALSE
    /\ chan' = IF connected THEN "closed" ELSE chan
    /\ ReturnError(c)
    /\ UNCHANGED <<generation, pinned, seen, peer, cred, closing>>

\* Mutant: the connection is filed under the credential resolved by the time
\* its handshake is over.
ContextAfterHandshake == AuthorizationContext

\* The context the connection is filed under: the one its frames presented.
ContextOfHandshake == turn.authorization

\* The handshake completes at v.  Over HTTP only the initialize era opens a
\* session; over stdio the frames went through a running subprocess.
HandshakeSucceeds(c, v) ==
    /\ Holds(c, "handshake")
    /\ pinned # NoVersion => v = pinned
    /\ peer.generation < MaxGeneration
    /\ conn' = [version |-> v, authorization |-> ContextOfHandshake, cred |-> bearer,
                stated |-> TRUE, fresh |-> TRUE]
    /\ peer' = [generation |-> peer.generation + 1, version |-> v,
                authorization |-> authorization, cred |-> bearer]
    /\ chan' = IF Transport = "http" /\ v \in DiscoveryVersions THEN "closed" ELSE "open"
    /\ GoOn("settled")
    /\ UNCHANGED <<gate, pc, op, insisting, answer, connected, generation, pinned,
                   bearer, authorization, seen, frame, cred, closing>>

\* The handshake fails and the transport is torn down.  A remembered handshake
\* that no longer works has been forgotten by then.
HandshakeFails(c) ==
    /\ Holds(c, "handshake")
    /\ \/ conn' = conn
       \/ /\ pinned = NoVersion
          /\ conn.version \in Versions \ DiscoveryVersions
          /\ conn' = NoConnection
    /\ connected' = FALSE
    /\ chan' = "closed"
    /\ ReturnError(c)
    /\ UNCHANGED <<generation, pinned, bearer, authorization, seen, peer,
                   cred, closing>>

CountOfHandshakes == generation + 1

\* settle counts the connection, and the exchange goes on: to the check of its
\* terms, back to the caller of advertised, or to the repeat of the request.
Settled(c) ==
    /\ Holds(c, "settled")
    /\ connected' = TRUE
    /\ generation' = CountOfHandshakes
    /\ \/ /\ turn.after = "first"
          /\ GoOn("confirmed")
          /\ UNCHANGED <<gate, pc, op, insisting, answer, frame>>
       \/ /\ turn.after = "stale"
          /\ Return(c, [Answered EXCEPT !.generation = generation'])
       \/ /\ turn.after = "refused"
          /\ conn.version # turn.refused
          /\ GoOn("send")
          /\ UNCHANGED <<gate, pc, op, insisting, answer, frame>>
       \/ /\ turn.after = "refused"
          /\ conn.version = turn.refused
          /\ ReturnError(c)
    /\ UNCHANGED <<conn, pinned, transportVars, seen, peer, cred, closing>>

\* The exchange is refused before it is sent: its terms name another context.
Refuse(c) ==
    /\ Holds(c, "confirmed")
    /\ op[c] = "request" /\ insisting[c]
    /\ answer[c].authorization # 0
    /\ conn.authorization # answer[c].authorization
    /\ ReturnError(c)
    /\ UNCHANGED <<engineVars, transportVars, seen, peer, cred, closing>>

\* Mutant: the terms are not consulted.
AcceptAny(c) ==
    /\ Holds(c, "confirmed")
    /\ op[c] = "request"
    /\ GoOn("send")
    /\ UNCHANGED <<gate, pc, op, insisting, answer, engineVars, transportVars,
                   seen, wireVars, cred, closing>>

Accept(c) ==
    /\ Holds(c, "confirmed")
    /\ op[c] = "request"
    /\ insisting[c] => answer[c].authorization \in {0, conn.authorization}
    /\ GoOn("send")
    /\ UNCHANGED <<gate, pc, op, insisting, answer, engineVars, transportVars,
                   seen, wireVars, cred, closing>>

\* A discover result that ran out is read again, unless this call settled it.
Outlived == conn.version \in DiscoveryVersions /\ conn.stated /\ ~conn.fresh

\* Connect, ProtocolVersion, and Capabilities of a connection still fresh.
Found(c) ==
    /\ Holds(c, "confirmed")
    /\ \/ op[c] = "connect"
       \/ op[c] = "advertised" /\ (Outlived => generation # turn.began)
    /\ Return(c, Answered)
    /\ UNCHANGED <<engineVars, transportVars, seen, peer, cred, closing>>

ReadAgain(c) ==
    /\ Holds(c, "confirmed")
    /\ op[c] = "advertised"
    /\ Outlived /\ generation = turn.began
    /\ connected' = FALSE
    /\ turn' = [turn EXCEPT !.step = "handshake", !.after = "stale",
                            !.authorization = conn.authorization]
    /\ UNCHANGED <<gate, pc, op, insisting, answer, conn, generation, pinned,
                   transportVars, seen, wireVars, cred, closing>>

-----------------------------------------------------------------------------
(* attempt, and what exchangeFor makes of its outcome.                      *)

Send(c) ==
    /\ Holds(c, "send")
    /\ Transport = "stdio" => chan = "open"
    /\ frame' = [version |-> conn.version, cred |-> bearer, executed |-> FALSE]
    /\ GoOn("await")
    /\ UNCHANGED <<gate, pc, op, insisting, answer, engineVars, transportVars,
                   seen, peer, cred, closing>>

\* The server carries the request out; its answer may still be lost.
Execute(c) ==
    /\ Holds(c, "await")
    /\ ~frame.executed
    /\ frame' = [frame EXCEPT !.executed = TRUE]
    /\ turn' = [turn EXCEPT !.executed = @ + 1]
    /\ UNCHANGED <<gate, pc, op, insisting, answer, engineVars, transportVars,
                   seen, peer, cred, closing>>

Succeed(c) ==
    /\ Holds(c, "await")
    /\ frame.executed
    /\ Transport = "stdio" => chan = "open"
    /\ Return(c, Answered)
    /\ UNCHANGED <<engineVars, transportVars, seen, peer, cred, closing>>

\* The server answers with an error, the request is withdrawn, or it cannot be
\* encoded or its headers rendered and is never sent: the connection stands.
EndStanding(c) ==
    /\ Holds(c, "send") \/ Holds(c, "await")
    /\ ReturnError(c)
    /\ UNCHANGED <<engineVars, transportVars, seen, peer, cred, closing>>

\* Mutant: a request whose channel failed is simply made again.
RetryOnFailure(c) ==
    /\ Holds(c, "send") \/ Holds(c, "await")
    /\ connected' = FALSE
    /\ chan' = "closed"
    /\ GoOn("standing")
    /\ frame' = NoFrame
    /\ UNCHANGED <<gate, pc, op, insisting, answer, conn, generation, pinned, bearer,
                   authorization, seen, peer, cred, closing>>

\* Mutant: the gate is kept on the way out of a failed exchange.
FailHoldingGate(c) ==
    /\ Holds(c, "send") \/ Holds(c, "await")
    /\ connected' = FALSE
    /\ chan' = "closed"
    /\ pc' = [pc EXCEPT ![c] = "idle"]
    /\ turn' = NoTurn
    /\ frame' = NoFrame
    /\ UNCHANGED <<gate, op, insisting, answer, conn, generation, pinned, bearer,
                   authorization, seen, peer, cred, closing>>

\* The channel itself fails, taking the connection with it.
ChannelFails(c) ==
    /\ Holds(c, "send") \/ Holds(c, "await")
    /\ connected' = FALSE
    /\ chan' \in IF connected THEN {"closed"} ELSE {chan, "closed"}
    /\ ReturnError(c)
    /\ UNCHANGED <<conn, generation, pinned, bearer, authorization, seen, peer,
                   cred, closing>>

\* The server no longer knows the session: the request was not carried out, so
\* it is made once more over a connection settled afresh.
Expire(c) ==
    /\ Holds(c, "await")
    /\ Transport = "http" /\ chan = "open"
    /\ ~frame.executed
    /\ connected' = FALSE
    /\ chan' = "closed"
    /\ \/ /\ turn.attempt = 1
          /\ turn' = [turn EXCEPT !.step = "standing", !.attempt = 2]
          /\ frame' = NoFrame
          /\ UNCHANGED <<gate, pc, op, insisting, answer>>
       \/ /\ turn.attempt > 1
          /\ ReturnError(c)
    /\ UNCHANGED <<conn, generation, pinned, bearer, authorization, seen, peer,
                   cred, closing>>

\* The server refuses the version the connection was settled on.
RefuseVersion(c) ==
    /\ Holds(c, "await")
    /\ ~frame.executed
    /\ turn.attempt < 3
    /\ pinned = NoVersion
    /\ connected' = FALSE
    /\ conn' = NoConnection
    /\ turn' = [turn EXCEPT !.step = "handshake", !.after = "refused", !.attempt = 3,
                            !.refused = conn.version,
                            !.authorization = conn.authorization]
    /\ frame' = NoFrame
    /\ UNCHANGED <<gate, pc, op, insisting, answer, generation, pinned, transportVars,
                   seen, peer, cred, closing>>

-----------------------------------------------------------------------------
(* pinProtocolVersion, Disconnect, presentable, and time.                   *)

\* Mutant: pinning leaves the connection that stands.
PinOnly(c) ==
    /\ Holds(c, "pin")
    /\ pinned' \in Pins
    /\ ReturnError(c)
    /\ UNCHANGED <<conn, connected, chan, generation, bearer, authorization, seen,
                   peer, cred, closing>>

Pin(c) ==
    /\ Holds(c, "pin")
    /\ pinned' \in Pins
    /\ conn' = NoConnection
    /\ connected' = FALSE
    /\ chan' = IF connected THEN "closed" ELSE chan
    /\ ReturnError(c)
    /\ UNCHANGED <<generation, bearer, authorization, seen, peer, cred, closing>>

\* Client.Disconnect takes no gate: it marks the engine under its mutex, and
\* tears the transport down after letting go of it.
BeginDisconnect(d) ==
    /\ d \notin closing
    /\ closing' = closing \cup {d}
    /\ connected' = FALSE
    /\ UNCHANGED <<callerVars, conn, generation, pinned, transportVars, seen,
                   wireVars, cred>>

EndDisconnect(d) ==
    /\ d \in closing
    /\ closing' = closing \ {d}
    /\ chan' = "closed"
    /\ UNCHANGED <<callerVars, engineVars, bearer, authorization, seen,
                   wireVars, cred>>

\* The lifetime the server gave its discover result runs out.
Outlive ==
    /\ conn.version \in DiscoveryVersions
    /\ conn.fresh
    /\ conn' = [conn EXCEPT !.fresh = FALSE]
    /\ UNCHANGED <<callerVars, connected, generation, pinned, transportVars, seen,
                   wireVars, cred, closing>>

\* DiscoverResult and InitializeResult: the connection is read under the mutex,
\* and the credential presented now is resolved after it, in a step of its own.
PeekConnection(r) ==
    /\ seen[r] = NoConnection
    /\ conn.stated
    /\ seen' = [seen EXCEPT ![r] = conn]
    /\ UNCHANGED <<callerVars, engineVars, transportVars, wireVars, cred, closing>>

\* Mutant: whatever was read is shown.
PresentableToAll(r) == seen[r].stated

Presentable(r) == seen[r].stated /\ seen[r].authorization = AuthorizationContext

\* The reader is shown what it read, if it is presentable, and nothing otherwise.
PeekCredential(r) ==
    /\ seen[r] # NoConnection
    /\ seen' = [seen EXCEPT ![r] = NoConnection]
    /\ UNCHANGED <<callerVars, engineVars, transportVars, wireVars, cred, closing>>

Exchange(c) ==
    \/ KeepConnection(c) \/ OpenConnection(c) \/ CannotConnect(c)
    \/ (\E v \in Versions : HandshakeSucceeds(c, v)) \/ HandshakeFails(c) \/ Settled(c)
    \/ Refuse(c) \/ Accept(c) \/ Found(c) \/ ReadAgain(c)
    \/ Send(c) \/ Execute(c) \/ Succeed(c) \/ EndStanding(c) \/ ChannelFails(c)
    \/ Expire(c) \/ RefuseVersion(c) \/ Pin(c)

Environment ==
    \/ \E k \in Credentials : ChangeCredential(k)
    \/ \E d \in Closers : BeginDisconnect(d) \/ EndDisconnect(d)
    \/ \E r \in Readers : PeekConnection(r) \/ PeekCredential(r)
    \/ Outlive

Next ==
    \/ \E c \in Callers : Ask(c) \/ GiveUp(c) \/ Acquire(c) \/ Exchange(c)
    \/ Environment

Spec == Init /\ [][Next]_vars

\* Every exchange is bounded by its timeout, so its holder keeps moving; and a
\* Go channel hands a free slot to its waiting senders in order, so a caller
\* that waits for the gate long enough gets it.
Fairness ==
    \A c \in Callers : WF_vars(Exchange(c)) /\ SF_vars(Acquire(c))

FairSpec == Spec /\ Fairness

-----------------------------------------------------------------------------
(* Properties.                                                              *)

TypeOK ==
    /\ gate \in Callers \cup {NoCaller}
    /\ pc \in [Callers -> {"idle", "queued", "held"}]
    /\ op \in [Callers -> Operations \cup {"none"}]
    /\ insisting \in [Callers -> BOOLEAN]
    /\ answer \in [Callers -> Answer]
    /\ turn \in Turn
    /\ connected \in BOOLEAN
    /\ conn \in Connection
    /\ generation \in 0..MaxGeneration
    /\ pinned \in Versions \cup {NoVersion, UnknownVersion}
    /\ cred \in Credentials
    /\ bearer \in Credentials \cup {NoCredential}
    /\ authorization \in 0..MaxAuthorization
    /\ chan \in {"open", "closed"}
    /\ closing \subseteq Closers
    /\ seen \in [Readers -> Connection]
    /\ peer \in Peer
    /\ frame \in Frame

\* A result is stamped with the connection it travelled over (answered): the
\* count reported with it is that of the handshake the server answered under,
\* however many handshakes were run, repeated or abandoned since, and whatever
\* Disconnect did in the middle.
AnswerNamesItsConnection ==
    \A c \in Callers : answer[c].generation = answer[c].settledBy

\* Two results that claim one authorization context were presented with one
\* credential, and two that claim one connection claim one context: what is
\* kept for a context is never another caller's (AuthorizationAware).
ContextsDoNotMix ==
    \A c, d \in Callers :
        /\ answer[c] # NoAnswer /\ answer[d] # NoAnswer
        => /\ answer[c].authorization = answer[d].authorization
                  => answer[c].cred = answer[d].cred
           /\ answer[c].generation = answer[d].generation
                  => answer[c].authorization = answer[d].authorization

\* A request that carries what the server handed to one caller, as the cursor
\* of a listing, is on the wire only under the credential it was handed to
\* (terms): not after a session expired and the credential changed, either.
CursorStaysInContext ==
    \A c \in Callers :
        Holds(c, "await") /\ insisting[c] => frame.cred = answer[c].cred

\* A frame goes to the handshake it was written for: at the version the server
\* settled last, and with the credential that handshake presented
\* (connectLocked, forsake).
FrameFitsHandshake ==
    turn.step = "await" => frame.version = peer.version /\ frame.cred = peer.cred

\* While a version is pinned no request travels over a connection settled on
\* another (pinProtocolVersion, renegotiated).
PinHolds ==
    turn.step = "await" /\ pinned # NoVersion => frame.version = pinned

\* One exchange has its request carried out at most once, although it may put
\* the request on the wire up to three times (exchangeFor).
ExecutedAtMostOnce == turn.executed <= 1

\* What a handshake stated is shown only when the credential presented at that
\* moment is the one it was stated to, although the connection was read in an
\* earlier step and may have been replaced since (presentable).
ShownToItsOwner ==
    Transport = "http" => \A r \in Readers : Presentable(r) => seen[r].cred = cred

\* Connect "is optional: any request connects on demand" (Client.Connect): at
\* rest, an engine that would send the next request without connecting has a
\* channel to send it on.
ConnectsOnDemand ==
    Transport = "stdio" /\ connected /\ gate = NoCaller /\ closing = {}
        => chan = "open"

\* Every caller that asks gets an answer or an error: the gate is let go of on
\* every path, and nothing waits for it in a circle.
EveryCallReturns == \A c \in Callers : (pc[c] # "idle") ~> (pc[c] = "idle")

\* The engine implements what Exchanges promises to the layers above it.
Promise == INSTANCE Exchanges WITH
    holder <- gate,
    ready  <- turn.step \in {"handshake", "settled", "confirmed", "send", "await"},
    last   <- [generation |-> peer.generation, authorization |-> peer.authorization,
               cred |-> peer.cred],
    under  <- IF turn.step \in {"settled", "confirmed", "send", "await"}
              THEN [generation |-> peer.generation,
                    authorization |-> peer.authorization, cred |-> peer.cred]
              ELSE [generation |-> 0, authorization |-> 0, cred |-> NoCredential],
    reply  <- [c \in Callers |->
                  IF gate = c THEN [generation |-> 0, authorization |-> 0, cred |-> NoCredential]
                  ELSE [generation |-> answer[c].generation,
                        authorization |-> answer[c].authorization,
                        cred |-> answer[c].cred]]

ImplementsExchanges == Promise!ExchangesSpec

=============================================================================
