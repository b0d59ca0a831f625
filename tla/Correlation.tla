---------------------------- MODULE Correlation ----------------------------
(***************************************************************************)
(* Which answer is whose, over one shared channel: attempt, exchangeFrame  *)
(* and withdrawn of client/protocol.go, over a transport that carries      *)
(* every reply on one stream, as stdio does.                               *)
(*                                                                         *)
(* A request may time out or be cancelled by its caller while its reply is *)
(* on the way.  It is withdrawn, the connection stands, and the reply      *)
(* reaches whoever reads next.  A reply that names its request is told     *)
(* apart by its id; an error that names none is taken for the reply of the *)
(* oldest request withdrawn and not accounted for.                         *)
(*                                                                         *)
(* The exchange gate lets one exchange run at a time (ClientProtocol), so  *)
(* exchange is the locals of its holder; Disconnect comes from anywhere.   *)
(* The variables of the last group are not the client's: they record what  *)
(* the server truly did.                                                   *)
(***************************************************************************)
EXTENDS Naturals, Sequences, FiniteSets

CONSTANTS
    Closers,            \* goroutines calling Disconnect
    Window,             \* withdrawnReplyWindow
    MaxUnaccounted,     \* maxUnaccounted (64)
    MaxRequests,        \* bound: requests sent
    MaxChannels,        \* bound: channels opened
    MaxWire,            \* bound: frames on the way to the client
    MaxNow              \* bound: the clock

ASSUME BoundsAssumption ==
    /\ {MaxUnaccounted, MaxRequests, MaxChannels, MaxWire} \subseteq Nat \ {0}
    /\ Window \in Nat /\ MaxNow \in Nat

Requests == 1..MaxRequests
Channels == 1..MaxChannels

VARIABLES
    connected,          \* protocol.connected
    unaccounted,        \* protocol.unaccounted, whose order is that of the ids
    silent,             \* protocol.silent
    next,               \* protocol.nextID
    exchange,           \* the locals of the exchange in progress
    channel,            \* the channel the transport has open, 0 for none
    closing,            \* Disconnect calls between their two steps
    now,                \* the client's clock
    opened,             \* channels opened so far
    asked,              \* requests the server has and may still answer
    wire                \* its frames on the way to the client, in order

VARIABLES
    gone,               \* when each request was withdrawn, and over which channel
    heardOf,            \* requests whose reply the client has read
    latest,             \* the latest request the server answered
    inOrder,            \* it answered none after a later one
    excused,            \* an entry lapsed, was dropped or was cleared before its reply
    mutes               \* timeouts since a frame was read over this channel

protocolVars == <<connected, unaccounted, silent, next>>
channelVars  == <<channel, opened>>
serverVars   == <<asked, wire, latest, inOrder>>
truthVars    == <<gone, heardOf, excused, mutes>>
vars == <<protocolVars, exchange, channelVars, closing, now, serverVars, truthVars>>

\* A frame: a reply naming request id, an error about it that names none
\* ("null"), or something of the server's own: a notification or a request the
\* client serves ("notice"), or what ends the exchange that reads it ("bad").
Frame == [kind : {"reply", "null", "notice", "bad"}, id : 0..MaxRequests]

NoExchange == [step |-> "idle", id |-> 0, over |-> 0, ended |-> "no", passedOver |-> FALSE]
NotGone == [at |-> 0, over |-> 0]

Init ==
    /\ connected = FALSE
    /\ unaccounted = {}
    /\ silent = FALSE
    /\ next = 1
    /\ exchange = NoExchange
    /\ channel = 0
    /\ closing = {}
    /\ now = 0
    /\ opened = 0
    /\ asked = {}
    /\ wire = <<>>
    /\ gone = [n \in Requests |-> NotGone]
    /\ heardOf = {}
    /\ latest = 0
    /\ inOrder = TRUE
    /\ excused = FALSE
    /\ mutes = 0

At(step) == exchange.step = step
GoOn(step) == exchange' = [exchange EXCEPT !.step = step]

-----------------------------------------------------------------------------
(* Withdrawn requests: each of these is one critical section of protocol.mu.*)

\* lapseLocked.
Unlapsed(entries) == {w \in entries : now < w.at + Window}

\* The requests are numbered as they are sent, and withdrawn one by one.
Oldest(entries) == CHOOSE w \in entries : \A v \in entries : w.id <= v.id
WithoutOldest(entries) == entries \ {Oldest(entries)}

\* Mutant: the request is withdrawn and not kept.
NotAccounted(entries, entry) == entries

\* account: the oldest goes when there are too many.
Accounted(entries, entry) ==
    LET all == entries \cup {entry}
    IN  IF Cardinality(all) > MaxUnaccounted THEN WithoutOldest(all) ELSE all

\* Mutant: a reply that names its request leaves it unaccounted for.
StillUnaccounted(entries, id) == entries

\* accountedFor.
AccountedFor(entries, id) == {w \in entries : w.id # id}

-----------------------------------------------------------------------------
(* Connecting and sending.                                                  *)

\* connectLocked: a channel that is open already is adopted.  The handshake's
\* own frames are left out.
Connect ==
    /\ At("idle") /\ ~connected
    /\ next <= MaxRequests
    /\ connected' = TRUE
    /\ \/ /\ channel = 0
          /\ opened < MaxChannels
          /\ opened' = opened + 1
          /\ channel' = opened'
          /\ excused' = FALSE
       \/ /\ channel # 0
          /\ UNCHANGED <<channel, opened, excused>>
    /\ UNCHANGED <<unaccounted, silent, next, exchange, closing, now, serverVars,
                   gone, heardOf, mutes>>

\* attempt numbers the request and sends its frame.
Send ==
    /\ At("idle") /\ connected
    /\ next <= MaxRequests
    /\ channel # 0
    /\ next' = next + 1
    /\ exchange' = [NoExchange EXCEPT !.step = "receive", !.id = next, !.over = channel]
    /\ asked' = asked \cup {next}
    /\ UNCHANGED <<connected, unaccounted, silent, channelVars, closing, now,
                   wire, latest, inOrder, truthVars>>

\* The frame cannot be sent: the channel itself has failed.
SendFails ==
    /\ At("idle") /\ connected
    /\ next <= MaxRequests
    /\ next' = next + 1
    /\ exchange' = [NoExchange EXCEPT !.step = "fail", !.id = next]
    /\ UNCHANGED <<connected, unaccounted, silent, channelVars, closing, now,
                   serverVars, truthVars>>

-----------------------------------------------------------------------------
(* exchangeFrame reads until the response arrives.                          *)

\* The context of the exchange ends: its time is up, or its caller gave up.
ContextEnds(cause) ==
    /\ At("receive") /\ exchange.ended = "no"
    /\ exchange' = [exchange EXCEPT !.ended = cause]
    /\ UNCHANGED <<protocolVars, channelVars, closing, now, serverVars, truthVars>>

\* The read ends with the context, or is not begun once a frame was passed over.
Abandon ==
    /\ At("receive") /\ exchange.ended # "no"
    /\ GoOn("withdraw")
    /\ UNCHANGED <<protocolVars, channelVars, closing, now, serverVars, truthVars>>

ReceiveFails ==
    /\ At("receive")
    /\ GoOn("fail")
    /\ UNCHANGED <<protocolVars, channelVars, closing, now, serverVars, truthVars>>

\* Mutant: the context is left to the transport.
ReadsOn == TRUE

\* The context is consulted after every frame that was not the response.
MayRead == exchange.ended = "no" \/ ~exchange.passedOver

\* A frame is read: the server is not silent.
Heard ==
    /\ At("receive") /\ channel # 0
    /\ MayRead
    /\ wire # <<>>
    /\ wire' = Tail(wire)
    /\ silent' = FALSE
    /\ mutes' = 0
    /\ UNCHANGED <<connected, next, channelVars, closing, now, asked, latest, inOrder, gone>>

PassOver == exchange' = [exchange EXCEPT !.passedOver = TRUE]

\* The exchange ends with the frame that answered it.
Answered == exchange' = NoExchange

\* A notification, or a request the revision lets the server send, answered.
ReadServerFrame ==
    /\ Heard
    /\ Head(wire).kind = "notice"
    /\ PassOver
    /\ UNCHANGED <<unaccounted, heardOf, excused>>

\* A frame the client cannot read, a request it may not be sent, or one its
\* answer to cannot be sent.
ReadBadFrame ==
    /\ Heard
    /\ Head(wire).kind = "bad"
    /\ GoOn("fail")
    /\ UNCHANGED <<unaccounted, heardOf, excused>>

ReadReply ==
    /\ Heard
    /\ Head(wire).kind = "reply"
    /\ heardOf' = heardOf \cup {Head(wire).id}
    /\ UNCHANGED excused
    /\ \/ /\ Head(wire).id = exchange.id
          /\ Answered
          /\ UNCHANGED unaccounted
       \/ /\ Head(wire).id # exchange.id
          /\ unaccounted' = AccountedFor(unaccounted, Head(wire).id)
          /\ PassOver

\* An error that names no request: repliesToWithdrawn.
ReadNullError ==
    /\ Heard
    /\ Head(wire).kind = "null"
    /\ LET of   == Head(wire).id
           kept == Unlapsed(unaccounted)
       IN  /\ heardOf' = heardOf \cup {of}
           /\ excused' = (excused \/ (gone[of].over # 0 /\ now >= gone[of].at + Window))
           /\ \/ /\ kept = {}
                 /\ unaccounted' = kept
                 /\ Answered
              \/ /\ kept # {}
                 /\ unaccounted' = WithoutOldest(kept)
                 /\ PassOver

-----------------------------------------------------------------------------
(* withdrawn, and the tearing down of a channel that failed.                *)

TimedOut == exchange.ended = "timeout"

\* The second timeout in a row without a frame in between.
Hung == TimedOut /\ silent

\* Mutant: a cancellation in between counts as hearing from the server.
SilentUnlessCancelled == IF connected THEN TimedOut /\ ~Hung ELSE silent

StillSilent == IF connected /\ TimedOut THEN ~Hung ELSE silent

\* A request of a connection that still stands is withdrawn, unless the server
\* is taken for hung.
Withdraw ==
    /\ At("withdraw")
    /\ silent' = StillSilent
    /\ mutes' = IF connected /\ TimedOut THEN mutes + 1 ELSE mutes
    /\ GoOn(IF connected /\ ~Hung THEN "notify" ELSE "fail")
    /\ UNCHANGED <<connected, unaccounted, next, channelVars, closing, now,
                   serverVars, gone, heardOf, excused>>

Notify ==
    /\ At("notify")
    /\ \/ channel # 0 /\ GoOn("account")
       \/ GoOn("fail")
    /\ UNCHANGED <<protocolVars, channelVars, closing, now, serverVars, truthVars>>

Account ==
    /\ At("account")
    /\ LET kept == Unlapsed(unaccounted)
       IN  /\ unaccounted' = Accounted(kept, [id |-> exchange.id, at |-> now])
           /\ excused' = (excused \/ Cardinality(kept) = MaxUnaccounted)
    /\ gone' = [gone EXCEPT ![exchange.id] = [at |-> now, over |-> exchange.over]]
    /\ exchange' = NoExchange
    /\ UNCHANGED <<connected, silent, next, channelVars, closing, now, serverVars,
                   heardOf, mutes>>

\* disconnect, under the mutex.
Forget ==
    /\ connected' = FALSE
    /\ unaccounted' = {}
    /\ silent' = FALSE
    /\ excused' = TRUE
    /\ mutes' = 0

\* disconnectIfConnected.
Fail ==
    /\ At("fail")
    /\ \/ connected /\ Forget /\ GoOn("close")
       \/ ~connected /\ exchange' = NoExchange
          /\ UNCHANGED <<connected, unaccounted, silent, excused, mutes>>
    /\ UNCHANGED <<next, channelVars, closing, now, serverVars, gone, heardOf>>

CloseChannel ==
    /\ channel' = 0
    /\ asked' = {}
    /\ wire' = <<>>
    /\ UNCHANGED <<opened, latest, inOrder>>

Close ==
    /\ At("close")
    /\ CloseChannel
    /\ exchange' = NoExchange
    /\ UNCHANGED <<protocolVars, closing, now, truthVars>>

BeginDisconnect(d) ==
    /\ d \notin closing
    /\ Forget
    /\ closing' = closing \cup {d}
    /\ UNCHANGED <<next, exchange, channelVars, now, serverVars, gone, heardOf>>

EndDisconnect(d) ==
    /\ d \in closing
    /\ CloseChannel
    /\ closing' = closing \ {d}
    /\ UNCHANGED <<protocolVars, exchange, now, truthVars>>

-----------------------------------------------------------------------------
(* The server, and time.                                                    *)

Write(frame) ==
    /\ channel # 0
    /\ Len(wire) < MaxWire
    /\ wire' = Append(wire, frame)
    /\ UNCHANGED <<protocolVars, exchange, channelVars, closing, now, truthVars>>

\* It answers a request once at most, withdrawn or not, or never.
Answer(n) ==
    /\ n \in asked
    /\ \E kind \in {"reply", "null"} : Write([kind |-> kind, id |-> n])
    /\ asked' = asked \ {n}
    /\ latest' = IF n > latest THEN n ELSE latest
    /\ inOrder' = (inOrder /\ n > latest)

Speak ==
    /\ \E kind \in {"notice", "bad"} : Write([kind |-> kind, id |-> 0])
    /\ UNCHANGED <<asked, latest, inOrder>>

Tick ==
    /\ now < MaxNow
    /\ now' = now + 1
    /\ UNCHANGED <<protocolVars, exchange, channelVars, closing, serverVars, truthVars>>

Read == ReadServerFrame \/ ReadBadFrame \/ ReadReply \/ ReadNullError

Step == Read \/ Abandon \/ Withdraw \/ Notify \/ Account \/ Fail \/ Close

Next ==
    \/ Connect \/ Send \/ SendFails \/ ReceiveFails \/ Step
    \/ \E cause \in {"timeout", "cancelled"} : ContextEnds(cause)
    \/ \E d \in Closers : BeginDisconnect(d) \/ EndDisconnect(d)
    \/ \E n \in Requests : Answer(n)
    \/ Speak
    \/ Tick

Spec == Init /\ [][Next]_vars

\* The exchange moves whenever it can.  Nothing is assumed of the server, nor
\* that a context ever ends.
FairSpec == Spec /\ WF_vars(Step)

-----------------------------------------------------------------------------
(* Properties.                                                              *)

CorrelationTypeOK ==
    /\ connected \in BOOLEAN /\ silent \in BOOLEAN
    /\ unaccounted \subseteq [id : Requests, at : 0..MaxNow]
    /\ Cardinality(unaccounted) <= MaxUnaccounted
    /\ next \in 1..(MaxRequests + 1)
    /\ exchange.step \in {"idle", "receive", "withdraw", "notify", "account", "fail", "close"}
    /\ exchange.id \in 0..MaxRequests
    /\ channel \in 0..opened /\ opened \in 0..MaxChannels
    /\ closing \subseteq Closers
    /\ now \in 0..MaxNow
    /\ asked \subseteq Requests
    /\ Len(wire) <= MaxWire /\ \A i \in DOMAIN wire : wire[i] \in Frame
    /\ latest \in 0..MaxRequests /\ inOrder \in BOOLEAN
    /\ gone \in [Requests -> [at : 0..MaxNow, over : 0..MaxChannels]]
    /\ heardOf \subseteq Requests
    /\ excused \in BOOLEAN /\ mutes \in Nat

\* A request is answered with what the server said of that request, an error
\* without an id included (exchangeFrame, repliesToWithdrawn): as long as the
\* server answers in order, and within the window what it answers of the
\* requests withdrawn over the channel.
AnswerIsItsOwn ==
    [][At("receive") /\ exchange' = NoExchange /\ inOrder /\ ~excused'
         => Head(wire).id = exchange.id]_vars

\* "When none is open the error answers the request in flight"
\* (repliesToWithdrawn): however many requests were withdrawn, cancelled or
\* timed out, no more errors will be passed over than requests withdrawn are
\* still to be answered.
NoMoreThanOpen ==
    inOrder =>
        Cardinality(unaccounted) <= Cardinality({n \in Requests : gone[n] # NotGone} \ heardOf)

\* A server that lets two requests time out without a frame in between is given
\* up, whatever was cancelled or disconnected around them (withdrawn).
HungServerGivenUp == connected /\ exchange.step \in {"idle", "receive"} => mutes <= 1

\* An exchange whose context has ended comes to an end, however many frames the
\* server would still deliver (exchangeFrame).
ContextEndsExchange == (At("receive") /\ exchange.ended # "no") ~> At("idle")

\* The requests kept were withdrawn "over the channel now open", and "all go
\* when the channel is given up" (protocol.unaccounted).
KeptForThisChannel ==
    channel # 0 /\ closing = {} =>
        \A w \in unaccounted : gone[w.id].over = channel

=============================================================================
