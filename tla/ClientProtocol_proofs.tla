----------------------- MODULE ClientProtocol_proofs -----------------------
(***************************************************************************)
(* Theorems about ClientProtocol for every value of its constants.         *)
(***************************************************************************)
EXTENDS ClientProtocol, TLAPS

\* The handshakes counted are those the server completed, but for the one
\* that is about to be counted.
Counted ==
    peer.generation = IF turn.step = "settled" THEN generation + 1 ELSE generation

\* A credential still to be settled leaves room for its number.
Budget == Transport = "http" /\ bearer # cred => authorization < MaxAuthorization

\* Nothing of an exchange is left once the gate is free.
GateFree == gate = NoCaller => turn = NoTurn

TypeInv == TypeOK /\ Counted /\ Budget /\ GateFree

USE CallersAssumption, CredentialsAssumption, VersionsAssumption, PinsAssumption,
    OperationsAssumption, TransportAssumption, BoundsAssumption

LEMMA TypeInit == Init => TypeInv
<1> SUFFICES ASSUME Init PROVE TypeInv
  OBVIOUS
<1>1. TypeOK
  <2>1. NoTurn \in Turn
    BY DEF NoTurn, Turn, Steps
  <2>2. NoConnection \in Connection
    BY DEF NoConnection, Connection
  <2>3. NoPeer \in Peer /\ NoFrame \in Frame
    BY DEF NoPeer, Peer, NoFrame, Frame
  <2>4. NoAnswer \in Answer
    BY DEF NoAnswer, Answer
  <2>5. gate \in Callers \cup {NoCaller} /\ cred \in Credentials /\ bearer \in Credentials \cup {NoCredential}
    BY DEF Init
  <2>6. /\ pc \in [Callers -> {"idle", "queued", "held"}]
        /\ op \in [Callers -> Operations \cup {"none"}]
        /\ insisting \in [Callers -> BOOLEAN]
    BY DEF Init
  <2>7. answer \in [Callers -> Answer] /\ seen \in [Readers -> Connection]
    BY <2>2, <2>4 DEF Init
  <2>8. connected \in BOOLEAN /\ chan \in {"open", "closed"} /\ closing \subseteq Closers
    BY DEF Init
  <2>9. pinned \in Versions \cup {NoVersion, UnknownVersion} /\ generation \in 0..MaxGeneration /\ authorization \in 0..MaxAuthorization
    BY DEF Init
  <2> QED
    BY <2>1, <2>2, <2>3, <2>5, <2>6, <2>7, <2>8, <2>9 DEF Init, TypeOK
<1>2. Counted
  BY DEF Init, Counted, NoTurn, NoPeer
<1>3. Budget /\ GateFree
  BY DEF Init, Budget, GateFree
<1> QED
  BY <1>1, <1>2, <1>3 DEF TypeInv

LEMMA ReturnTyped ==
    ASSUME TypeOK, NEW c \in Callers, NEW a \in Answer, Return(c, a)
    PROVE  /\ gate' = NoCaller /\ turn' = NoTurn
           /\ gate' \in Callers \cup {NoCaller}
           /\ pc' \in [Callers -> {"idle", "queued", "held"}]
           /\ op' \in [Callers -> Operations \cup {"none"}]
           /\ insisting' \in [Callers -> BOOLEAN]
           /\ answer' \in [Callers -> Answer]
           /\ turn' \in Turn
           /\ frame' \in Frame
BY DEF Return, TypeOK, NoTurn, Turn, Steps, NoFrame, Frame

LEMMA ErrorTyped ==
    ASSUME TypeOK, NEW c \in Callers, ReturnError(c)
    PROVE  /\ gate' = NoCaller /\ turn' = NoTurn
           /\ gate' \in Callers \cup {NoCaller}
           /\ pc' \in [Callers -> {"idle", "queued", "held"}]
           /\ op' \in [Callers -> Operations \cup {"none"}]
           /\ insisting' \in [Callers -> BOOLEAN]
           /\ answer' \in [Callers -> Answer]
           /\ turn' \in Turn
           /\ frame' \in Frame
<1>1. NoAnswer \in Answer
  BY DEF NoAnswer, Answer
<1> QED
  BY <1>1, ReturnTyped DEF ReturnError

LEMMA TurnBegins ==
    ASSUME NEW t \in Turn, NEW s \in Steps, NEW b \in 0..MaxGeneration
    PROVE  [t EXCEPT !.step = s, !.began = b] \in Turn
BY DEF Turn

LEMMA TurnAgain ==
    ASSUME NEW t \in Turn, NEW s \in Steps, NEW n \in 1..3
    PROVE  [t EXCEPT !.step = s, !.attempt = n] \in Turn
BY DEF Turn

LEMMA TurnRefused ==
    ASSUME NEW t \in Turn, NEW s \in Steps, NEW w \in {"first", "stale", "refused"},
           NEW n \in 1..3, NEW v \in Versions \cup {NoVersion}, NEW z \in 0..MaxAuthorization
    PROVE  [t EXCEPT !.step = s, !.after = w, !.attempt = n, !.refused = v,
                     !.authorization = z] \in Turn
BY DEF Turn

LEMMA AuthorizedTyped ==
    ASSUME TypeOK, Budget, Authorized
    PROVE  /\ authorization' \in 0..MaxAuthorization
           /\ bearer' \in Credentials \cup {NoCredential}
           /\ conn' \in Connection
           /\ AuthorizationContext \in 0..MaxAuthorization
           /\ cred' = cred => Budget'
<1>1. AuthorizationContext \in 0..MaxAuthorization
  BY DEF TypeOK, Budget, AuthorizationContext
<1>2. conn' \in Connection
  BY DEF TypeOK, Authorized, Remembered, NoConnection, Connection
<1> QED
  BY <1>1, <1>2 DEF TypeOK, Budget, Authorized, SettleAuthorization

LEMMA TypeStep == TypeInv /\ [Next]_vars => TypeInv'
<1> SUFFICES ASSUME TypeInv, [Next]_vars PROVE TypeInv'
  OBVIOUS
<1>1. ASSUME NEW c \in Callers, Ask(c) PROVE TypeInv'
  BY <1>1 DEF Ask, TypeInv, TypeOK, Counted, Budget, GateFree, callerVars, engineVars,
     transportVars, wireVars
<1>2. ASSUME NEW c \in Callers, GiveUp(c) PROVE TypeInv'
  BY <1>2 DEF GiveUp, TypeInv, TypeOK, Counted, Budget, GateFree, callerVars, engineVars,
     transportVars, wireVars
<1>3. ASSUME NEW c \in Callers, Acquire(c) PROVE TypeInv'
  <2>1. turn' \in Turn
    <3>1. generation \in 0..MaxGeneration
      BY DEF TypeInv, TypeOK
    <3>2. NoTurn \in Turn /\ {"pin", "standing"} \subseteq Steps
      BY DEF NoTurn, Turn, Steps
    <3> DEFINE s == IF op[c] = "pin" THEN "pin" ELSE "standing"
               b == IF op[c] = "advertised" THEN generation ELSE 0
    <3>3. s \in Steps /\ b \in 0..MaxGeneration
      BY <3>1, <3>2
    <3>4. turn' = [NoTurn EXCEPT !.step = s, !.began = b]
      BY <1>3 DEF Acquire
    <3> HIDE DEF s, b
    <3> QED
      BY <3>2, <3>3, <3>4, TurnBegins
  <2>2. turn'.step # "settled" /\ turn.step # "settled"
    BY <1>3 DEF Acquire, NoTurn, TypeInv, GateFree
  <2>3. gate' # NoCaller
    BY <1>3 DEF Acquire
  <2> QED
    BY <1>3, <2>1, <2>2, <2>3 DEF Acquire, TypeInv, TypeOK, Counted, Budget, GateFree,
       callerVars, engineVars, transportVars, wireVars
<1>4. ASSUME NEW c \in Callers, KeepConnection(c) PROVE TypeInv'
  BY <1>4 DEF KeepConnection, Holds, GoOn, Authorized, SettleAuthorization,
     AuthorizationContext, Forsaken, Remembered, NoConnection, Connection, Turn, Steps,
     TypeInv, TypeOK, Counted, Budget, GateFree, callerVars, engineVars, transportVars,
     wireVars
<1>5. ASSUME NEW c \in Callers, OpenConnection(c) PROVE TypeInv'
  <2>1. turn' \in Turn /\ turn'.step = "handshake" /\ turn.step = "standing"
    BY <1>5, AuthorizedTyped DEF OpenConnection, Holds, Turn, Steps, TypeInv, TypeOK
  <2>2. gate' # NoCaller
    BY <1>5 DEF OpenConnection, Holds
  <2> QED
    BY <1>5, <2>1, <2>2, AuthorizedTyped DEF OpenConnection, TypeInv, TypeOK, Counted,
       Budget, GateFree, callerVars, engineVars, transportVars, wireVars
<1>6. ASSUME NEW c \in Callers, CannotConnect(c) PROVE TypeInv'
  <2>1. turn'.step = "none" /\ turn.step = "standing"
    BY <1>6, ErrorTyped DEF CannotConnect, Holds, NoTurn, TypeInv
  <2> QED
    BY <1>6, <2>1, ErrorTyped, AuthorizedTyped DEF CannotConnect, TypeInv, TypeOK,
       Counted, Budget, GateFree, callerVars, engineVars, transportVars, wireVars
<1>7. ASSUME NEW c \in Callers, NEW v \in Versions, HandshakeSucceeds(c, v) PROVE TypeInv'
  BY <1>7 DEF HandshakeSucceeds, ContextOfHandshake, Holds, GoOn, Turn, Steps, Connection,
     Peer, TypeInv, TypeOK, Counted, Budget, GateFree, callerVars, engineVars,
     transportVars, wireVars
<1>8. ASSUME NEW c \in Callers, HandshakeFails(c) PROVE TypeInv'
  <2>1. turn'.step = "none" /\ turn.step = "handshake"
    BY <1>8, ErrorTyped DEF HandshakeFails, Holds, NoTurn, TypeInv
  <2>2. conn' \in Connection
    <3>1. NoConnection \in Connection
      BY DEF NoConnection, Connection
    <3>2. conn \in Connection
      BY DEF TypeInv, TypeOK
    <3> QED
      BY <1>8, <3>1, <3>2 DEF HandshakeFails
  <2> QED
    BY <1>8, <2>1, <2>2, ErrorTyped DEF HandshakeFails, TypeInv, TypeOK, Counted, Budget,
       GateFree, callerVars, engineVars, transportVars, wireVars
<1>9. ASSUME NEW c \in Callers, Settled(c) PROVE TypeInv'
  <2>1. turn.step = "settled" /\ gate = c /\ generation' = peer.generation /\ peer' = peer
    BY <1>9 DEF Settled, Holds, CountOfHandshakes, TypeInv, Counted
  <2>2. generation' \in 0..MaxGeneration
    BY <2>1 DEF TypeInv, TypeOK, Peer
  <2>3. [Answered EXCEPT !.generation = generation'] \in Answer
    BY <2>2 DEF Answered, Answer, TypeInv, TypeOK, Peer, Connection, Frame
  <2>4. CASE turn.after = "first" /\ GoOn("confirmed") /\ UNCHANGED <<gate, pc, op, insisting, answer, frame>>
    <3>1. turn' \in Turn /\ turn'.step = "confirmed" /\ gate' # NoCaller
      BY <2>1, <2>4 DEF GoOn, Turn, Steps, TypeInv, TypeOK
    <3> QED
      BY <1>9, <2>1, <2>2, <2>4, <3>1 DEF Settled, TypeInv, TypeOK, Counted, Budget,
         GateFree, callerVars, engineVars, transportVars, wireVars
  <2>5. CASE Return(c, [Answered EXCEPT !.generation = generation'])
    <3>1. turn'.step = "none"
      BY <2>5 DEF Return, NoTurn
    <3> QED
      BY <1>9, <2>1, <2>2, <2>3, <2>5, <3>1, ReturnTyped DEF Settled, TypeInv, TypeOK,
         Counted, Budget, GateFree, callerVars, engineVars, transportVars, wireVars
  <2>6. CASE GoOn("send") /\ UNCHANGED <<gate, pc, op, insisting, answer, frame>>
    <3>1. turn' \in Turn /\ turn'.step = "send" /\ gate' # NoCaller
      BY <2>1, <2>6 DEF GoOn, Turn, Steps, TypeInv, TypeOK
    <3> QED
      BY <1>9, <2>1, <2>2, <2>6, <3>1 DEF Settled, TypeInv, TypeOK, Counted, Budget,
         GateFree, callerVars, engineVars, transportVars, wireVars
  <2>7. CASE ReturnError(c)
    <3>1. turn'.step = "none"
      BY <2>7 DEF ReturnError, Return, NoTurn
    <3> QED
      BY <1>9, <2>1, <2>2, <2>7, <3>1, ErrorTyped DEF Settled, TypeInv, TypeOK, Counted,
         Budget, GateFree, callerVars, engineVars, transportVars, wireVars
  <2> QED
    BY <1>9, <2>4, <2>5, <2>6, <2>7 DEF Settled
<1>10. ASSUME NEW c \in Callers, Refuse(c) PROVE TypeInv'
  BY <1>10 DEF Refuse, NoAnswer, Answer, Holds, GoOn, ReturnError, Return, NoTurn, Turn,
     Steps, NoFrame, Frame, TypeInv, TypeOK, Counted, Budget, GateFree, callerVars,
     engineVars, transportVars, wireVars
<1>11. ASSUME NEW c \in Callers, Accept(c) PROVE TypeInv'
  BY <1>11 DEF Accept, Holds, GoOn, Turn, Steps, TypeInv, TypeOK, Counted, Budget,
     GateFree, callerVars, engineVars, transportVars, wireVars
<1>12. ASSUME NEW c \in Callers, Found(c) PROVE TypeInv'
  BY <1>12 DEF Found, Answered, Answer, Peer, Connection, Holds, GoOn, ReturnError,
     Return, NoTurn, Turn, Steps, NoFrame, Frame, TypeInv, TypeOK, Counted, Budget,
     GateFree, callerVars, engineVars, transportVars, wireVars
<1>13. ASSUME NEW c \in Callers, ReadAgain(c) PROVE TypeInv'
  BY <1>13, ZenonT(60) DEF ReadAgain, Connection, Holds, GoOn, Turn, Steps, TypeInv, TypeOK, Counted,
     Budget, GateFree, callerVars, engineVars, transportVars, wireVars
<1>14. ASSUME NEW c \in Callers, Send(c) PROVE TypeInv'
  BY <1>14 DEF Send, Connection, Frame, Holds, GoOn, Turn, Steps, TypeInv, TypeOK,
     Counted, Budget, GateFree, callerVars, engineVars, transportVars, wireVars
<1>15. ASSUME NEW c \in Callers, Execute(c) PROVE TypeInv'
  <2>1. turn' \in Turn /\ turn'.step = turn.step /\ gate' # NoCaller
    BY <1>15 DEF Execute, Holds, Turn, TypeInv, TypeOK
  <2> QED
    BY <1>15, <2>1 DEF Execute, Frame, TypeInv, TypeOK, Counted, Budget, GateFree,
       callerVars, engineVars, transportVars, wireVars
<1>16. ASSUME NEW c \in Callers, Succeed(c) PROVE TypeInv'
  BY <1>16 DEF Succeed, Answered, Answer, Peer, Connection, Holds, GoOn, ReturnError,
     Return, NoTurn, Turn, Steps, NoFrame, Frame, TypeInv, TypeOK, Counted, Budget,
     GateFree, callerVars, engineVars, transportVars, wireVars
<1>17. ASSUME NEW c \in Callers, EndStanding(c) PROVE TypeInv'
  BY <1>17 DEF EndStanding, NoAnswer, Answer, Holds, GoOn, ReturnError, Return, NoTurn,
     Turn, Steps, NoFrame, Frame, TypeInv, TypeOK, Counted, Budget, GateFree, callerVars,
     engineVars, transportVars, wireVars
<1>18. ASSUME NEW c \in Callers, ChannelFails(c) PROVE TypeInv'
  <2>1. turn'.step = "none" /\ turn.step # "settled"
    BY <1>18, ErrorTyped DEF ChannelFails, Holds, NoTurn, TypeInv
  <2> QED
    BY <1>18, <2>1, ErrorTyped DEF ChannelFails, TypeInv, TypeOK, Counted, Budget,
       GateFree, callerVars, engineVars, transportVars, wireVars
<1>19. ASSUME NEW c \in Callers, Expire(c) PROVE TypeInv'
  <2>1. CASE ReturnError(c)
    <3>1. turn'.step = "none" /\ turn.step # "settled"
      BY <1>19, <2>1, ErrorTyped DEF Expire, Holds, NoTurn, TypeInv
    <3> QED
      BY <1>19, <2>1, <3>1, ErrorTyped DEF Expire, TypeInv, TypeOK, Counted, Budget,
         GateFree, callerVars, engineVars, transportVars, wireVars
  <2>2. CASE /\ turn' = [turn EXCEPT !.step = "standing", !.attempt = 2]
             /\ frame' = NoFrame
             /\ UNCHANGED <<gate, pc, op, insisting, answer>>
    <3>0. turn \in Turn
      BY DEF TypeInv, TypeOK
    <3>1a. turn' \in Turn /\ turn'.step = "standing"
      <4>1. "standing" \in Steps /\ 2 \in 1..3
        BY DEF Steps
      <4>2. turn' \in Turn
        BY <3>0, <2>2, <4>1, TurnAgain
      <4> QED
        BY <4>2, <2>2, <3>0 DEF Turn
    <3>1. turn' \in Turn /\ turn'.step = "standing" /\ turn.step # "settled" /\ gate' # NoCaller
      BY <1>19, <2>2, <3>1a DEF Expire, Holds
    <3>2. frame' \in Frame
      BY <2>2 DEF NoFrame, Frame
    <3> QED
      BY <1>19, <2>2, <3>1, <3>2 DEF Expire, TypeInv, TypeOK, Counted, Budget, GateFree,
         callerVars, engineVars, transportVars, wireVars
  <2> QED
    BY <1>19, <2>1, <2>2 DEF Expire
<1>20. ASSUME NEW c \in Callers, RefuseVersion(c) PROVE TypeInv'
  <2>1. turn' \in Turn /\ turn'.step = "handshake" /\ turn.step # "settled" /\ gate' # NoCaller
    <3>1. turn \in Turn
      BY DEF TypeInv, TypeOK
    <3>2. conn.version \in Versions \cup {NoVersion} /\ conn.authorization \in 0..MaxAuthorization
      BY DEF TypeInv, TypeOK, Connection
    <3>3. turn' = [turn EXCEPT !.step = "handshake", !.after = "refused", !.attempt = 3,
                               !.refused = conn.version,
                               !.authorization = conn.authorization]
      BY <1>20 DEF RefuseVersion
    <3>4. turn' \in Turn /\ turn'.step = "handshake"
      <4>1. "handshake" \in Steps /\ 3 \in 1..3
        BY DEF Steps
      <4>2. turn' \in Turn
        BY <3>1, <3>2, <3>3, <4>1, TurnRefused
      <4> QED
        BY <4>2, <3>1, <3>3 DEF Turn
    <3> QED
      BY <1>20, <3>4 DEF RefuseVersion, Holds
  <2>2. frame' \in Frame /\ conn' \in Connection
    BY <1>20 DEF RefuseVersion, NoFrame, Frame, NoConnection, Connection
  <2> QED
    BY <1>20, <2>1, <2>2 DEF RefuseVersion, TypeInv, TypeOK, Counted, Budget, GateFree,
       callerVars, engineVars, transportVars, wireVars
<1>21. ASSUME NEW c \in Callers, Pin(c) PROVE TypeInv'
  <2>1. turn'.step = "none" /\ turn.step # "settled"
    BY <1>21, ErrorTyped DEF Pin, Holds, NoTurn, TypeInv
  <2>2. conn' \in Connection
    BY <1>21 DEF Pin, NoConnection, Connection
  <2> QED
    BY <1>21, <2>1, <2>2, ErrorTyped DEF Pin, TypeInv, TypeOK, Counted, Budget, GateFree,
       callerVars, engineVars, transportVars, wireVars
<1>22. ASSUME NEW k \in Credentials, ChangeCredential(k) PROVE TypeInv'
  BY <1>22 DEF ChangeCredential, TypeInv, TypeOK, Counted, Budget, GateFree, callerVars,
     engineVars, transportVars, wireVars
<1>23. ASSUME NEW d \in Closers, BeginDisconnect(d) PROVE TypeInv'
  BY <1>23 DEF BeginDisconnect, TypeInv, TypeOK, Counted, Budget, GateFree, callerVars,
     engineVars, transportVars, wireVars
<1>24. ASSUME NEW d \in Closers, EndDisconnect(d) PROVE TypeInv'
  BY <1>24 DEF EndDisconnect, TypeInv, TypeOK, Counted, Budget, GateFree, callerVars,
     engineVars, transportVars, wireVars
<1>25. ASSUME NEW r \in Readers, PeekConnection(r) PROVE TypeInv'
  BY <1>25 DEF PeekConnection, TypeInv, TypeOK, Counted, Budget, GateFree, callerVars,
     engineVars, transportVars, wireVars
<1>26. ASSUME NEW r \in Readers, PeekCredential(r) PROVE TypeInv'
  BY <1>26 DEF PeekCredential, NoConnection, Connection, TypeInv, TypeOK, Counted, Budget,
     GateFree, callerVars, engineVars, transportVars, wireVars
<1>27. ASSUME Outlive PROVE TypeInv'
  BY <1>27 DEF Outlive, Connection, TypeInv, TypeOK, Counted, Budget, GateFree,
     callerVars, engineVars, transportVars, wireVars
<1>28. ASSUME UNCHANGED vars PROVE TypeInv'
  BY <1>28 DEF vars, TypeInv, TypeOK, Counted, Budget, GateFree, callerVars, engineVars,
     transportVars, wireVars
<1> QED
  BY <1>1, <1>2, <1>3, <1>4, <1>5, <1>6, <1>7, <1>8, <1>9, <1>10, <1>11, <1>12, <1>13,
     <1>14, <1>15, <1>16, <1>17, <1>18, <1>19, <1>20, <1>21, <1>22, <1>23, <1>24, <1>25,
     <1>26, <1>27, <1>28 DEF Next, Exchange, Environment

\* Every variable keeps its type in every reachable state.
THEOREM TypeCorrect == Spec => []TypeOK
<1>1. TypeInv => TypeOK
  BY DEF TypeInv
<1> QED
  BY TypeInit, TypeStep, <1>1, PTL DEF Spec

(***************************************************************************)
(* The safety properties, and that the engine implements Exchanges.        *)
(*                                                                         *)
(* None of them is inductive.  They follow from what the gate's holder     *)
(* knows at each step of its exchange (EngineInv), from how every record   *)
(* of a context is dated (Dated: it claims no later context than the       *)
(* current one, and the current one only with the current credential),     *)
(* and from what is true of every answer ever given (AnswerInv).  The same *)
(* invariant maps every step of the engine to a step of Exchanges or to    *)
(* none.                                                                   *)
(***************************************************************************)

InFlight == turn.step \in {"settled", "confirmed", "send", "await"}

\* A record that says which context it belongs to.
Dated(x) ==
    /\ x.authorization <= authorization
    /\ x.authorization = authorization => x.cred = bearer

\* The contexts handed out and the credential of the last one.
Context ==
    /\ Transport = "stdio" => bearer = NoCredential /\ authorization = 0
    /\ Transport = "http" => (bearer = NoCredential <=> authorization = 0)

Recorded == Dated(conn) /\ Dated(peer) /\ \A r \in Readers : Dated(seen[r])

\* The connection the engine has in hand is the one the server settled last.
Standing ==
    /\ conn.version # NoVersion
       => /\ conn.version = peer.version
          /\ conn.authorization = peer.authorization
    /\ connected \/ InFlight
       => /\ conn.version # NoVersion
          /\ pinned # NoVersion => conn.version = pinned

\* What the holder of the gate presents is the context it settled.
Presented ==
    /\ turn.step = "handshake" => turn.authorization = authorization
    /\ InFlight => conn.authorization = authorization
    /\ (turn.step = "handshake" \/ InFlight) /\ Transport = "http" => bearer # NoCredential

OnTheWire ==
    /\ turn.step = "await" => frame.version = conn.version /\ frame.cred = bearer
    /\ turn.step # "await" => frame = NoFrame

Once ==
    \/ turn.executed = 0
    \/ turn.step = "await" /\ frame.executed /\ turn.executed = 1

Holder == gate # NoCaller => pc[gate] = "held"

EngineInv == Context /\ Recorded /\ Standing /\ Presented /\ OnTheWire /\ Once /\ Holder

\* Of an answer, real or none.
Sound(a) ==
    /\ Dated(a)
    /\ a.generation = a.settledBy
    /\ a # NoAnswer
       => /\ a.generation <= peer.generation
          /\ a.generation = peer.generation => a.authorization = peer.authorization
          /\ Transport = "http" => a.authorization # 0

AnswerInv ==
    /\ \A c \in Callers : Sound(answer[c])
    /\ ContextsDoNotMix

\* The request being put on the wire, or on its way back there.
Committed ==
    \/ turn.step \in {"send", "await"}
    \/ turn.step \in {"handshake", "settled"} /\ turn.after = "refused"

CursorInv ==
    \A c \in Callers :
        insisting[c] => /\ answer[c] # NoAnswer
                        /\ gate = c /\ Committed => answer[c].cred = bearer

SafeInv == TypeInv /\ EngineInv /\ AnswerInv /\ CursorInv

USE CallersAssumption, CredentialsAssumption, VersionsAssumption, TransportAssumption

\* The records of a context stay dated.
Advances ==
    \A n \in Nat : \A k :
        n <= authorization /\ (n = authorization => k = bearer)
        => n <= authorization' /\ (n = authorization' => k = bearer')

\* Settling a credential dates everything before it.
LEMMA ContextAdvances ==
    ASSUME TypeInv, Context, Authorized
    PROVE  /\ Context'
           /\ Transport = "http" => bearer' # NoCredential
           /\ authorization' = AuthorizationContext
           /\ Advances
BY DEF Advances, TypeInv, TypeOK, Context, Authorized, SettleAuthorization, AuthorizationContext

\* Settling a credential leaves every record dated.
LEMMA RecordsAdvance ==
    ASSUME TypeInv, Context, Recorded, Authorized, UNCHANGED <<peer, seen>>
    PROVE  Recorded'
<1>1. Advances
  BY ContextAdvances
<1>2. conn'.authorization = conn.authorization /\ conn'.cred = conn.cred
  BY DEF Authorized, Remembered, NoConnection, TypeInv, TypeOK, Connection
<1>3. conn.authorization \in Nat /\ peer.authorization \in Nat
      /\ \A r \in Readers : seen[r].authorization \in Nat
  BY DEF TypeInv, TypeOK, Connection, Peer
<1> QED
  BY <1>1, <1>2, <1>3 DEF Advances, Recorded, Dated

\* The turn of an exchange that starts over.
LEMMA TurnRepeats ==
    ASSUME NEW t \in Turn
    PROVE  LET u == [t EXCEPT !.step = "standing", !.attempt = 2]
           IN  u.step = "standing" /\ u.executed = t.executed
BY DEF Turn

\* What was never settled, and an answer that was never given, are dated too.
LEMMA NothingDated ==
    ASSUME TypeInv, Context
    PROVE  Dated(NoConnection) /\ Dated(NoAnswer)
BY DEF TypeInv, TypeOK, Context, Dated, NoConnection, NoAnswer

\* The rest of the system leaves the holder of the gate alone.
LEMMA EngineKept ==
    ASSUME EngineInv, connected' => connected,
           UNCHANGED <<authorization, bearer, conn, peer, seen, pinned, turn, frame, gate, pc>>
    PROVE  EngineInv'
BY DEF EngineInv, Context, Recorded, Dated, Standing, Presented, OnTheWire, Once, Holder,
   InFlight

\* An exchange that lets go of the gate leaves nothing on the wire.
LEMMA EngineReturned ==
    ASSUME EngineInv, connected' => connected \/ InFlight,
           UNCHANGED <<authorization, bearer, conn, peer, seen, pinned>>,
           NEW c, NEW a, Return(c, a)
    PROVE  EngineInv'
<1>1. turn' = NoTurn /\ frame' = NoFrame /\ gate' = NoCaller
  BY DEF Return
<1>2. Context' /\ Recorded'
  BY DEF EngineInv, Context, Recorded, Dated
<1>3. Standing' /\ Presented'
  BY <1>1 DEF EngineInv, Standing, Presented, InFlight, NoTurn
<1>4. OnTheWire' /\ Once' /\ Holder'
  BY <1>1 DEF OnTheWire, Once, Holder, NoTurn
<1> QED
  BY <1>2, <1>3, <1>4 DEF EngineInv

\* Between settling the connection and sending, nothing is presented anew.
LEMMA EngineGoesOn ==
    ASSUME EngineInv, TypeInv, NEW s \in {"confirmed", "send"}, GoOn(s),
           turn.step \in {"settled", "confirmed"},
           UNCHANGED <<authorization, bearer, conn, peer, seen, pinned, frame, gate, pc>>
    PROVE  EngineInv'
<1>1. turn'.step = s /\ turn'.executed = turn.executed
  BY DEF GoOn, TypeInv, TypeOK, Turn
<1>2. Context' /\ Recorded'
  BY DEF EngineInv, Context, Recorded, Dated
<1>3. Standing' /\ Presented'
  BY <1>1 DEF EngineInv, Standing, Presented, InFlight
<1>4. OnTheWire' /\ Once' /\ Holder'
  BY <1>1 DEF EngineInv, OnTheWire, Once, Holder
<1> QED
  BY <1>2, <1>3, <1>4 DEF EngineInv

LEMMA EngineStep == TypeInv /\ TypeInv' /\ EngineInv /\ [Next]_vars => EngineInv'
<1> SUFFICES ASSUME TypeInv, TypeInv', EngineInv, [Next]_vars PROVE EngineInv'
  OBVIOUS
<1>1. ASSUME NEW c \in Callers, Ask(c) PROVE EngineInv'
  <2>1. UNCHANGED <<engineVars, transportVars, wireVars, seen, turn, gate>>
    BY <1>1 DEF Ask
  <2>2. Holder'
    BY <1>1, <2>1 DEF Ask, EngineInv, Holder, TypeInv, TypeOK
  <2> QED
    BY <2>1, <2>2 DEF EngineInv, Context, Recorded, Dated, Standing, Presented, OnTheWire,
       Once, InFlight, engineVars, transportVars, wireVars
<1>2. ASSUME NEW c \in Callers, GiveUp(c) PROVE EngineInv'
  <2>1. UNCHANGED <<engineVars, transportVars, wireVars, seen, turn, gate>>
    BY <1>2 DEF GiveUp
  <2>2. Holder'
    BY <1>2, <2>1 DEF GiveUp, EngineInv, Holder, TypeInv, TypeOK
  <2> QED
    BY <2>1, <2>2 DEF EngineInv, Context, Recorded, Dated, Standing, Presented, OnTheWire,
       Once, InFlight, engineVars, transportVars, wireVars
<1>3. ASSUME NEW c \in Callers, Acquire(c) PROVE EngineInv'
  <2>1. /\ UNCHANGED <<engineVars, transportVars, wireVars, seen>>
        /\ gate' = c /\ pc'[c] = "held"
        /\ turn'.step \in {"pin", "standing"} /\ turn'.executed = 0
    BY <1>3 DEF Acquire, NoTurn, TypeInv, TypeOK
  <2>2. turn = NoTurn
    BY <1>3 DEF Acquire, TypeInv, GateFree
  <2>3. Context' /\ Recorded'
    BY <2>1 DEF EngineInv, Context, Recorded, Dated, engineVars, transportVars, wireVars
  <2>4. Standing' /\ Presented'
    BY <2>1 DEF EngineInv, Standing, Presented, InFlight, engineVars, transportVars,
       wireVars
  <2>5. OnTheWire' /\ Once' /\ Holder'
    BY <2>1, <2>2 DEF EngineInv, OnTheWire, Once, Holder, NoTurn, wireVars
  <2> QED
    BY <2>3, <2>4, <2>5 DEF EngineInv
<1>4. ASSUME NEW c \in Callers, KeepConnection(c) PROVE EngineInv'
  <2>1. turn'.step = "confirmed" /\ turn.step = "standing" /\ turn'.executed = turn.executed
    BY <1>4 DEF KeepConnection, Holds, GoOn, TypeInv, TypeOK, Turn
  <2>2. Context' /\ Recorded' /\ (Transport = "http" => bearer' # NoCredential)
    BY <1>4, ContextAdvances, RecordsAdvance DEF KeepConnection, EngineInv, wireVars
  <2>3. conn' = conn /\ conn.authorization = authorization' /\ conn.version # NoVersion
    BY <1>4, ContextAdvances DEF KeepConnection, Authorized, Forsaken, EngineInv, Standing
  <2>4. Standing' /\ Presented'
    BY <1>4, <2>1, <2>2, <2>3 DEF KeepConnection, EngineInv, Standing, Presented,
       InFlight, wireVars
  <2>5. OnTheWire' /\ Once' /\ Holder'
    BY <1>4, <2>1 DEF KeepConnection, EngineInv, OnTheWire, Once, Holder, wireVars
  <2> QED
    BY <2>2, <2>4, <2>5 DEF EngineInv
<1>5. ASSUME NEW c \in Callers, OpenConnection(c) PROVE EngineInv'
  <2>1. /\ turn.step = "standing" /\ turn'.step = "handshake"
        /\ turn'.authorization = AuthorizationContext /\ turn'.executed = turn.executed
    BY <1>5 DEF OpenConnection, Holds, TypeInv, TypeOK, Turn
  <2>2. Context' /\ Recorded' /\ (Transport = "http" => bearer' # NoCredential)
    BY <1>5, ContextAdvances, RecordsAdvance DEF OpenConnection, EngineInv, wireVars
  <2>3. conn'.version = conn.version /\ conn'.authorization = conn.authorization
    BY <1>5 DEF OpenConnection, Authorized, Remembered, NoConnection, TypeInv, TypeOK,
       Connection
  <2>4. Standing' /\ Presented'
    BY <1>5, <2>1, <2>2, <2>3, ContextAdvances DEF OpenConnection, EngineInv, Standing,
       Presented, InFlight, wireVars
  <2>5. OnTheWire' /\ Once' /\ Holder'
    BY <1>5, <2>1 DEF OpenConnection, EngineInv, OnTheWire, Once, Holder, wireVars
  <2> QED
    BY <2>2, <2>4, <2>5 DEF EngineInv
<1>6. ASSUME NEW c \in Callers, CannotConnect(c) PROVE EngineInv'
  <2>1. turn' = NoTurn /\ frame' = NoFrame /\ gate' = NoCaller
    BY <1>6 DEF CannotConnect, ReturnError, Return
  <2>2. Context' /\ Recorded'
    BY <1>6, ContextAdvances, RecordsAdvance DEF CannotConnect, EngineInv
  <2>3. conn'.version = conn.version /\ conn'.authorization = conn.authorization
    BY <1>6 DEF CannotConnect, Authorized, Remembered, NoConnection, TypeInv, TypeOK,
       Connection
  <2>4. Standing' /\ Presented'
    BY <1>6, <2>1, <2>3 DEF CannotConnect, EngineInv, Standing, Presented, InFlight, NoTurn
  <2>5. OnTheWire' /\ Once' /\ Holder'
    BY <2>1 DEF OnTheWire, Once, Holder, NoTurn
  <2> QED
    BY <2>2, <2>4, <2>5 DEF EngineInv
<1>7. ASSUME NEW c \in Callers, NEW v \in Versions, HandshakeSucceeds(c, v) PROVE EngineInv'
  <2>1. turn.step = "handshake" /\ turn'.step = "settled" /\ turn'.executed = turn.executed
    BY <1>7 DEF HandshakeSucceeds, Holds, GoOn, TypeInv, TypeOK, Turn
  <2>2. turn.authorization = authorization /\ authorization \in Nat
    BY <2>1 DEF EngineInv, Presented, TypeInv, TypeOK
  <2>3. /\ conn'.version = v /\ conn'.authorization = authorization /\ conn'.cred = bearer
        /\ peer'.version = v /\ peer'.authorization = authorization /\ peer'.cred = bearer
        /\ UNCHANGED <<authorization, bearer, seen, frame, pinned, gate, pc>>
    BY <1>7, <2>2 DEF HandshakeSucceeds, ContextOfHandshake
  <2>4. Context' /\ Recorded'
    BY <2>2, <2>3 DEF EngineInv, Context, Recorded, Dated
  <2>5. Standing' /\ Presented'
    BY <1>7, <2>1, <2>3 DEF HandshakeSucceeds, EngineInv, Standing, Presented, InFlight
  <2>6. OnTheWire' /\ Once' /\ Holder'
    BY <2>1, <2>3 DEF EngineInv, OnTheWire, Once, Holder
  <2> QED
    BY <2>4, <2>5, <2>6 DEF EngineInv
<1>8. ASSUME NEW c \in Callers, HandshakeFails(c) PROVE EngineInv'
  <2>1. /\ turn' = NoTurn /\ frame' = NoFrame /\ gate' = NoCaller /\ connected' = FALSE
        /\ UNCHANGED <<authorization, bearer, peer, seen>>
    BY <1>8 DEF HandshakeFails, ReturnError, Return
  <2>2. conn' = conn \/ conn' = NoConnection
    BY <1>8 DEF HandshakeFails
  <2>3. Context' /\ Recorded'
    BY <2>1, <2>2, NothingDated DEF EngineInv, Context, Recorded, Dated
  <2>4. Standing' /\ Presented'
    BY <2>1, <2>2 DEF EngineInv, Standing, Presented, InFlight, NoTurn, NoConnection
  <2>5. OnTheWire' /\ Once' /\ Holder'
    BY <2>1 DEF OnTheWire, Once, Holder, NoTurn
  <2> QED
    BY <2>3, <2>4, <2>5 DEF EngineInv
<1>9. ASSUME NEW c \in Callers, Settled(c) PROVE EngineInv'
  <2>1. /\ turn.step = "settled" /\ InFlight
        /\ UNCHANGED <<authorization, bearer, conn, peer, seen, pinned>>
    BY <1>9 DEF Settled, Holds, InFlight, transportVars
  <2>2. CASE GoOn("confirmed") /\ UNCHANGED <<gate, pc, frame>>
    BY <2>1, <2>2, EngineGoesOn
  <2>3. CASE GoOn("send") /\ UNCHANGED <<gate, pc, frame>>
    BY <2>1, <2>3, EngineGoesOn
  <2>4. CASE \E a : Return(c, a)
    BY <2>1, <2>4, EngineReturned
  <2> QED
    BY <1>9, <2>2, <2>3, <2>4 DEF Settled, ReturnError
<1>10. ASSUME NEW c \in Callers, Refuse(c) PROVE EngineInv'
  BY <1>10, EngineReturned DEF Refuse, ReturnError, engineVars, transportVars
<1>11. ASSUME NEW c \in Callers, Accept(c) PROVE EngineInv'
  BY <1>11, EngineGoesOn DEF Accept, Holds, engineVars, transportVars, wireVars
<1>12. ASSUME NEW c \in Callers, Found(c) PROVE EngineInv'
  BY <1>12, EngineReturned DEF Found, engineVars, transportVars
<1>13. ASSUME NEW c \in Callers, ReadAgain(c) PROVE EngineInv'
  <2>1. /\ turn.step = "confirmed" /\ connected' = FALSE
        /\ turn'.step = "handshake" /\ turn'.authorization = conn.authorization
        /\ turn'.executed = turn.executed
        /\ UNCHANGED <<authorization, bearer, conn, peer, seen, pinned, frame, gate, pc>>
    BY <1>13 DEF ReadAgain, Holds, transportVars, wireVars, TypeInv, TypeOK, Turn
  <2>2. Context' /\ Recorded' /\ Standing'
    BY <2>1 DEF EngineInv, Context, Recorded, Dated, Standing, InFlight
  <2>3. Presented' /\ OnTheWire' /\ Once' /\ Holder'
    BY <2>1 DEF EngineInv, Presented, InFlight, OnTheWire, Once, Holder
  <2> QED
    BY <2>2, <2>3 DEF EngineInv
<1>14. ASSUME NEW c \in Callers, Send(c) PROVE EngineInv'
  <2>1. /\ turn.step = "send" /\ turn'.step = "await" /\ turn'.executed = turn.executed
        /\ frame' = [version |-> conn.version, cred |-> bearer, executed |-> FALSE]
        /\ UNCHANGED <<authorization, bearer, conn, peer, seen, pinned, connected, gate, pc>>
    BY <1>14 DEF Send, Holds, GoOn, engineVars, transportVars, TypeInv, TypeOK, Turn
  <2>2. Context' /\ Recorded' /\ Standing' /\ Presented'
    BY <2>1 DEF EngineInv, Context, Recorded, Dated, Standing, Presented, InFlight
  <2>3. OnTheWire' /\ Once' /\ Holder'
    BY <2>1 DEF EngineInv, OnTheWire, Once, Holder
  <2> QED
    BY <2>2, <2>3 DEF EngineInv
<1>15. ASSUME NEW c \in Callers, Execute(c) PROVE EngineInv'
  <2>1. /\ turn.step = "await" /\ turn'.step = "await" /\ ~frame.executed
        /\ turn'.executed = turn.executed + 1
        /\ frame'.executed /\ frame'.version = frame.version /\ frame'.cred = frame.cred
        /\ UNCHANGED <<authorization, bearer, conn, peer, seen, pinned, connected, gate, pc>>
    BY <1>15 DEF Execute, Holds, engineVars, transportVars, TypeInv, TypeOK, Turn, Frame
  <2>2. Context' /\ Recorded' /\ Standing' /\ Presented'
    BY <2>1 DEF EngineInv, Context, Recorded, Dated, Standing, Presented, InFlight
  <2>3. OnTheWire' /\ Once' /\ Holder'
    BY <2>1 DEF EngineInv, OnTheWire, Once, Holder
  <2> QED
    BY <2>2, <2>3 DEF EngineInv
<1>16. ASSUME NEW c \in Callers, Succeed(c) PROVE EngineInv'
  BY <1>16, EngineReturned DEF Succeed, engineVars, transportVars
<1>17. ASSUME NEW c \in Callers, EndStanding(c) PROVE EngineInv'
  BY <1>17, EngineReturned DEF EndStanding, ReturnError, engineVars, transportVars
<1>18. ASSUME NEW c \in Callers, ChannelFails(c) PROVE EngineInv'
  BY <1>18, EngineReturned DEF ChannelFails, ReturnError
<1>19. ASSUME NEW c \in Callers, Expire(c) PROVE EngineInv'
  <2>1. /\ turn.step = "await" /\ ~frame.executed /\ frame' = NoFrame /\ connected' = FALSE
        /\ UNCHANGED <<authorization, bearer, peer, seen, conn, pinned>>
    BY <1>19 DEF Expire, Holds, ReturnError, Return
  <2>2. turn.executed = 0
    BY <2>1 DEF EngineInv, Once
  <2>3. turn'.step \in {"none", "standing"} /\ turn'.executed = 0
    <3>1. CASE turn' = NoTurn
      BY <3>1 DEF NoTurn
    <3>2. CASE turn' = [turn EXCEPT !.step = "standing", !.attempt = 2]
      BY <2>2, <3>2, TurnRepeats DEF TypeInv, TypeOK
    <3> QED
      BY <1>19, <3>1, <3>2 DEF Expire, ReturnError, Return
  <2>4. gate' = NoCaller \/ UNCHANGED <<gate, pc>>
    BY <1>19 DEF Expire, ReturnError, Return
  <2>5. Context' /\ Recorded'
    BY <2>1 DEF EngineInv, Context, Recorded, Dated
  <2>6. Standing' /\ Presented'
    BY <2>1, <2>3 DEF EngineInv, Standing, Presented, InFlight
  <2>7. OnTheWire' /\ Once' /\ Holder'
    BY <2>1, <2>3, <2>4 DEF EngineInv, OnTheWire, Once, Holder
  <2> QED
    BY <2>5, <2>6, <2>7 DEF EngineInv
<1>20. ASSUME NEW c \in Callers, RefuseVersion(c) PROVE EngineInv'
  <2>1. /\ turn.step = "await" /\ ~frame.executed /\ frame' = NoFrame /\ connected' = FALSE
        /\ conn' = NoConnection /\ UNCHANGED <<authorization, bearer, peer, seen, gate, pc>>
    BY <1>20 DEF RefuseVersion, Holds, transportVars
  <2>2. turn.executed = 0 /\ conn.authorization = authorization
        /\ (Transport = "http" => bearer # NoCredential)
    BY <2>1 DEF EngineInv, Once, Presented, InFlight
  <2>3. /\ turn'.step = "handshake" /\ turn'.executed = 0
        /\ turn'.authorization = authorization
    BY <1>20, <2>2 DEF RefuseVersion, TypeInv, TypeOK, Turn
  <2>4. Context' /\ Recorded'
    BY <2>1, NothingDated DEF EngineInv, Context, Recorded, Dated
  <2>5. Standing' /\ Presented'
    BY <2>1, <2>2, <2>3 DEF Standing, Presented, InFlight, NoConnection
  <2>6. OnTheWire' /\ Once' /\ Holder'
    BY <2>1, <2>3 DEF EngineInv, OnTheWire, Once, Holder
  <2> QED
    BY <2>4, <2>5, <2>6 DEF EngineInv
<1>21. ASSUME NEW c \in Callers, Pin(c) PROVE EngineInv'
  <2>1. /\ turn' = NoTurn /\ frame' = NoFrame /\ gate' = NoCaller /\ connected' = FALSE
        /\ conn' = NoConnection /\ UNCHANGED <<authorization, bearer, peer, seen>>
    BY <1>21 DEF Pin, ReturnError, Return
  <2>2. Context' /\ Recorded'
    BY <2>1, NothingDated DEF EngineInv, Context, Recorded, Dated
  <2>3. Standing' /\ Presented'
    BY <2>1 DEF Standing, Presented, InFlight, NoTurn, NoConnection
  <2>4. OnTheWire' /\ Once' /\ Holder'
    BY <2>1 DEF OnTheWire, Once, Holder, NoTurn
  <2> QED
    BY <2>2, <2>3, <2>4 DEF EngineInv
<1>22. ASSUME NEW k \in Credentials, ChangeCredential(k) PROVE EngineInv'
  BY <1>22, EngineKept DEF ChangeCredential, callerVars, engineVars, transportVars, wireVars
<1>23. ASSUME NEW d \in Closers, BeginDisconnect(d) PROVE EngineInv'
  BY <1>23, EngineKept DEF BeginDisconnect, callerVars, engineVars, transportVars, wireVars
<1>24. ASSUME NEW d \in Closers, EndDisconnect(d) PROVE EngineInv'
  BY <1>24, EngineKept DEF EndDisconnect, callerVars, engineVars, transportVars, wireVars
<1>25. ASSUME NEW r \in Readers, PeekConnection(r) PROVE EngineInv'
  <2>1. UNCHANGED <<callerVars, engineVars, transportVars, wireVars>>
        /\ seen' = [seen EXCEPT ![r] = conn]
    BY <1>25 DEF PeekConnection
  <2>2. Recorded'
    BY <2>1 DEF EngineInv, Recorded, Dated, engineVars, transportVars, wireVars, TypeInv,
       TypeOK
  <2>3. Context' /\ Standing' /\ Presented' /\ OnTheWire' /\ Once' /\ Holder'
    BY <2>1 DEF EngineInv, Context, Standing, Presented, InFlight, OnTheWire, Once,
       Holder, callerVars, engineVars, transportVars, wireVars
  <2> QED
    BY <2>2, <2>3 DEF EngineInv
<1>26. ASSUME NEW r \in Readers, PeekCredential(r) PROVE EngineInv'
  <2>1. UNCHANGED <<callerVars, engineVars, transportVars, wireVars>>
        /\ seen' = [seen EXCEPT ![r] = NoConnection]
    BY <1>26 DEF PeekCredential
  <2>2. Recorded'
    <3>1. Dated(conn)' /\ Dated(peer)'
      BY <2>1 DEF EngineInv, Recorded, Dated, engineVars, transportVars, wireVars
    <3>2. ASSUME NEW q \in Readers PROVE Dated(seen[q])'
      BY <2>1, NothingDated DEF EngineInv, Recorded, Dated, transportVars, TypeInv, TypeOK
    <3> QED
      BY <3>1, <3>2 DEF Recorded
  <2>3. Context' /\ Standing' /\ Presented' /\ OnTheWire' /\ Once' /\ Holder'
    BY <2>1 DEF EngineInv, Context, Standing, Presented, InFlight, OnTheWire, Once,
       Holder, callerVars, engineVars, transportVars, wireVars
  <2> QED
    BY <2>2, <2>3 DEF EngineInv
<1>27. ASSUME Outlive PROVE EngineInv'
  <2>1. /\ UNCHANGED <<callerVars, connected, pinned, transportVars, seen, wireVars>>
        /\ conn'.version = conn.version /\ conn'.authorization = conn.authorization
        /\ conn'.cred = conn.cred
    BY <1>27 DEF Outlive, TypeInv, TypeOK, Connection
  <2>2. Context' /\ Recorded' /\ Standing'
    BY <2>1 DEF EngineInv, Context, Recorded, Dated, Standing, InFlight, callerVars,
       transportVars, wireVars
  <2>3. Presented' /\ OnTheWire' /\ Once' /\ Holder'
    BY <2>1 DEF EngineInv, Presented, InFlight, OnTheWire, Once, Holder, callerVars,
       transportVars, wireVars
  <2> QED
    BY <2>2, <2>3 DEF EngineInv
<1>28. ASSUME UNCHANGED vars PROVE EngineInv'
  BY <1>28, EngineKept DEF vars, callerVars, engineVars, transportVars, wireVars
<1> QED
  BY <1>1, <1>2, <1>3, <1>4, <1>5, <1>6, <1>7, <1>8, <1>9, <1>10, <1>11, <1>12, <1>13,
     <1>14, <1>15, <1>16, <1>17, <1>18, <1>19, <1>20, <1>21, <1>22, <1>23, <1>24, <1>25,
     <1>26, <1>27, <1>28 DEF Next, Exchange, Environment

-----------------------------------------------------------------------------
(* Answers.                                                                 *)

LEMMA SettlingAdvances == TypeInv /\ Context /\ Authorized => Advances
BY ContextAdvances

LEMMA StandingAdvances == UNCHANGED <<authorization, bearer>> => Advances
BY DEF Advances

LEMMA SoundKept ==
    ASSUME TypeInv, Advances, UNCHANGED peer, NEW a \in Answer, Sound(a)
    PROVE  Sound(a)'
<1>1. a.authorization \in Nat
  BY DEF Answer
<1>2. Dated(a)'
  BY <1>1 DEF Advances, Sound, Dated
<1> QED
  BY <1>2 DEF Sound

LEMMA AnswersKept ==
    ASSUME TypeInv, AnswerInv, Advances, UNCHANGED <<peer, answer>>
    PROVE  AnswerInv'
<1>1. ASSUME NEW c \in Callers PROVE Sound(answer[c])'
  <2>1. answer[c] \in Answer /\ Sound(answer[c])
    BY DEF TypeInv, TypeOK, AnswerInv
  <2> DEFINE a == answer[c]
  <2>2. Sound(a)'
    <3> a' = a
      OBVIOUS
    <3> QED
      BY <2>1, SoundKept DEF Sound, Dated
  <2> QED
    BY <2>2
<1>2. ContextsDoNotMix'
  BY DEF AnswerInv, ContextsDoNotMix
<1> QED
  BY <1>1, <1>2 DEF AnswerInv

\* A new answer belongs to the current context and the last connection.
Latest(a) == a.authorization = authorization /\ a.generation = peer.generation

LEMMA AnswerGiven ==
    ASSUME TypeInv, AnswerInv, Advances, UNCHANGED peer,
           NEW c \in Callers, NEW a \in Answer,
           answer' = [answer EXCEPT ![c] = a],
           Sound(a)', a = NoAnswer \/ Latest(a)'
    PROVE  AnswerInv'
<1>1. \A d \in Callers : answer[d] \in Answer /\ answer'[d] = IF d = c THEN a ELSE answer[d]
  BY DEF TypeInv, TypeOK
<1>2. \A d \in Callers : Sound(answer[d])
  BY DEF AnswerInv
<1>3. \A b \in Answer : Sound(b) => Sound(b)'
  BY SoundKept
<1>4. \A d \in Callers : Sound(answer[d])'
  <2>1. ASSUME NEW d \in Callers PROVE Sound(answer[d])'
    <3>1. CASE d = c
      BY <1>1, <3>1 DEF Sound, Dated
    <3>2. CASE d # c
      <4>1. Sound(answer[d]) /\ answer[d] \in Answer /\ answer'[d] = answer[d]
        BY <1>1, <1>2, <3>2
      <4> QED
        BY <4>1, <1>3 DEF Sound, Dated
    <3> QED
      BY <3>1, <3>2
  <2> QED
    BY <2>1
<1>5. ASSUME NEW d \in Callers, NEW e \in Callers, answer'[d] # NoAnswer, answer'[e] # NoAnswer
      PROVE  /\ answer'[d].authorization = answer'[e].authorization
                   => answer'[d].cred = answer'[e].cred
             /\ answer'[d].generation = answer'[e].generation
                   => answer'[d].authorization = answer'[e].authorization
  <2>1. CASE d # c /\ e # c
    BY <1>1, <1>5, <2>1 DEF AnswerInv, ContextsDoNotMix
  <2>2. CASE d = c \/ e = c
    <3>1. Latest(a)'
      BY <1>1, <1>5, <2>2
    <3>2. Sound(answer[d])' /\ Sound(answer[e])'
      BY <1>4
    <3> QED
      BY <1>1, <1>5, <2>2, <3>1, <3>2 DEF Latest, Sound, Dated
  <2> QED
    BY <2>1, <2>2
<1> QED
  BY <1>4, <1>5 DEF AnswerInv, ContextsDoNotMix

LEMMA ErrorGiven ==
    ASSUME TypeInv, TypeInv', Context', AnswerInv, Advances, UNCHANGED peer,
           NEW c \in Callers, ReturnError(c)
    PROVE  AnswerInv'
<1>1. NoAnswer \in Answer /\ answer' = [answer EXCEPT ![c] = NoAnswer]
  BY BoundsAssumption DEF NoAnswer, Answer, ReturnError, Return
<1>2. Sound(NoAnswer)'
  BY DEF Sound, Dated, NoAnswer, Context, TypeInv, TypeOK, Peer
<1> QED
  BY <1>1, <1>2, AnswerGiven

\* What a successful exchange reports is of the connection it travelled over.
LEMMA AnsweredSound ==
    ASSUME TypeInv, EngineInv, turn.step \in {"settled", "confirmed", "await"},
           NEW g \in 0..MaxGeneration, g = peer.generation,
           NEW a, a = [Answered EXCEPT !.generation = g]
    PROVE  a \in Answer /\ Sound(a) /\ Latest(a)
<1>1. a \in Answer
  BY DEF Answered, Answer, TypeInv, TypeOK, Peer, Connection, Frame
<1>2. /\ a.generation = peer.generation /\ a.settledBy = peer.generation
      /\ a.authorization = conn.authorization
      /\ a.cred = IF frame = NoFrame THEN bearer ELSE frame.cred
  BY DEF Answered
<1>3. conn.authorization = authorization /\ conn.authorization = peer.authorization
  BY DEF EngineInv, Presented, Standing, InFlight
<1>4. a.cred = bearer
  BY <1>2 DEF EngineInv, OnTheWire
<1>5. Transport = "http" => authorization # 0
  BY DEF EngineInv, Presented, Context, InFlight
<1>6. peer.generation \in Nat /\ authorization \in Nat
  BY DEF TypeInv, TypeOK, Peer
<1> QED
  BY <1>1, <1>2, <1>3, <1>4, <1>5, <1>6 DEF Sound, Dated, Latest

LEMMA ReplyGiven ==
    ASSUME TypeInv, EngineInv, AnswerInv, turn.step \in {"settled", "confirmed", "await"},
           UNCHANGED <<authorization, bearer, peer>>, NEW c \in Callers,
           NEW g \in 0..MaxGeneration, g = peer.generation,
           Return(c, [Answered EXCEPT !.generation = g])
    PROVE  AnswerInv'
<1> DEFINE a == [Answered EXCEPT !.generation = g]
<1>1. a \in Answer /\ Sound(a) /\ Latest(a)
  BY AnsweredSound
<1>2. answer' = [answer EXCEPT ![c] = a]
  BY DEF Return
<1>3. Advances
  BY StandingAdvances
<1> HIDE DEF a
<1>4. PICK b \in Answer : b = a
  BY <1>1
<1>5. Sound(b)' /\ Latest(b)'
  BY <1>1, <1>4 DEF Sound, Dated, Latest
<1> QED
  BY <1>2, <1>3, <1>4, <1>5, AnswerGiven

LEMMA AnsweredNow ==
    ASSUME TypeInv
    PROVE  Answered = [Answered EXCEPT !.generation = generation]
BY DEF Answered

LEMMA AnswerStep ==
    TypeInv /\ TypeInv' /\ EngineInv /\ EngineInv' /\ AnswerInv /\ [Next]_vars => AnswerInv'
<1> SUFFICES ASSUME TypeInv, TypeInv', EngineInv, EngineInv', AnswerInv, [Next]_vars
             PROVE  AnswerInv'
  OBVIOUS
<1>0. Context /\ Context'
  BY DEF EngineInv
<1>1. ASSUME NEW c \in Callers, Ask(c) PROVE AnswerInv'
  BY <1>1, StandingAdvances, AnswersKept DEF Ask, callerVars, engineVars, transportVars,
     wireVars
<1>2. ASSUME NEW c \in Callers, GiveUp(c) PROVE AnswerInv'
  BY <1>2, StandingAdvances, AnswersKept DEF GiveUp, callerVars, engineVars,
     transportVars, wireVars
<1>3. ASSUME NEW c \in Callers, Acquire(c) PROVE AnswerInv'
  BY <1>3, StandingAdvances, AnswersKept DEF Acquire, callerVars, engineVars,
     transportVars, wireVars
<1>4. ASSUME NEW c \in Callers, KeepConnection(c) PROVE AnswerInv'
  BY <1>0, <1>4, SettlingAdvances, AnswersKept DEF KeepConnection, wireVars
<1>5. ASSUME NEW c \in Callers, OpenConnection(c) PROVE AnswerInv'
  BY <1>0, <1>5, SettlingAdvances, AnswersKept DEF OpenConnection, wireVars
<1>6. ASSUME NEW c \in Callers, CannotConnect(c) PROVE AnswerInv'
  BY <1>0, <1>6, SettlingAdvances, ErrorGiven DEF CannotConnect
<1>7. ASSUME NEW c \in Callers, NEW v \in Versions, HandshakeSucceeds(c, v) PROVE AnswerInv'
  <2>1. /\ UNCHANGED <<answer, authorization, bearer>>
        /\ peer'.generation = peer.generation + 1
    BY <1>7 DEF HandshakeSucceeds
  <2>2. ASSUME NEW d \in Callers PROVE Sound(answer[d])'
    <3>1. Sound(answer[d]) /\ answer[d] \in Answer /\ peer.generation \in Nat
      BY DEF AnswerInv, TypeInv, TypeOK, Peer
    <3> QED
      BY <2>1, <3>1 DEF Sound, Dated, Answer
  <2> QED
    BY <2>1, <2>2 DEF AnswerInv, ContextsDoNotMix
<1>8. ASSUME NEW c \in Callers, HandshakeFails(c) PROVE AnswerInv'
  BY <1>0, <1>8, StandingAdvances, ErrorGiven DEF HandshakeFails, transportVars
<1>9. ASSUME NEW c \in Callers, Settled(c) PROVE AnswerInv'
  <2>1. turn.step = "settled" /\ UNCHANGED <<authorization, bearer, peer>>
    BY <1>9 DEF Settled, Holds, transportVars
  <2>2. generation' \in 0..MaxGeneration /\ generation' = peer.generation
    BY <1>9, <2>1 DEF Settled, CountOfHandshakes, TypeInv, TypeOK, Counted
  <2>3. CASE UNCHANGED answer
    BY <2>1, <2>3, StandingAdvances, AnswersKept
  <2>4. CASE Return(c, [Answered EXCEPT !.generation = generation'])
    BY <2>1, <2>2, <2>4, ReplyGiven
  <2>5. CASE ReturnError(c)
    BY <1>0, <2>1, <2>5, StandingAdvances, ErrorGiven
  <2> QED
    BY <1>9, <2>3, <2>4, <2>5 DEF Settled
<1>10. ASSUME NEW c \in Callers, Refuse(c) PROVE AnswerInv'
  BY <1>0, <1>10, StandingAdvances, ErrorGiven DEF Refuse, transportVars
<1>11. ASSUME NEW c \in Callers, Accept(c) PROVE AnswerInv'
  BY <1>11, StandingAdvances, AnswersKept DEF Accept, callerVars, engineVars,
     transportVars, wireVars
<1>12. ASSUME NEW c \in Callers, Found(c) PROVE AnswerInv'
  <2>1. turn.step \in {"confirmed", "await"} /\ UNCHANGED <<authorization, bearer, peer>>
        /\ Return(c, Answered)
    BY <1>12 DEF Found, Holds, transportVars
  <2>2. generation \in 0..MaxGeneration /\ generation = peer.generation
    BY <2>1 DEF TypeInv, TypeOK, Counted
  <2>3. Return(c, [Answered EXCEPT !.generation = generation])
    BY <2>1, AnsweredNow
  <2> QED
    BY <2>1, <2>2, <2>3, ReplyGiven
<1>13. ASSUME NEW c \in Callers, ReadAgain(c) PROVE AnswerInv'
  BY <1>13, StandingAdvances, AnswersKept DEF ReadAgain, callerVars, engineVars,
     transportVars, wireVars
<1>14. ASSUME NEW c \in Callers, Send(c) PROVE AnswerInv'
  BY <1>14, StandingAdvances, AnswersKept DEF Send, callerVars, engineVars, transportVars,
     wireVars
<1>15. ASSUME NEW c \in Callers, Execute(c) PROVE AnswerInv'
  BY <1>15, StandingAdvances, AnswersKept DEF Execute, callerVars, engineVars,
     transportVars, wireVars
<1>16. ASSUME NEW c \in Callers, Succeed(c) PROVE AnswerInv'
  <2>1. turn.step \in {"confirmed", "await"} /\ UNCHANGED <<authorization, bearer, peer>>
        /\ Return(c, Answered)
    BY <1>16 DEF Succeed, Holds, transportVars
  <2>2. generation \in 0..MaxGeneration /\ generation = peer.generation
    BY <2>1 DEF TypeInv, TypeOK, Counted
  <2>3. Return(c, [Answered EXCEPT !.generation = generation])
    BY <2>1, AnsweredNow
  <2> QED
    BY <2>1, <2>2, <2>3, ReplyGiven
<1>17. ASSUME NEW c \in Callers, EndStanding(c) PROVE AnswerInv'
  BY <1>0, <1>17, StandingAdvances, ErrorGiven DEF EndStanding, transportVars
<1>18. ASSUME NEW c \in Callers, ChannelFails(c) PROVE AnswerInv'
  BY <1>0, <1>18, StandingAdvances, ErrorGiven DEF ChannelFails, transportVars
<1>19. ASSUME NEW c \in Callers, Expire(c) PROVE AnswerInv'
  <2>1. UNCHANGED <<authorization, bearer, peer>>
    BY <1>19 DEF Expire
  <2>2. CASE UNCHANGED answer
    BY <2>1, <2>2, StandingAdvances, AnswersKept
  <2>3. CASE ReturnError(c)
    BY <1>0, <2>1, <2>3, StandingAdvances, ErrorGiven
  <2> QED
    BY <1>19, <2>2, <2>3 DEF Expire
<1>20. ASSUME NEW c \in Callers, RefuseVersion(c) PROVE AnswerInv'
  BY <1>20, StandingAdvances, AnswersKept DEF RefuseVersion, callerVars, engineVars,
     transportVars, wireVars
<1>21. ASSUME NEW c \in Callers, Pin(c) PROVE AnswerInv'
  BY <1>0, <1>21, StandingAdvances, ErrorGiven DEF Pin, transportVars
<1>22. ASSUME NEW k \in Credentials, ChangeCredential(k) PROVE AnswerInv'
  BY <1>22, StandingAdvances, AnswersKept DEF ChangeCredential, callerVars, engineVars,
     transportVars, wireVars
<1>23. ASSUME NEW d \in Closers, BeginDisconnect(d) PROVE AnswerInv'
  BY <1>23, StandingAdvances, AnswersKept DEF BeginDisconnect, callerVars, engineVars,
     transportVars, wireVars
<1>24. ASSUME NEW d \in Closers, EndDisconnect(d) PROVE AnswerInv'
  BY <1>24, StandingAdvances, AnswersKept DEF EndDisconnect, callerVars, engineVars,
     transportVars, wireVars
<1>25. ASSUME NEW r \in Readers, PeekConnection(r) PROVE AnswerInv'
  BY <1>25, StandingAdvances, AnswersKept DEF PeekConnection, callerVars, engineVars,
     transportVars, wireVars
<1>26. ASSUME NEW r \in Readers, PeekCredential(r) PROVE AnswerInv'
  BY <1>26, StandingAdvances, AnswersKept DEF PeekCredential, callerVars, engineVars,
     transportVars, wireVars
<1>27. ASSUME Outlive PROVE AnswerInv'
  BY <1>27, StandingAdvances, AnswersKept DEF Outlive, callerVars, engineVars,
     transportVars, wireVars
<1>28. ASSUME UNCHANGED vars PROVE AnswerInv'
  BY <1>28, StandingAdvances, AnswersKept DEF vars, callerVars, engineVars, transportVars,
     wireVars
<1> QED
  BY <1>1, <1>2, <1>3, <1>4, <1>5, <1>6, <1>7, <1>8, <1>9, <1>10, <1>11, <1>12, <1>13,
     <1>14, <1>15, <1>16, <1>17, <1>18, <1>19, <1>20, <1>21, <1>22, <1>23, <1>24, <1>25,
     <1>26, <1>27, <1>28 DEF Next, Exchange, Environment

-----------------------------------------------------------------------------
(* What a request carries.                                                  *)

LEMMA CursorReturned ==
    ASSUME TypeInv, CursorInv, NEW c \in Callers, NEW a, Return(c, a)
    PROVE  CursorInv'
BY DEF Return, CursorInv, TypeInv, TypeOK

\* While nothing is committed nothing is required of the credential.
LEMMA CursorUncommitted ==
    ASSUME CursorInv, UNCHANGED <<insisting, answer>>, ~Committed'
    PROVE  CursorInv'
BY DEF CursorInv

LEMMA CursorCommitted ==
    ASSUME CursorInv, UNCHANGED <<insisting, answer, gate, bearer>>, Committed' => Committed
    PROVE  CursorInv'
BY DEF CursorInv

LEMMA CursorStep ==
    TypeInv /\ TypeInv' /\ EngineInv /\ AnswerInv /\ CursorInv /\ [Next]_vars => CursorInv'
<1> SUFFICES ASSUME TypeInv, TypeInv', EngineInv, AnswerInv, CursorInv, [Next]_vars
             PROVE  CursorInv'
  OBVIOUS
<1>1. ASSUME NEW c \in Callers, Ask(c) PROVE CursorInv'
  <2>1. gate # c
    BY <1>1 DEF Ask, EngineInv, Holder
  <2> QED
    BY <1>1, <2>1 DEF Ask, CursorInv, Committed, transportVars, TypeInv, TypeOK
<1>2. ASSUME NEW c \in Callers, GiveUp(c) PROVE CursorInv'
  BY <1>2 DEF GiveUp, CursorInv, Committed, transportVars, TypeInv, TypeOK
<1>3. ASSUME NEW c \in Callers, Acquire(c) PROVE CursorInv'
  BY <1>3, CursorUncommitted DEF Acquire, GoOn, NoTurn, Committed, TypeInv, TypeOK, Turn
<1>4. ASSUME NEW c \in Callers, KeepConnection(c) PROVE CursorInv'
  BY <1>4, CursorUncommitted DEF KeepConnection, GoOn, NoTurn, Committed, TypeInv, TypeOK,
     Turn
<1>5. ASSUME NEW c \in Callers, OpenConnection(c) PROVE CursorInv'
  BY <1>5, CursorUncommitted DEF OpenConnection, GoOn, NoTurn, Committed, TypeInv, TypeOK,
     Turn
<1>6. ASSUME NEW c \in Callers, CannotConnect(c) PROVE CursorInv'
  BY <1>6, CursorReturned DEF CannotConnect, ReturnError
<1>7. ASSUME NEW c \in Callers, NEW v \in Versions, HandshakeSucceeds(c, v) PROVE CursorInv'
  BY <1>7, CursorCommitted DEF HandshakeSucceeds, Holds, GoOn, Committed, TypeInv, TypeOK,
     Turn, callerVars, engineVars, transportVars, wireVars
<1>8. ASSUME NEW c \in Callers, HandshakeFails(c) PROVE CursorInv'
  BY <1>8, CursorReturned DEF HandshakeFails, ReturnError
<1>9. ASSUME NEW c \in Callers, Settled(c) PROVE CursorInv'
  <2>1. turn.step = "settled" /\ UNCHANGED bearer
    BY <1>9 DEF Settled, Holds, transportVars
  <2>2. CASE turn.after = "first" /\ GoOn("confirmed") /\ UNCHANGED <<insisting, answer>>
    BY <2>2, CursorUncommitted DEF GoOn, Committed, TypeInv, TypeOK, Turn
  <2>3. CASE turn.after = "refused" /\ GoOn("send") /\ UNCHANGED <<gate, insisting, answer>>
    BY <2>1, <2>3, CursorCommitted DEF Committed
  <2>4. CASE Return(c, [Answered EXCEPT !.generation = generation'])
    BY <2>4, CursorReturned
  <2>5. CASE ReturnError(c)
    BY <2>5, CursorReturned DEF ReturnError
  <2> QED
    BY <1>9, <2>2, <2>3, <2>4, <2>5 DEF Settled
<1>10. ASSUME NEW c \in Callers, Refuse(c) PROVE CursorInv'
  BY <1>10, CursorReturned DEF Refuse, ReturnError
<1>11. ASSUME NEW c \in Callers, Accept(c) PROVE CursorInv'
  <2>1. /\ gate = c /\ turn.step = "confirmed"
        /\ UNCHANGED <<insisting, answer, gate, bearer, authorization>>
        /\ insisting[c] => answer[c].authorization \in {0, conn.authorization}
    BY <1>11 DEF Accept, Holds, transportVars
  <2>2. conn.authorization = authorization
    BY <2>1 DEF EngineInv, Presented, InFlight
  <2>3. ASSUME insisting[c] PROVE answer[c].cred = bearer
    BY <2>1, <2>2, <2>3 DEF CursorInv, AnswerInv, Sound, Dated, EngineInv, Context
  <2> QED
    BY <2>1, <2>3 DEF CursorInv
<1>12. ASSUME NEW c \in Callers, Found(c) PROVE CursorInv'
  BY <1>12, CursorReturned DEF Found
<1>13. ASSUME NEW c \in Callers, ReadAgain(c) PROVE CursorInv'
  BY <1>13, CursorUncommitted DEF ReadAgain, GoOn, NoTurn, Committed, TypeInv, TypeOK, Turn
<1>14. ASSUME NEW c \in Callers, Send(c) PROVE CursorInv'
  BY <1>14, CursorCommitted DEF Send, Holds, GoOn, Committed, TypeInv, TypeOK, Turn,
     callerVars, engineVars, transportVars, wireVars
<1>15. ASSUME NEW c \in Callers, Execute(c) PROVE CursorInv'
  BY <1>15, CursorCommitted DEF Execute, Holds, GoOn, Committed, TypeInv, TypeOK, Turn,
     callerVars, engineVars, transportVars, wireVars
<1>16. ASSUME NEW c \in Callers, Succeed(c) PROVE CursorInv'
  BY <1>16, CursorReturned DEF Succeed
<1>17. ASSUME NEW c \in Callers, EndStanding(c) PROVE CursorInv'
  BY <1>17, CursorReturned DEF EndStanding, ReturnError
<1>18. ASSUME NEW c \in Callers, ChannelFails(c) PROVE CursorInv'
  BY <1>18, CursorReturned DEF ChannelFails, ReturnError
<1>19. ASSUME NEW c \in Callers, Expire(c) PROVE CursorInv'
  <2>1. CASE turn' = [turn EXCEPT !.step = "standing", !.attempt = 2]
             /\ UNCHANGED <<insisting, answer>>
    BY <2>1, TurnRepeats, CursorUncommitted DEF Committed, TypeInv, TypeOK
  <2>2. CASE ReturnError(c)
    BY <2>2, CursorReturned DEF ReturnError
  <2> QED
    BY <1>19, <2>1, <2>2 DEF Expire
<1>20. ASSUME NEW c \in Callers, RefuseVersion(c) PROVE CursorInv'
  BY <1>20, CursorCommitted DEF RefuseVersion, Holds, GoOn, Committed, TypeInv, TypeOK,
     Turn, callerVars, engineVars, transportVars, wireVars
<1>21. ASSUME NEW c \in Callers, Pin(c) PROVE CursorInv'
  BY <1>21, CursorReturned DEF Pin, ReturnError
<1>22. ASSUME NEW k \in Credentials, ChangeCredential(k) PROVE CursorInv'
  BY <1>22, CursorCommitted DEF ChangeCredential, Committed, callerVars, engineVars,
     transportVars, wireVars
<1>23. ASSUME NEW d \in Closers, BeginDisconnect(d) PROVE CursorInv'
  BY <1>23, CursorCommitted DEF BeginDisconnect, Committed, callerVars, engineVars,
     transportVars, wireVars
<1>24. ASSUME NEW d \in Closers, EndDisconnect(d) PROVE CursorInv'
  BY <1>24, CursorCommitted DEF EndDisconnect, Committed, callerVars, engineVars,
     transportVars, wireVars
<1>25. ASSUME NEW r \in Readers, PeekConnection(r) PROVE CursorInv'
  BY <1>25, CursorCommitted DEF PeekConnection, Committed, callerVars, engineVars,
     transportVars, wireVars
<1>26. ASSUME NEW r \in Readers, PeekCredential(r) PROVE CursorInv'
  BY <1>26, CursorCommitted DEF PeekCredential, Committed, callerVars, engineVars,
     transportVars, wireVars
<1>27. ASSUME Outlive PROVE CursorInv'
  BY <1>27, CursorCommitted DEF Outlive, Committed, callerVars, engineVars, transportVars,
     wireVars
<1>28. ASSUME UNCHANGED vars PROVE CursorInv'
  BY <1>28, CursorCommitted DEF vars, Committed, callerVars, engineVars, transportVars,
     wireVars
<1> QED
  BY <1>1, <1>2, <1>3, <1>4, <1>5, <1>6, <1>7, <1>8, <1>9, <1>10, <1>11, <1>12, <1>13,
     <1>14, <1>15, <1>16, <1>17, <1>18, <1>19, <1>20, <1>21, <1>22, <1>23, <1>24, <1>25,
     <1>26, <1>27, <1>28 DEF Next, Exchange, Environment

-----------------------------------------------------------------------------
(* The theorems.                                                            *)

LEMMA SafeInit == Init => SafeInv
<1> SUFFICES ASSUME Init PROVE SafeInv
  OBVIOUS
<1>1. TypeInv
  BY TypeInit
<1>2. EngineInv
  BY DEF Init, EngineInv, Context, Recorded, Dated, Standing, Presented, OnTheWire, Once,
     Holder, InFlight, NoConnection, NoPeer, NoTurn
<1>3. AnswerInv
  BY DEF Init, AnswerInv, ContextsDoNotMix, Sound, Dated, NoAnswer
<1>4. CursorInv
  BY DEF Init, CursorInv
<1> QED
  BY <1>1, <1>2, <1>3, <1>4 DEF SafeInv

LEMMA SafeStep == SafeInv /\ [Next]_vars => SafeInv'
BY TypeStep, EngineStep, AnswerStep, CursorStep DEF SafeInv

LEMMA Safe == Spec => []SafeInv
BY SafeInit, SafeStep, PTL DEF Spec

\* Whatever handshakes are repeated, renegotiated or abandoned around a
\* request, its answer is stamped with the connection it travelled over
\* (exchangeFor, answered).
THEOREM AnswersNameTheirConnection == Spec => []AnswerNamesItsConnection
<1>1. SafeInv => AnswerNamesItsConnection
  BY DEF SafeInv, AnswerInv, Sound, AnswerNamesItsConnection
<1> QED
  BY Safe, <1>1, PTL

\* One authorization context is one credential, and one connection is one
\* authorization context, however many callers and credentials take turns
\* (SettleAuthorization, forsake).
THEOREM ContextsAreKeptApart == Spec => []ContextsDoNotMix
<1>1. SafeInv => ContextsDoNotMix
  BY DEF SafeInv, AnswerInv
<1> QED
  BY Safe, <1>1, PTL

\* What the server handed to one caller goes back to it only under the
\* credential it was handed to, on a repeat as well (terms, exchangeFor).
THEOREM CursorsStay == Spec => []CursorStaysInContext
<1>1. SafeInv => CursorStaysInContext
  BY DEF SafeInv, CursorInv, Committed, EngineInv, OnTheWire, CursorStaysInContext, Holds
<1> QED
  BY Safe, <1>1, PTL

\* A frame on the wire is at the version, and under the credential, of the last
\* handshake the server completed (connectLocked, attempt).
THEOREM FramesFit == Spec => []FrameFitsHandshake
<1>1. ASSUME SafeInv PROVE FrameFitsHandshake
  BY <1>1 DEF SafeInv, EngineInv, Standing, Recorded, Dated, Presented, InFlight,
     OnTheWire, FrameFitsHandshake
<1> QED
  BY Safe, <1>1, PTL

\* A pinned version is the only one that is spoken (pinProtocolVersion).
THEOREM PinsHold == Spec => []PinHolds
<1>1. SafeInv => PinHolds
  BY DEF SafeInv, EngineInv, Standing, InFlight, OnTheWire, PinHolds
<1> QED
  BY Safe, <1>1, PTL

\* Putting a request on the wire again never has it carried out again
\* (exchangeFor).
THEOREM CarriedOutOnce == Spec => []ExecutedAtMostOnce
<1>1. SafeInv => ExecutedAtMostOnce
  BY DEF SafeInv, EngineInv, Once, ExecutedAtMostOnce
<1> QED
  BY Safe, <1>1, PTL

\* What a handshake stated is shown to nobody but the credential it was stated
\* to, although the reader takes two steps (presentable).
THEOREM ShownToOwners == Spec => []ShownToItsOwner
<1>1. ASSUME SafeInv, Transport = "http", NEW r \in Readers, Presentable(r)
      PROVE  seen[r].cred = cred
  <2>1. /\ seen[r].authorization \in Nat /\ authorization \in Nat
        /\ Dated(seen[r]) /\ seen[r].authorization = AuthorizationContext
    BY <1>1 DEF SafeInv, EngineInv, Recorded, Presentable, TypeInv, TypeOK, Connection
  <2> QED
    BY <1>1, <2>1 DEF Dated, AuthorizationContext
<1>2. SafeInv => ShownToItsOwner
  BY <1>1 DEF ShownToItsOwner
<1> QED
  BY Safe, <1>2, PTL


(* ---------------- the engine implements Exchanges ---------------- *)

\* What the layers above see of the engine: the link the server settled last,
\* and the one the exchange goes over.
PeerLink == [generation |-> peer.generation, authorization |-> peer.authorization,
             cred |-> peer.cred]
NoPeerLink == [generation |-> 0, authorization |-> 0, cred |-> NoCredential]
Over == IF InFlight THEN PeerLink ELSE NoPeerLink
Settles == turn.step = "handshake" \/ InFlight
Reported(c) == IF gate = c THEN NoPeerLink
               ELSE [generation |-> answer[c].generation,
                     authorization |-> answer[c].authorization, cred |-> answer[c].cred]
Reports == [c \in Callers |-> Reported(c)]

\* What an exchange reports is the link it went over.
LEMMA AnsweredOver ==
    ASSUME SafeInv, InFlight, turn.step # "settled"
    PROVE  /\ Answered.generation = peer.generation
           /\ Answered.authorization = peer.authorization
           /\ Answered.cred = peer.cred
<1>1. conn.authorization = authorization /\ conn.version # NoVersion
  BY DEF SafeInv, EngineInv, Presented, Standing
<1>2. peer.authorization = authorization /\ peer.cred = bearer
  BY <1>1 DEF SafeInv, EngineInv, Standing, Recorded, Dated
<1>3. generation = peer.generation
  BY DEF SafeInv, TypeInv, Counted
<1>4. frame = NoFrame \/ frame.cred = bearer
  BY DEF SafeInv, EngineInv, OnTheWire
<1> QED
  BY <1>1, <1>2, <1>3, <1>4 DEF Answered

\* A link a handshake settled is not the link nothing travels over.
Completed == peer.version # NoVersion => peer.generation # 0

LEMMA CompletedStep == TypeInv /\ Completed /\ [Next]_vars => Completed'
<1> SUFFICES ASSUME TypeInv, Completed, [Next]_vars PROVE Completed'
  OBVIOUS
<1>1. peer.generation \in Nat
  BY DEF TypeInv, TypeOK, Peer
<1>2. CASE peer' = peer
  BY <1>2 DEF Completed
<1>3. ASSUME NEW c \in Callers, NEW v \in Versions, HandshakeSucceeds(c, v)
      PROVE  Completed'
  BY <1>1, <1>3 DEF Completed, HandshakeSucceeds
<1>4. ASSUME NEW c \in Callers, Ask(c) \/ GiveUp(c) \/ Acquire(c) PROVE peer' = peer
  BY <1>4 DEF Ask, GiveUp, Acquire, wireVars
<1>5. ASSUME NEW c \in Callers, Exchange(c), ~ \E v \in Versions : HandshakeSucceeds(c, v)
      PROVE  peer' = peer
  BY <1>5 DEF Exchange, KeepConnection, OpenConnection, CannotConnect, HandshakeFails,
     Settled, Refuse, Accept, Found, ReadAgain, Send, Execute, Succeed, EndStanding,
     ChannelFails, Expire, RefuseVersion, Pin, wireVars
<1>6. ASSUME Environment PROVE peer' = peer
  BY <1>6 DEF Environment, ChangeCredential, BeginDisconnect, EndDisconnect,
     PeekConnection, PeekCredential, Outlive, wireVars
<1>7. ASSUME UNCHANGED vars PROVE peer' = peer
  BY <1>7 DEF vars, wireVars
<1> QED
  BY <1>2, <1>3, <1>4, <1>5, <1>6, <1>7 DEF Next

LEMMA OverSettled == ASSUME SafeInv, Completed, InFlight PROVE PeerLink # NoPeerLink
<1>1. peer.version # NoVersion
  BY DEF SafeInv, EngineInv, Standing
<1> QED
  BY <1>1 DEF PeerLink, NoPeerLink, Completed

\* The steps of Exchanges, in terms of the engine's state.
LEMMA StepPresents ==
    ASSUME NEW k \in Credentials, authorization < MaxAuthorization, k # cred, cred' = k,
           UNCHANGED <<bearer, authorization, gate, Settles, PeerLink, Over, Reports>>
    PROVE  Promise!ExchangesNext
<1>1. Promise!Present(k)
  BY DEF Promise!Present, Settles, PeerLink, NoPeerLink, Over, InFlight, Reports, Reported
<1> QED
  BY <1>1 DEF Promise!ExchangesNext

LEMMA StepTakes ==
    ASSUME NEW c \in Callers, gate = NoCaller, gate' = c, ~Settles',
           Reports' = [Reports EXCEPT ![c] = NoPeerLink],
           UNCHANGED <<cred, bearer, authorization, PeerLink, Over>>
    PROVE  Promise!ExchangesNext
<1>1. Promise!Take(c)
  BY DEF Promise!Take, Promise!NoLink, Settles, PeerLink, NoPeerLink, Over, InFlight,
     Reports, Reported
<1> QED
  BY <1>1 DEF Promise!ExchangesNext

LEMMA StepAuthorizes ==
    ASSUME NEW c \in Callers, gate = c, ~Settles, Settles', SettleAuthorization,
           \/ Over' = NoPeerLink
           \/ Over' = PeerLink /\ PeerLink.authorization = authorization',
           UNCHANGED <<cred, gate, PeerLink, Reports>>
    PROVE  Promise!ExchangesNext
<1>1. Promise!Authorize(c)
  BY DEF Promise!Authorize, Promise!NoLink, Promise!SettleCredential, Promise!ContextNow,
     SettleAuthorization, AuthorizationContext, Settles, PeerLink, NoPeerLink, Over,
     InFlight, Reports, Reported
<1> QED
  BY <1>1 DEF Promise!ExchangesNext

LEMMA StepSettles ==
    ASSUME NEW c \in Callers, gate = c, Settles, Settles', Over = NoPeerLink,
           peer.generation < MaxGeneration,
           PeerLink' = [generation |-> peer.generation + 1,
                        authorization |-> authorization, cred |-> bearer],
           Over' = PeerLink',
           UNCHANGED <<cred, bearer, authorization, gate, Reports>>
    PROVE  Promise!ExchangesNext
<1>1. Promise!Settle(c)
  BY DEF Promise!Settle, Promise!NoLink, Settles, PeerLink, NoPeerLink, Over, InFlight,
     Reports, Reported
<1> QED
  BY <1>1 DEF Promise!ExchangesNext

LEMMA StepLoses ==
    ASSUME NEW c \in Callers, gate = c, Over # NoPeerLink, Over' = NoPeerLink,
           (Settles' <=> Settles) \/ ~Settles',
           UNCHANGED <<cred, bearer, authorization, gate, PeerLink, Reports>>
    PROVE  Promise!ExchangesNext
<1> DEFINE Ready == turn.step \in {"handshake", "settled", "confirmed", "send", "await"}
<1>1. Ready' = Ready \/ Ready' = FALSE
  BY DEF Settles, InFlight
<1>2. Ready' \in {Ready, FALSE}
  BY ONLY <1>1
<1> HIDE DEF Ready
<1>3. Promise!Lose(c)
  BY <1>2 DEF Ready, Promise!Lose, Promise!NoLink, PeerLink, NoPeerLink, Over, InFlight,
     Reports, Reported
<1> QED
  BY <1>3 DEF Promise!ExchangesNext

LEMMA StepReplies ==
    ASSUME NEW c \in Callers, gate = c, Over # NoPeerLink, Over' = NoPeerLink,
           Reports' = [Reports EXCEPT ![c] = Over], gate' = NoCaller, ~Settles',
           UNCHANGED <<cred, bearer, authorization, PeerLink>>
    PROVE  Promise!ExchangesNext
<1>1. Promise!Reply(c)
  BY DEF Promise!Reply, Promise!NoLink, Settles, PeerLink, NoPeerLink, Over, InFlight,
     Reports, Reported
<1> QED
  BY <1>1 DEF Promise!ExchangesNext

LEMMA StepFails ==
    ASSUME NEW c \in Callers, gate = c, UNCHANGED <<bearer, authorization>> \/ SettleAuthorization,
           Over' = NoPeerLink, gate' = NoCaller, ~Settles',
           UNCHANGED <<cred, PeerLink, Reports>>
    PROVE  Promise!ExchangesNext
<1>1. Promise!Fail(c)
  BY DEF Promise!Fail, Promise!NoLink, Promise!SettleCredential, Promise!ContextNow,
     SettleAuthorization, AuthorizationContext, Settles, PeerLink, NoPeerLink, Over,
     InFlight, Reports, Reported
<1> QED
  BY <1>1 DEF Promise!ExchangesNext

LEMMA StepStutters ==
    ASSUME UNCHANGED <<cred, bearer, authorization, gate, Settles, PeerLink, Over, Reports>>
    PROVE  UNCHANGED Promise!exchangeVars
BY DEF Promise!exchangeVars, Settles, PeerLink, NoPeerLink, Over, InFlight, Reports, Reported

\* An exchange that goes on is told of nothing yet.
LEMMA ReportsKept ==
    ASSUME UNCHANGED <<gate, answer, peer>>
    PROVE  UNCHANGED <<Reports, PeerLink>>
BY DEF Reports, Reported, PeerLink

LEMMA ErrorReported ==
    ASSUME SafeInv, NEW c \in Callers, gate = c, ReturnError(c), peer' = peer, cred' = cred,
           UNCHANGED <<bearer, authorization>> \/ SettleAuthorization
    PROVE  Promise!ExchangesNext
<1>1. answer \in [Callers -> Answer] /\ answer' = [answer EXCEPT ![c] = NoAnswer]
  BY DEF SafeInv, TypeInv, TypeOK, ReturnError, Return
<1>2. gate' = NoCaller /\ turn' = NoTurn
  BY DEF ReturnError, Return
<1>3. Over' = NoPeerLink /\ ~Settles'
  BY <1>2 DEF Over, Settles, InFlight, NoTurn
<1>4. PeerLink' = PeerLink
  BY DEF PeerLink
<1>5. ASSUME NEW d \in Callers PROVE Reported(d)' = Reported(d)
  BY <1>1, <1>2 DEF Reported, NoPeerLink, NoAnswer
<1>6. Reports' = Reports
  BY <1>5 DEF Reports
<1> QED
  BY <1>2, <1>3, <1>4, <1>6, StepFails

LEMMA AnswerReported ==
    ASSUME SafeInv, Completed, NEW c \in Callers, gate = c, InFlight, NEW a, Return(c, a),
           a.generation = peer.generation, a.authorization = peer.authorization,
           a.cred = peer.cred, UNCHANGED <<peer, cred, bearer, authorization>>
    PROVE  Promise!ExchangesNext
<1>1. answer \in [Callers -> Answer] /\ answer' = [answer EXCEPT ![c] = a]
  BY DEF SafeInv, TypeInv, TypeOK, Return
<1>2. gate' = NoCaller /\ turn' = NoTurn
  BY DEF Return
<1>3. Over' = NoPeerLink /\ ~Settles'
  BY <1>2 DEF Over, Settles, InFlight, NoTurn
<1>4. PeerLink' = PeerLink
  BY DEF PeerLink
<1>5. Over = PeerLink /\ Over # NoPeerLink
  BY OverSettled DEF Over
<1>6. Reported(c)' = PeerLink
  BY <1>1, <1>2 DEF Reported, PeerLink
<1>7. ASSUME NEW d \in Callers, d # c PROVE Reported(d)' = Reported(d)
  BY <1>1, <1>2, <1>7 DEF Reported
<1>8. Reports' = [Reports EXCEPT ![c] = Over]
  BY <1>5, <1>6, <1>7 DEF Reports
<1> QED
  BY <1>2, <1>3, <1>4, <1>5, <1>8, StepReplies

LEMMA GateTaken ==
    ASSUME SafeInv, NEW c \in Callers, Acquire(c)
    PROVE  Promise!ExchangesNext
<1>1. gate = NoCaller /\ gate' = c /\ answer' = answer /\ turn = NoTurn
  BY DEF Acquire, SafeInv, TypeInv, GateFree
<1>2. turn'.step \in {"pin", "standing"}
  BY DEF Acquire, NoTurn
<1>3. Over' = Over /\ ~Settles'
  BY <1>1, <1>2 DEF Over, InFlight, NoTurn, Settles
<1>4. PeerLink' = PeerLink
  BY DEF Acquire, wireVars, PeerLink
<1>5. Reported(c)' = NoPeerLink
  BY <1>1 DEF Reported, NoPeerLink
<1>6. ASSUME NEW d \in Callers, d # c PROVE Reported(d)' = Reported(d)
  BY <1>1, <1>6 DEF Reported
<1>7. Reports' = [Reports EXCEPT ![c] = NoPeerLink]
  BY <1>5, <1>6 DEF Reports
<1>8. UNCHANGED <<cred, bearer, authorization>>
  BY DEF Acquire, transportVars
<1> QED
  BY <1>1, <1>3, <1>4, <1>7, <1>8, StepTakes

\* Every step of the holder of the gate is a step of Exchanges, or none.
LEMMA ExchangePromised ==
    ASSUME SafeInv, SafeInv', Completed, NEW c \in Callers, Exchange(c)
    PROVE  [Promise!ExchangesNext]_(Promise!exchangeVars)
<1> USE DEF SafeInv, Holds
<1> DEFINE Ready == {"handshake", "settled", "confirmed", "send", "await"}
<1>1. turn \in Turn /\ answer \in [Callers -> Answer]
  BY DEF TypeInv, TypeOK
<1>2. ASSUME KeepConnection(c) PROVE Promise!ExchangesNext
  <2>1. UNCHANGED <<gate, answer, peer, cred>> /\ SettleAuthorization /\ gate = c
    BY <1>2 DEF KeepConnection, wireVars, Authorized
  <2>2. turn.step = "standing" /\ turn'.step = "confirmed"
    BY <1>1, <1>2 DEF KeepConnection, GoOn, Turn
  <2>3. InFlight'
    BY <2>2 DEF InFlight
  <2>4. peer'.authorization = authorization'
    BY <2>3 DEF EngineInv, Standing, Presented
  <2>5. Over' = PeerLink' /\ PeerLink.authorization = authorization' /\ ~Settles /\ Settles'
    BY <2>1, <2>2, <2>3, <2>4 DEF Over, PeerLink, Settles, InFlight
  <2> QED
    BY <2>1, <2>5, ReportsKept, StepAuthorizes
<1>3. ASSUME OpenConnection(c) PROVE Promise!ExchangesNext
  <2>1. UNCHANGED <<gate, answer, peer, cred>> /\ SettleAuthorization /\ gate = c
    BY <1>3 DEF OpenConnection, wireVars, Authorized
  <2>2. turn.step = "standing" /\ turn'.step = "handshake"
    BY <1>1, <1>3 DEF OpenConnection, Turn
  <2>3. Over' = NoPeerLink /\ ~Settles /\ Settles'
    BY <2>2 DEF Over, Settles, InFlight
  <2> QED
    BY <2>1, <2>3, ReportsKept, StepAuthorizes
<1>4. ASSUME NEW v \in Versions, HandshakeSucceeds(c, v) PROVE Promise!ExchangesNext
  <2>1. UNCHANGED <<gate, answer, cred, bearer, authorization>> /\ gate = c
        /\ peer.generation < MaxGeneration
    BY <1>4 DEF HandshakeSucceeds
  <2>2. turn.step = "handshake" /\ turn'.step = "settled"
    BY <1>1, <1>4 DEF HandshakeSucceeds, GoOn, Turn
  <2>3. Over = NoPeerLink /\ Settles /\ Settles' /\ Over' = PeerLink'
    BY <2>2 DEF Over, Settles, InFlight
  <2>4. PeerLink' = [generation |-> peer.generation + 1,
                     authorization |-> authorization, cred |-> bearer]
    BY <1>4 DEF HandshakeSucceeds, PeerLink
  <2>5. Reports' = Reports
    BY <2>1 DEF Reports, Reported
  <2> QED
    BY <2>1, <2>3, <2>4, <2>5, StepSettles
<1>5. ASSUME CannotConnect(c) PROVE Promise!ExchangesNext
  BY <1>5, ErrorReported DEF CannotConnect, Authorized
<1>6. ASSUME \/ HandshakeFails(c) \/ Refuse(c) \/ EndStanding(c) \/ ChannelFails(c) \/ Pin(c)
      PROVE  Promise!ExchangesNext
  BY <1>6, ErrorReported DEF HandshakeFails, Refuse, EndStanding, ChannelFails, Pin,
     transportVars
<1>7. ASSUME \/ Accept(c) \/ Send(c) \/ Execute(c)
      PROVE  UNCHANGED Promise!exchangeVars
  <2>1. UNCHANGED <<gate, answer, peer, cred, bearer, authorization>>
    BY <1>7 DEF Accept, Send, Execute, transportVars, wireVars
  <2>2. InFlight /\ InFlight'
    BY <1>1, <1>7 DEF Accept, Send, Execute, GoOn, Turn, InFlight
  <2>3. Over' = Over /\ (Settles' <=> Settles) /\ PeerLink' = PeerLink
    BY <2>1, <2>2 DEF Over, Settles, PeerLink
  <2> QED
    BY <2>1, <2>2, <2>3, ReportsKept, StepStutters DEF Settles
<1>8. ASSUME Settled(c) PROVE [Promise!ExchangesNext]_(Promise!exchangeVars)
  <2>1. UNCHANGED <<peer, cred, bearer, authorization>> /\ gate = c /\ turn.step = "settled"
    BY <1>8 DEF Settled, transportVars
  <2>2. CASE ReturnError(c)
    BY <2>1, <2>2, ErrorReported
  <2>3. CASE Return(c, [Answered EXCEPT !.generation = generation'])
    <3>1. /\ InFlight
          /\ conn.authorization = authorization /\ conn.version # NoVersion
      BY <2>1 DEF InFlight, EngineInv, Presented, Standing
    <3>2. peer.authorization = authorization /\ peer.cred = bearer
      BY <3>1 DEF EngineInv, Standing, Recorded, Dated
    <3>3. frame = NoFrame /\ generation' = peer.generation
      BY <1>8, <2>1 DEF EngineInv, OnTheWire, Settled, CountOfHandshakes, TypeInv, Counted
    <3> DEFINE a == [Answered EXCEPT !.generation = generation']
    <3>4. /\ a.generation = peer.generation /\ a.authorization = peer.authorization
          /\ a.cred = peer.cred
      BY <3>1, <3>2, <3>3 DEF Answered
    <3> HIDE DEF a
    <3> QED
      BY <2>1, <2>3, <3>1, <3>4, AnswerReported DEF a
  <2>4. CASE \E step \in {"confirmed", "send"} : GoOn(step) /\ UNCHANGED <<gate, answer>>
    <3>1. InFlight /\ InFlight'
      BY <1>1, <2>1, <2>4 DEF GoOn, Turn, InFlight
    <3>2. Over' = Over /\ (Settles' <=> Settles) /\ PeerLink' = PeerLink
      BY <2>1, <3>1 DEF Over, Settles, PeerLink
    <3> QED
      BY <2>1, <2>4, <3>1, <3>2, ReportsKept, StepStutters DEF Settles
  <2> QED
    BY <1>8, <2>2, <2>3, <2>4 DEF Settled
<1>9. ASSUME Found(c) \/ Succeed(c) PROVE Promise!ExchangesNext
  <2>1. /\ gate = c /\ turn.step \in {"confirmed", "await"}
        /\ Return(c, Answered) /\ UNCHANGED <<peer, cred, bearer, authorization>>
    BY <1>9 DEF Found, Succeed, transportVars
  <2>2. InFlight /\ turn.step # "settled"
    BY <2>1 DEF InFlight
  <2> QED
    BY <2>1, <2>2, AnsweredOver, AnswerReported
<1>10. ASSUME \/ ReadAgain(c) \/ RefuseVersion(c)
              \/ Expire(c) /\ ~ReturnError(c)
       PROVE  Promise!ExchangesNext
  <2>1. UNCHANGED <<gate, answer, peer, cred, bearer, authorization>> /\ gate = c
    BY <1>10 DEF ReadAgain, RefuseVersion, Expire, transportVars, wireVars
  <2>2. InFlight /\ turn'.step \in {"handshake", "standing"}
    BY <1>1, <1>10 DEF ReadAgain, RefuseVersion, Expire, Turn, InFlight
  <2>3. Over # NoPeerLink /\ Over' = NoPeerLink
    BY <2>2, OverSettled DEF Over, InFlight
  <2>4. (Settles' <=> Settles) \/ ~Settles'
    BY <2>2 DEF Settles, InFlight
  <2> QED
    BY <2>1, <2>3, <2>4, ReportsKept, StepLoses
<1>11. ASSUME Expire(c), ReturnError(c) PROVE Promise!ExchangesNext
  BY <1>11, ErrorReported DEF Expire
<1> QED
  BY <1>2, <1>3, <1>4, <1>5, <1>6, <1>7, <1>8, <1>9, <1>10, <1>11 DEF Exchange

LEMMA StepPromised ==
    SafeInv /\ SafeInv' /\ Completed /\ [Next]_vars
        => [Promise!ExchangesNext]_(Promise!exchangeVars)
<1> SUFFICES ASSUME SafeInv, SafeInv', Completed, [Next]_vars
             PROVE  [Promise!ExchangesNext]_(Promise!exchangeVars)
  OBVIOUS
<1>1. ASSUME UNCHANGED <<gate, answer, turn, peer, cred, bearer, authorization>>
      PROVE  UNCHANGED Promise!exchangeVars
  <2>1. (Settles' <=> Settles) /\ Over' = Over /\ PeerLink' = PeerLink
    BY <1>1 DEF Settles, InFlight, Over, PeerLink
  <2> QED
    BY <1>1, <2>1, ReportsKept, StepStutters DEF Settles, InFlight
<1>2. ASSUME NEW c \in Callers, Ask(c) \/ GiveUp(c)
      PROVE  UNCHANGED Promise!exchangeVars
  BY <1>1, <1>2 DEF Ask, GiveUp, transportVars, wireVars
<1>3. ASSUME NEW k \in Credentials, ChangeCredential(k) PROVE Promise!ExchangesNext
  <2>1. UNCHANGED <<gate, answer, turn, peer, bearer, authorization>>
        /\ authorization < MaxAuthorization /\ k # cred /\ cred' = k
    BY <1>3 DEF ChangeCredential, callerVars, transportVars, wireVars
  <2>2. (Settles' <=> Settles) /\ Over' = Over /\ PeerLink' = PeerLink
    BY <2>1 DEF Settles, InFlight, Over, PeerLink
  <2> QED
    BY <2>1, <2>2, ReportsKept, StepPresents DEF Settles, InFlight
<1>4. ASSUME NEW d \in Closers, BeginDisconnect(d) \/ EndDisconnect(d)
      PROVE  UNCHANGED Promise!exchangeVars
  BY <1>1, <1>4 DEF BeginDisconnect, EndDisconnect, callerVars, transportVars, wireVars
<1>5. ASSUME NEW r \in Readers, PeekConnection(r) \/ PeekCredential(r)
      PROVE  UNCHANGED Promise!exchangeVars
  BY <1>1, <1>5 DEF PeekConnection, PeekCredential, callerVars, transportVars, wireVars
<1>6. ASSUME Outlive PROVE UNCHANGED Promise!exchangeVars
  BY <1>1, <1>6 DEF Outlive, callerVars, transportVars, wireVars
<1>7. ASSUME UNCHANGED vars PROVE UNCHANGED Promise!exchangeVars
  BY <1>1, <1>7 DEF vars, callerVars, transportVars, wireVars
<1> QED
  BY <1>2, <1>3, <1>4, <1>5, <1>6, <1>7, GateTaken, ExchangePromised DEF Next, Environment

LEMMA InitPromised == Init => Promise!ExchangesInit /\ Completed
<1> SUFFICES ASSUME Init PROVE Promise!ExchangesInit /\ Completed
  OBVIOUS
<1>1. turn.step = "none" /\ peer = NoPeer
  BY DEF Init, NoTurn
<1>2. answer = [c \in Callers |-> NoAnswer] /\ gate = NoCaller
  BY DEF Init
<1>3. Promise!ExchangesInit
  BY <1>1, <1>2 DEF Init, Promise!ExchangesInit, Promise!NoLink, NoPeer, NoAnswer
<1> QED
  BY <1>1, <1>3 DEF Completed, NoPeer

\* However a connection comes to stand, is lost, renegotiated or torn down
\* under an exchange, the layers above see what Exchanges describes: requests
\* carried one at a time, each over one link and under one credential, and a
\* reply stamped with the link it travelled over (exchangeFor, answered).
THEOREM EngineKeepsItsPromise == Spec => ImplementsExchanges
<1>1. Spec => []Completed
  BY InitPromised, CompletedStep, Safe, PTL DEF Spec, SafeInv
<1> QED
  BY <1>1, InitPromised, StepPromised, Safe, PTL
     DEF Spec, ImplementsExchanges, Promise!ExchangesSpec
=============================================================================
