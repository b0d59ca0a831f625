------------------------- MODULE Correlation_proofs -------------------------
(***************************************************************************)
(* Correlation, proved for any number of requests, channels and callers of *)
(* Disconnect, any cap and window, and any bound on the wire and the clock:*)
(* no more errors without an id will be passed over than requests          *)
(* withdrawn are still to be answered, a server that is hung is given up,  *)
(* and a request is answered with what the server said of that request.    *)
(*                                                                         *)
(* The argument.  Once the server has answered request h in order, nothing *)
(* up to h is still on the way; so what the client holds of the requests   *)
(* up to h (entries, or the reply of the request in hand, taken for that   *)
(* of another) are errors it passed over in the wrong request's name, each *)
(* in exchange for an entry of a request that is still to be answered:     *)
(* Balanced.  And while nothing lapsed or was dropped before its reply,    *)
(* every withdrawn request that will be answered has its entry: Due.       *)
(***************************************************************************)
EXTENDS Correlation, FiniteSetTheorems, WellFoundedInduction, TLAPS

ExchangeSet ==
    [step : {"idle", "receive", "withdraw", "notify", "account", "fail", "close"},
     id : 0..MaxRequests, over : 0..MaxChannels,
     ended : {"no", "timeout", "cancelled"}, passedOver : BOOLEAN]

Entry == [id : Requests, at : Nat]
Departure == [at : Nat, over : 0..MaxChannels]

ClientTypeOK ==
    /\ connected \in BOOLEAN /\ silent \in BOOLEAN
    /\ unaccounted \subseteq Entry
    /\ next \in 1..(MaxRequests + 1)
    /\ exchange \in ExchangeSet
    /\ channel \in 0..MaxChannels /\ opened \in 0..MaxChannels
    /\ closing \subseteq Closers
    /\ now \in Nat

TruthTypeOK ==
    /\ asked \subseteq Requests
    /\ wire \in Seq(Frame)
    /\ latest \in 0..MaxRequests /\ inOrder \in BOOLEAN
    /\ gone \in [Requests -> Departure]
    /\ heardOf \subseteq Requests
    /\ excused \in BOOLEAN /\ mutes \in Nat

TypeOK == ClientTypeOK /\ TruthTypeOK

Withdrawn == {n \in Requests : gone[n] # NotGone}
Accounts == {w.id : w \in unaccounted}
InHand == exchange.step \in {"receive", "withdraw", "notify", "account"}
Says(i) == i \in DOMAIN wire /\ wire[i].kind \in {"reply", "null"}
OnWire(n) == \E i \in DOMAIN wire : Says(i) /\ wire[i].id = n

\* Requests are numbered as they are sent, and only the latest is in hand.
Numbered ==
    /\ \A n \in asked \cup heardOf \cup Withdrawn : n < next
    /\ exchange.step # "idle" =>
          exchange.id = next - 1 /\ exchange.id \notin Withdrawn /\ exchange.id \in Requests
    /\ InHand => exchange.over # 0

\* What the client keeps of a request was true of it, and is kept once.
Kept ==
    /\ \A n \in Withdrawn : gone[n].over # 0
    /\ \A w \in unaccounted : w.id \in Withdrawn /\ w.at = gone[w.id].at
    /\ Cardinality(unaccounted) <= MaxUnaccounted

\* A request is answered once, and in order what is on the way is later than
\* what was read.
Answers ==
    /\ asked \cap heardOf = {}
    /\ \A i \in DOMAIN wire : Says(i) =>
          /\ wire[i].id \in Requests /\ wire[i].id < next /\ wire[i].id <= latest
          /\ wire[i].id \notin asked \cup heardOf
    /\ \A i, j \in DOMAIN wire : Says(i) /\ Says(j) /\ i < j => wire[i].id # wire[j].id
    /\ \A n \in heardOf : n <= latest

Ordered ==
    inOrder =>
        /\ \A i, j \in DOMAIN wire : i < j /\ Says(i) /\ Says(j) => wire[i].id < wire[j].id
        /\ \A n \in heardOf, i \in DOMAIN wire : Says(i) => n < wire[i].id

Closed == channel = 0 => asked = {} /\ wire = <<>>

Wired == Answers /\ Ordered /\ Closed

Passed(n) == \E h \in heardOf : n <= h
Held == Accounts \cup {n \in heardOf : InHand /\ n = exchange.id}
Open == Withdrawn \ heardOf
HeldLate == {n \in Held : Passed(n)}
OpenLate == {n \in Open : Passed(n)}

\* Of what the server has passed, no more is held than is open.
Balanced == inOrder => Cardinality(HeldLate) <= Cardinality(OpenLate)

ToAnswer ==
    \A n \in Requests :
        n \in asked \/ OnWire(n) =>
            n \in Withdrawn \/ (exchange.step # "idle" /\ exchange.id = n)

ToMatch ==
    \A n \in Withdrawn :
        (n \in asked /\ n > latest) \/ OnWire(n) =>
            n \in Accounts \/ now >= gone[n].at + Window

\* What will be answered is in hand, or has its entry until it lapses.
Due == inOrder /\ ~excused => ToAnswer /\ ToMatch

\* The connection is given up before its channel is closed.
Standing ==
    /\ exchange.step = "close" => ~connected /\ excused
    /\ ~connected => excused \/ channel = 0

Mute ==
    /\ ~connected => mutes = 0 /\ ~silent
    /\ connected /\ exchange.step # "fail" => mutes <= 1 /\ (mutes = 1 => silent)

CorrelationInv ==
    TypeOK /\ Numbered /\ Kept /\ Wired /\ Balanced /\ Due /\ Standing /\ Mute

-----------------------------------------------------------------------------
(* Facts about the operators.                                               *)

LEMMA RequestsAreFinite ==
    ASSUME NEW S, S \subseteq Requests
    PROVE  IsFiniteSet(S) /\ Cardinality(S) \in Nat
<1>1. IsFiniteSet(Requests)
  BY BoundsAssumption, FS_Interval DEF Requests
<1>2. IsFiniteSet(S)
  BY <1>1, FS_Subset
<1> QED
  BY <1>2, FS_CardinalityType

\* Withdrawn requests have an oldest, the one with the least id.
LEMMA OldestLeast ==
    ASSUME NEW entries, entries \subseteq Entry, entries # {}
    PROVE  /\ Oldest(entries) \in entries
           /\ \A v \in entries : Oldest(entries).id <= v.id
<1> DEFINE T == {w.id : w \in entries}
<1>1. T \subseteq Nat /\ T # {}
  BY BoundsAssumption DEF Entry, Requests
<1>2. PICK x \in T : \A y \in T : ~(<<y, x>> \in OpToRel(<, Nat))
  <2> HIDE DEF T
  <2> QED
    BY <1>1, NatLessThanWellFounded, WFMin
<1>3. ASSUME NEW y \in T, y < x PROVE FALSE
  <2>1. <<y, x>> \in OpToRel(<, Nat)
    BY <1>1, <1>3 DEF OpToRel
  <2> QED
    BY <1>2, <2>1
<1>4. \A y \in T : x <= y
  <2> HIDE DEF T
  <2> QED
    BY <1>1, <1>3
<1>5. PICK w \in entries : w.id = x
  OBVIOUS
<1>6. \A v \in entries : w.id <= v.id
  BY <1>4, <1>5
<1> QED
  BY <1>5, <1>6 DEF Oldest

\* Disjoint parts no larger than disjoint others make no larger a whole.
LEMMA CountsAddUp ==
    ASSUME NEW A, NEW B, NEW C, NEW D,
           A \subseteq Requests, B \subseteq D, C \subseteq Requests, D \subseteq Requests,
           C \cap D = {}, Cardinality(A) <= Cardinality(C)
    PROVE  Cardinality(A \cup B) <= Cardinality(C \cup D)
<1>1. IsFiniteSet(A) /\ IsFiniteSet(B) /\ IsFiniteSet(C) /\ IsFiniteSet(D)
  BY RequestsAreFinite
<1>2. Cardinality(B) <= Cardinality(D)
  BY <1>1, FS_Subset
<1>3. Cardinality(A \cup B) = Cardinality(A) + Cardinality(B) - Cardinality(A \cap B)
  BY <1>1, FS_Union
<1>4. Cardinality(C \cup D) = Cardinality(C) + Cardinality(D) - Cardinality(C \cap D)
  BY <1>1, FS_Union
<1>5. Cardinality(C \cap D) = 0
  BY FS_EmptySet
<1>6. /\ Cardinality(A) \in Nat /\ Cardinality(B) \in Nat
      /\ Cardinality(C) \in Nat /\ Cardinality(D) \in Nat
      /\ Cardinality(A \cap B) \in Nat
  <2>1. A \cap B \subseteq Requests /\ B \subseteq Requests
    OBVIOUS
  <2> QED
    BY <2>1, RequestsAreFinite
<1> QED
  BY <1>2, <1>3, <1>4, <1>5, <1>6

LEMMA CountsShrink ==
    ASSUME NEW A, NEW B, A \subseteq B, B \subseteq Requests
    PROVE  Cardinality(A) <= Cardinality(B)
<1>1. IsFiniteSet(B)
  BY RequestsAreFinite
<1> QED
  BY <1>1, FS_Subset

\* One in for one out leaves a set as large.
LEMMA CountsSwap ==
    ASSUME NEW A, NEW B, NEW out \in B, NEW in,
           A \subseteq (B \ {out}) \cup {in}, B \subseteq Requests
    PROVE  Cardinality(A) <= Cardinality(B)
<1> DEFINE R == B \ {out}
<1>1. IsFiniteSet(B) /\ Cardinality(B) \in Nat
  BY RequestsAreFinite
<1>2. IsFiniteSet(R) /\ Cardinality(R) = Cardinality(B) - 1
  BY <1>1, FS_RemoveElement
<1>3. /\ IsFiniteSet(R \cup {in})
      /\ Cardinality(R \cup {in}) = IF in \in R THEN Cardinality(R) ELSE Cardinality(R) + 1
  <2> HIDE DEF R
  <2> QED
    BY <1>2, FS_AddElement
<1>4. Cardinality(A) <= Cardinality(R \cup {in})
  <2>1. A \subseteq R \cup {in}
    OBVIOUS
  <2> HIDE DEF R
  <2> QED
    BY <1>3, <2>1, FS_Subset
<1>5. IsFiniteSet(A) /\ Cardinality(A) \in Nat
  <2>1. A \subseteq R \cup {in}
    OBVIOUS
  <2>2. IsFiniteSet(A)
    <3> HIDE DEF R
    <3> QED
      BY <1>3, <2>1, FS_Subset
  <2> QED
    BY <2>2, FS_CardinalityType
<1> HIDE DEF R
<1> QED
  BY <1>1, <1>2, <1>3, <1>4, <1>5

\* What a request was withdrawn with says which entry is its own.
LEMMA EntriesCounted ==
    ASSUME ClientTypeOK, Kept
    PROVE  /\ IsFiniteSet(unaccounted)
           /\ Cardinality(unaccounted) \in Nat
           /\ Cardinality(unaccounted) = Cardinality(Accounts)
           /\ Accounts \subseteq Withdrawn
<1>1. /\ unaccounted \subseteq Entry
      /\ \A w \in unaccounted : w.id \in Withdrawn /\ w.at = gone[w.id].at
  BY DEF ClientTypeOK, Kept
<1> DEFINE f == [w \in unaccounted |-> w.id]
<1>2. Accounts \subseteq Withdrawn
  BY <1>1 DEF Accounts
<1>3. IsFiniteSet(Accounts)
  <2>1. Accounts \subseteq Requests
    BY <1>2 DEF Withdrawn
  <2> QED
    BY <2>1, RequestsAreFinite
<1>4. \A v, w \in unaccounted : v.id = w.id => v = w
  <2> TAKE v, w \in unaccounted
  <2>1. v \in Entry /\ w \in Entry /\ v.at = gone[v.id].at /\ w.at = gone[w.id].at
    BY <1>1
  <2> QED
    BY <2>1 DEF Entry
<1>5. f \in Injection(unaccounted, Accounts)
  BY <1>4 DEF Injection, IsInjective, Accounts
<1>6. f \in Surjection(unaccounted, Accounts)
  BY DEF Surjection, Accounts
<1>7. IsFiniteSet(unaccounted) /\ Cardinality(unaccounted) = Cardinality(Accounts)
  <2> HIDE DEF f
  <2> QED
    BY <1>3, <1>5, <1>6, FS_Injection
<1> QED
  BY <1>2, <1>7, FS_CardinalityType

\* What is left of the frames once the first is read.
LEMMA ReadsHead ==
    ASSUME NEW frames \in Seq(Frame), frames # <<>>
    PROVE  /\ Tail(frames) \in Seq(Frame)
           /\ 1 \in DOMAIN frames /\ Head(frames) = frames[1]
           /\ DOMAIN frames \subseteq Nat /\ \A i \in DOMAIN frames : 1 <= i
           /\ \A i \in DOMAIN Tail(frames) :
                 /\ i + 1 \in DOMAIN frames /\ Tail(frames)[i] = frames[i + 1]
                 /\ i \in Nat /\ 1 <= i
           /\ \A i \in DOMAIN frames : i # 1 => i - 1 \in DOMAIN Tail(frames)
           /\ \A i \in DOMAIN frames : frames[i] \in Frame
  OBVIOUS

LEMMA WritesLast ==
    ASSUME NEW frames \in Seq(Frame), NEW frame \in Frame
    PROVE  /\ Append(frames, frame) \in Seq(Frame)
           /\ DOMAIN Append(frames, frame) = DOMAIN frames \cup {Len(frames) + 1}
           /\ Append(frames, frame)[Len(frames) + 1] = frame
           /\ \A i \in DOMAIN frames : Append(frames, frame)[i] = frames[i]
           /\ \A i \in DOMAIN frames : i \in Nat /\ i < Len(frames) + 1
  OBVIOUS

-----------------------------------------------------------------------------
(* The types hold.                                                          *)

LEMMA Bounds ==
    /\ MaxRequests \in Nat /\ MaxRequests >= 1
    /\ MaxChannels \in Nat /\ MaxUnaccounted \in Nat /\ MaxUnaccounted >= 1
    /\ Window \in Nat
<1>1. /\ MaxRequests \in Nat \ {0} /\ MaxChannels \in Nat \ {0} /\ MaxUnaccounted \in Nat \ {0}
      /\ Window \in Nat
  BY BoundsAssumption
<1> QED
  BY <1>1

LEMMA TypesInit ==
    ASSUME Init
    PROVE  TypeOK
<1>1. NoExchange \in ExchangeSet
  BY Bounds DEF NoExchange, ExchangeSet
<1>2. NotGone \in Departure
  BY Bounds DEF NotGone, Departure
<1>3. <<>> \in Seq(Frame)
  OBVIOUS
<1>a. /\ connected \in BOOLEAN /\ silent \in BOOLEAN
      /\ inOrder \in BOOLEAN /\ excused \in BOOLEAN
  BY Zenon DEF Init
<1>b. next = 1 /\ channel = 0 /\ opened = 0 /\ now = 0 /\ latest = 0 /\ mutes = 0
  BY DEF Init
<1>c. unaccounted = {} /\ closing = {} /\ asked = {} /\ heardOf = {}
  BY DEF Init
<1>4. ClientTypeOK
  <2>1. exchange \in ExchangeSet
    BY <1>1 DEF Init
  <2> QED
    BY Bounds, <2>1, <1>a, <1>b, <1>c DEF ClientTypeOK
<1>6. TruthTypeOK
  <2>1. gone \in [Requests -> Departure] /\ wire \in Seq(Frame)
    BY <1>2, <1>3 DEF Init
  <2> QED
    BY Bounds, <2>1, <1>a, <1>b, <1>c DEF TruthTypeOK
<1> QED
  BY <1>4, <1>6 DEF TypeOK

\* What a step assigns, exchange by exchange.
LEMMA ExchangeTyped ==
    ASSUME TypeOK
    PROVE  /\ NoExchange \in ExchangeSet
           /\ \A s \in {"idle", "receive", "withdraw", "notify", "account", "fail", "close"} :
                 [exchange EXCEPT !.step = s] \in ExchangeSet
           /\ \A c \in {"timeout", "cancelled"} : [exchange EXCEPT !.ended = c] \in ExchangeSet
           /\ [exchange EXCEPT !.passedOver = TRUE] \in ExchangeSet
           /\ next <= MaxRequests =>
                 /\ [NoExchange EXCEPT !.step = "receive", !.id = next, !.over = channel]
                        \in ExchangeSet
                 /\ [NoExchange EXCEPT !.step = "fail", !.id = next] \in ExchangeSet
<1>1. /\ exchange \in ExchangeSet /\ next \in 1..(MaxRequests + 1) /\ channel \in 0..MaxChannels
      /\ MaxRequests \in Nat /\ MaxChannels \in Nat
  BY Bounds DEF TypeOK, ClientTypeOK
<1>2. NoExchange \in ExchangeSet
  BY <1>1 DEF ExchangeSet, NoExchange
<1>3. [exchange EXCEPT !.passedOver = TRUE] \in ExchangeSet
  BY <1>1 DEF ExchangeSet
<1>4. \A s \in {"idle", "receive", "withdraw", "notify", "account", "fail", "close"} :
         [exchange EXCEPT !.step = s] \in ExchangeSet
  BY <1>1 DEF ExchangeSet
<1>5. \A c \in {"timeout", "cancelled"} : [exchange EXCEPT !.ended = c] \in ExchangeSet
  BY <1>1 DEF ExchangeSet
<1>6. ASSUME next <= MaxRequests
      PROVE  /\ [NoExchange EXCEPT !.step = "receive", !.id = next, !.over = channel]
                    \in ExchangeSet
             /\ [NoExchange EXCEPT !.step = "fail", !.id = next] \in ExchangeSet
  <2>1. next \in 0..MaxRequests /\ 0 \in 0..MaxChannels /\ channel \in 0..MaxChannels
    BY <1>1, <1>6
  <2>2. [NoExchange EXCEPT !.step = "fail", !.id = next] \in ExchangeSet
    BY ONLY <1>1, <1>2, <2>1 DEF ExchangeSet
  <2>3. [NoExchange EXCEPT !.step = "receive", !.id = next, !.over = channel] \in ExchangeSet
    BY ONLY <1>1, <1>2, <2>1 DEF ExchangeSet
  <2> QED
    BY <2>2, <2>3
<1> QED
  BY <1>2, <1>3, <1>4, <1>5, <1>6

LEMMA TypesHold ==
    ASSUME TypeOK, Numbered, Wired, [Next]_vars
    PROVE  TypeOK'
<1> USE Bounds DEF TypeOK
<1>a. /\ \A e : Unlapsed(e) \subseteq e /\ \A i : AccountedFor(e, i) \subseteq e
      /\ \A e : WithoutOldest(e) \subseteq e
  BY DEF Unlapsed, AccountedFor, WithoutOldest
<1>1. CASE Connect
  <2>1. opened' \in 0..MaxChannels /\ channel' \in 0..MaxChannels
    BY <1>1 DEF Connect, ClientTypeOK
  <2>2. connected' \in BOOLEAN /\ excused' \in BOOLEAN
    <3>1. connected' = TRUE /\ (excused' = FALSE \/ excused' = excused) /\ excused \in BOOLEAN
      BY <1>1 DEF Connect, TruthTypeOK
    <3> QED
      BY ONLY <3>1
  <2> QED
    BY <1>1, <2>1, <2>2 DEF Connect, ClientTypeOK, TruthTypeOK, serverVars
<1>2. CASE Send
  <2>1. next <= MaxRequests /\ exchange' \in ExchangeSet
    BY <1>2, ExchangeTyped DEF Send
  <2>2. next' \in 1..(MaxRequests + 1) /\ next \in Requests
    BY <1>2, <2>1 DEF Send, ClientTypeOK, Requests
  <2>3. ClientTypeOK'
    BY <1>2, <2>1, <2>2 DEF ClientTypeOK, Send, channelVars
  <2>4. TruthTypeOK'
    BY <1>2, <2>2 DEF TruthTypeOK, Send, truthVars
  <2> QED
    BY <2>3, <2>4
<1>3. CASE SendFails
  <2>1. next <= MaxRequests /\ exchange' \in ExchangeSet
    BY <1>3, ExchangeTyped DEF SendFails
  <2>2. next' \in 1..(MaxRequests + 1)
    BY <1>3, <2>1 DEF SendFails, ClientTypeOK
  <2>3. ClientTypeOK'
    BY <1>3, <2>1, <2>2 DEF ClientTypeOK, SendFails, channelVars
  <2>4. TruthTypeOK'
    BY <1>3 DEF TruthTypeOK, SendFails, serverVars, truthVars
  <2> QED
    BY <2>3, <2>4
<1>4. CASE ReceiveFails
  BY <1>4, ExchangeTyped DEF ClientTypeOK, TruthTypeOK, vars, protocolVars, channelVars,
     serverVars, truthVars, ReceiveFails, GoOn
<1>5. CASE ReadServerFrame
  <2>1. wire' \in Seq(Frame) /\ wire # <<>> /\ wire \in Seq(Frame)
    BY <1>5, ReadsHead DEF TruthTypeOK, Heard, ReadServerFrame
  <2>2. exchange' \in ExchangeSet
    BY <1>5, ExchangeTyped DEF PassOver, Answered, GoOn, ReadServerFrame
  <2>3. Head(wire) \in Frame
    BY <2>1, ReadsHead
  <2>5. heardOf' \subseteq Requests
    BY <1>5 DEF ReadServerFrame, TruthTypeOK
  <2>6. unaccounted' \subseteq Entry /\ excused' \in BOOLEAN
    BY <1>5 DEF ReadServerFrame, ClientTypeOK, TruthTypeOK
  <2> QED
    BY <1>5, <2>1, <2>2, <2>5, <2>6
    DEF ClientTypeOK, TruthTypeOK, Heard, ReadServerFrame, channelVars
<1>6. CASE ReadBadFrame
  <2>1. wire' \in Seq(Frame) /\ wire # <<>> /\ wire \in Seq(Frame)
    BY <1>6, ReadsHead DEF TruthTypeOK, Heard, ReadBadFrame
  <2>2. exchange' \in ExchangeSet
    BY <1>6, ExchangeTyped DEF PassOver, Answered, GoOn, ReadBadFrame
  <2>3. Head(wire) \in Frame
    BY <2>1, ReadsHead
  <2>5. heardOf' \subseteq Requests
    BY <1>6 DEF ReadBadFrame, TruthTypeOK
  <2>6. unaccounted' \subseteq Entry /\ excused' \in BOOLEAN
    BY <1>6 DEF ReadBadFrame, ClientTypeOK, TruthTypeOK
  <2> QED
    BY <1>6, <2>1, <2>2, <2>5, <2>6
    DEF ClientTypeOK, TruthTypeOK, Heard, ReadBadFrame, channelVars
<1>7. CASE ReadReply
  <2>1. wire' \in Seq(Frame) /\ wire # <<>> /\ wire \in Seq(Frame)
    BY <1>7, ReadsHead DEF TruthTypeOK, Heard, ReadReply
  <2>2. exchange' \in ExchangeSet
    BY <1>7, ExchangeTyped DEF PassOver, Answered, GoOn, ReadReply
  <2>3. Head(wire) \in Frame
    BY <2>1, ReadsHead
  <2>5. heardOf' \subseteq Requests
    <3>1. Says(1)
      BY <1>7, <2>1, ReadsHead DEF Says, ReadReply
    <3>2. Head(wire).id \in Requests
      BY <3>1, <2>1, ReadsHead DEF Wired, Answers
    <3> QED
      BY <1>7, <3>2 DEF ReadReply, TruthTypeOK
  <2>6. unaccounted' \subseteq Entry /\ excused' \in BOOLEAN
    BY <1>7, <1>a DEF ReadReply, ClientTypeOK, TruthTypeOK
  <2> QED
    BY <1>7, <2>1, <2>2, <2>5, <2>6
    DEF ClientTypeOK, TruthTypeOK, Heard, ReadReply, channelVars
<1>8. CASE ReadNullError
  <2>1. wire' \in Seq(Frame) /\ wire # <<>> /\ wire \in Seq(Frame)
    BY <1>8, ReadsHead DEF TruthTypeOK, Heard, ReadNullError
  <2>2. exchange' \in ExchangeSet
    BY <1>8, ExchangeTyped DEF PassOver, Answered, GoOn, ReadNullError
  <2>3. Head(wire) \in Frame
    BY <2>1, ReadsHead
  <2>5. heardOf' \subseteq Requests
    <3>1. Says(1)
      BY <1>8, <2>1, ReadsHead DEF Says, ReadNullError
    <3>2. Head(wire).id \in Requests
      BY <3>1, <2>1, ReadsHead DEF Wired, Answers
    <3> QED
      BY <1>8, <3>2 DEF ReadNullError, TruthTypeOK
  <2>6. unaccounted' \subseteq Entry /\ excused' \in BOOLEAN
    <3>1. unaccounted' \subseteq unaccounted
      BY <1>8, <1>a DEF ReadNullError
    <3>2. excused' \in BOOLEAN
      BY <1>8 DEF ReadNullError, TruthTypeOK
    <3> QED
      BY <3>1, <3>2 DEF ClientTypeOK
  <2> QED
    BY <1>8, <2>1, <2>2, <2>5, <2>6
    DEF ClientTypeOK, TruthTypeOK, Heard, ReadNullError, channelVars
<1>9. CASE Abandon
  BY <1>9, ExchangeTyped DEF ClientTypeOK, TruthTypeOK, vars, protocolVars, channelVars,
     serverVars, truthVars, Abandon, GoOn
<1>10. CASE Withdraw
  <2>1. exchange' \in ExchangeSet
    BY <1>10, ExchangeTyped DEF Withdraw, GoOn
  <2>2. mutes' \in Nat
    BY <1>10 DEF Withdraw, TruthTypeOK
  <2>3. silent' \in BOOLEAN
    <3>1. silent' = (IF connected /\ TimedOut THEN ~Hung ELSE silent) /\ silent \in BOOLEAN
      BY <1>10 DEF Withdraw, StillSilent, ClientTypeOK
    <3>2. silent' = (~Hung) \/ silent' = silent
      BY ONLY <3>1
    <3> QED
      BY ONLY <3>1, <3>2
  <2> QED
    BY <1>10, <2>1, <2>2, <2>3 DEF Withdraw, ClientTypeOK, TruthTypeOK, channelVars,
       serverVars
<1>11. CASE Notify
  BY <1>11, ExchangeTyped DEF ClientTypeOK, TruthTypeOK, vars, protocolVars, channelVars,
     serverVars, truthVars, Notify, GoOn
<1>12. CASE Account
  <2>1. exchange.id \in Requests /\ exchange.over \in 0..MaxChannels
    BY <1>12 DEF Account, At, Numbered, ClientTypeOK, ExchangeSet
  <2>2. gone' \in [Requests -> Departure]
    BY <1>12, <2>1 DEF Account, TruthTypeOK, ClientTypeOK, Departure
  <2>3. unaccounted' \subseteq Entry
    <3> DEFINE entry == [id |-> exchange.id, at |-> now]
    <3>1. entry \in Entry /\ unaccounted \subseteq Entry
      BY <2>1 DEF Entry, ClientTypeOK
    <3>2. Unlapsed(unaccounted) \cup {entry} \subseteq Entry
      BY <3>1, <1>a
    <3>3. unaccounted' = Accounted(Unlapsed(unaccounted), entry)
      BY <1>12 DEF Account
    <3> HIDE DEF entry
    <3> QED
      BY <3>2, <3>3, <1>a DEF Accounted
  <2>4. exchange' \in ExchangeSet
    BY <1>12, ExchangeTyped DEF Account
  <2>5. excused' \in BOOLEAN
    BY <1>12 DEF Account, TruthTypeOK
  <2> QED
    BY <1>12, <2>2, <2>3, <2>4, <2>5 DEF Account, ClientTypeOK, TruthTypeOK, channelVars,
       serverVars
<1>13. CASE Fail
  <2>1. CASE connected
    <3>1. exchange' \in ExchangeSet
      BY <1>13, <2>1, ExchangeTyped DEF Fail, GoOn
    <3>2. /\ connected' = FALSE /\ silent' = FALSE /\ excused' = TRUE
          /\ unaccounted' = {} /\ mutes' = 0
      BY <1>13, <2>1 DEF Fail, Forget
    <3>3. connected' \in BOOLEAN /\ silent' \in BOOLEAN /\ excused' \in BOOLEAN
      BY ONLY <3>2
    <3> QED
      BY <1>13, <3>1, <3>2, <3>3 DEF Fail, ClientTypeOK, TruthTypeOK, channelVars,
         serverVars
  <2>2. CASE ~connected
    BY <1>13, <2>2, ExchangeTyped DEF Fail, Forget, ClientTypeOK, TruthTypeOK,
       channelVars, serverVars
  <2> QED
    BY <2>1, <2>2
<1>14. CASE Close
  BY <1>14, ExchangeTyped DEF ClientTypeOK, TruthTypeOK, vars, protocolVars, channelVars,
     serverVars, truthVars, Close, CloseChannel
<1>15. ASSUME NEW cause \in {"timeout", "cancelled"}, ContextEnds(cause) PROVE TypeOK'
  BY <1>15, ExchangeTyped DEF ClientTypeOK, TruthTypeOK, vars, protocolVars, channelVars,
     serverVars, truthVars, ContextEnds
<1>16. ASSUME NEW d \in Closers, BeginDisconnect(d) PROVE TypeOK'
  BY <1>16, ExchangeTyped DEF ClientTypeOK, TruthTypeOK, vars, protocolVars, channelVars,
     serverVars, truthVars, BeginDisconnect, Forget
<1>17. ASSUME NEW d \in Closers, EndDisconnect(d) PROVE TypeOK'
  BY <1>17, ExchangeTyped DEF ClientTypeOK, TruthTypeOK, vars, protocolVars, channelVars,
     serverVars, truthVars, EndDisconnect, CloseChannel
<1>18. ASSUME NEW n \in Requests, Answer(n) PROVE TypeOK'
  <2>1. PICK kind \in {"reply", "null"} : Write([kind |-> kind, id |-> n])
    BY <1>18 DEF Answer
  <2>2. [kind |-> kind, id |-> n] \in Frame
    BY DEF Frame, Requests
  <2>3. wire' \in Seq(Frame)
    BY <2>1, <2>2, WritesLast DEF Write, TruthTypeOK
  <2>4. /\ latest' \in 0..MaxRequests
        /\ asked' \subseteq Requests /\ inOrder' \in BOOLEAN
    <3>1. n \in 0..MaxRequests
      BY DEF Requests
    <3>2. inOrder' = (inOrder /\ n > latest)
      BY <1>18 DEF Answer
    <3>3. inOrder' \in BOOLEAN
      BY ONLY <3>2
    <3> QED
      BY <1>18, <3>1, <3>3 DEF Answer, TruthTypeOK
  <2> QED
    BY <2>1, <2>3, <2>4 DEF Write, ClientTypeOK, TruthTypeOK, vars, protocolVars,
       channelVars, serverVars, truthVars
<1>19. CASE Speak
  <2>1. PICK kind \in {"notice", "bad"} : Write([kind |-> kind, id |-> 0])
    BY <1>19 DEF Speak
  <2>2. [kind |-> kind, id |-> 0] \in Frame
    BY DEF Frame
  <2>3. wire' \in Seq(Frame)
    BY <2>1, <2>2, WritesLast DEF Write, TruthTypeOK
  <2> QED
    BY <1>19, <2>1, <2>3 DEF Write, Speak, ClientTypeOK, TruthTypeOK, vars, protocolVars,
       channelVars, serverVars, truthVars
<1>20. CASE Tick
  BY <1>20, ExchangeTyped DEF ClientTypeOK, TruthTypeOK, vars, protocolVars, channelVars,
     serverVars, truthVars, Tick
<1>21. CASE UNCHANGED vars
  BY <1>21, ExchangeTyped DEF ClientTypeOK, TruthTypeOK, vars, protocolVars, channelVars,
     serverVars, truthVars, Next
<1> QED
  BY <1>1, <1>2, <1>3, <1>4, <1>5, <1>6, <1>7, <1>8, <1>9, <1>10, <1>11, <1>12, <1>13,
     <1>14, <1>15, <1>16, <1>17, <1>18, <1>19, <1>20, <1>21 DEF Next, Step, Read

-----------------------------------------------------------------------------
(* Numbers, entries and the state of the connection.                        *)

\* What the moves of an exchange leave of it.
LEMMA ExchangeMoves ==
    ASSUME TypeOK
    PROVE  /\ \A s \in {"idle", "receive", "withdraw", "notify", "account", "fail", "close"} :
                 LET moved == [exchange EXCEPT !.step = s]
                 IN  moved.step = s /\ moved.id = exchange.id /\ moved.over = exchange.over
           /\ \A c : LET moved == [exchange EXCEPT !.ended = c]
                    IN  /\ moved.step = exchange.step /\ moved.id = exchange.id
                        /\ moved.over = exchange.over
           /\ LET moved == [exchange EXCEPT !.passedOver = TRUE]
              IN  /\ moved.step = exchange.step /\ moved.id = exchange.id
                  /\ moved.over = exchange.over
           /\ NoExchange.step = "idle"
           /\ LET sent == [NoExchange EXCEPT !.step = "receive", !.id = next, !.over = channel]
              IN  sent.step = "receive" /\ sent.id = next /\ sent.over = channel
           /\ LET failed == [NoExchange EXCEPT !.step = "fail", !.id = next]
              IN  failed.step = "fail" /\ failed.id = next
<1>1. exchange \in ExchangeSet
  BY DEF TypeOK, ClientTypeOK
<1> QED
  BY <1>1 DEF ExchangeSet, NoExchange

LEMMA NumbersHold ==
    ASSUME TypeOK, Numbered, Wired, [Next]_vars
    PROVE  Numbered'
<1>a. gone' = gone => Withdrawn' = Withdrawn
  BY DEF Withdrawn
<1>b. /\ next \in 1..(MaxRequests + 1) /\ MaxRequests \in Nat
      /\ asked \subseteq Requests /\ heardOf \subseteq Requests /\ Withdrawn \subseteq Requests
  BY Bounds DEF TypeOK, ClientTypeOK, TruthTypeOK, Withdrawn
<1>1. CASE Connect
  BY <1>1, <1>a, <1>b, ExchangeMoves DEF Numbered, InHand, Connect, At, protocolVars,
     channelVars, serverVars, truthVars
<1>2. CASE Send
  <2>1. exchange'.step = "receive" /\ exchange'.id = next /\ exchange'.over = channel
    BY <1>2, ExchangeMoves DEF Send
  <2>2. next' = next + 1 /\ next \in Requests /\ next \notin Withdrawn /\ channel # 0
        /\ Withdrawn' = Withdrawn /\ asked' = asked \cup {next} /\ heardOf' = heardOf
    BY <1>2, <1>a, <1>b DEF Send, truthVars, Numbered, Requests
  <2> QED
    BY <2>1, <2>2, <1>b DEF Numbered, InHand
<1>3. CASE SendFails
  <2>1. exchange'.step = "fail" /\ exchange'.id = next
    BY <1>3, ExchangeMoves DEF SendFails
  <2>2. next' = next + 1 /\ next \in Requests /\ next \notin Withdrawn
        /\ Withdrawn' = Withdrawn /\ asked' = asked /\ heardOf' = heardOf
    BY <1>3, <1>a, <1>b DEF SendFails, truthVars, serverVars, Numbered, Requests
  <2> QED
    BY <2>1, <2>2, <1>b DEF Numbered, InHand
<1>4. CASE ReceiveFails
  BY <1>4, <1>a, <1>b, ExchangeMoves DEF Numbered, InHand, ReceiveFails, GoOn, At,
     protocolVars, channelVars, serverVars, truthVars
<1>5. CASE ReadServerFrame
  BY <1>5, <1>a, <1>b, ExchangeMoves DEF Numbered, InHand, ReadServerFrame, Heard,
     PassOver, protocolVars, channelVars, serverVars, truthVars
<1>6. CASE ReadBadFrame
  BY <1>6, <1>a, <1>b, ExchangeMoves DEF Numbered, InHand, ReadBadFrame, Heard, GoOn, At,
     protocolVars, channelVars, serverVars, truthVars
<1>7. CASE ReadReply
  <2>1. Says(1) /\ 1 \in DOMAIN wire /\ wire[1] = Head(wire)
    BY <1>7, ReadsHead DEF Says, ReadReply, Heard, TypeOK, TruthTypeOK
  <2>2. Head(wire).id < next
    BY <2>1 DEF Wired, Answers
  <2>3. \/ exchange'.step = "idle"
        \/ /\ exchange'.step = exchange.step /\ exchange'.id = exchange.id
           /\ exchange'.over = exchange.over
    BY <1>7, ExchangeMoves DEF ReadReply, PassOver, Answered
  <2>4. /\ next' = next /\ Withdrawn' = Withdrawn /\ asked' = asked
        /\ heardOf' = heardOf \cup {Head(wire).id}
    BY <1>7, <1>a DEF ReadReply, Heard
  <2> QED
    BY <2>2, <2>3, <2>4 DEF Numbered, InHand
<1>8. CASE ReadNullError
  <2>1. Says(1) /\ 1 \in DOMAIN wire /\ wire[1] = Head(wire)
    BY <1>8, ReadsHead DEF Says, ReadNullError, Heard, TypeOK, TruthTypeOK
  <2>2. Head(wire).id < next
    BY <2>1 DEF Wired, Answers
  <2>3. \/ exchange'.step = "idle"
        \/ /\ exchange'.step = exchange.step /\ exchange'.id = exchange.id
           /\ exchange'.over = exchange.over
    BY <1>8, ExchangeMoves DEF ReadNullError, PassOver, Answered
  <2>4. /\ next' = next /\ Withdrawn' = Withdrawn /\ asked' = asked
        /\ heardOf' = heardOf \cup {Head(wire).id}
    BY <1>8, <1>a DEF ReadNullError, Heard
  <2> QED
    BY <2>2, <2>3, <2>4 DEF Numbered, InHand
<1>9. CASE Abandon
  BY <1>9, <1>a, <1>b, ExchangeMoves DEF Numbered, InHand, Abandon, GoOn, At,
     protocolVars, channelVars, serverVars, truthVars
<1>10. CASE Withdraw
  BY <1>10, <1>a, <1>b, ExchangeMoves DEF Numbered, InHand, Withdraw, GoOn, At,
     protocolVars, channelVars, serverVars, truthVars
<1>11. CASE Notify
  <2>1. /\ exchange.step = "notify" /\ exchange'.step \in {"account", "fail"}
        /\ exchange'.id = exchange.id /\ exchange'.over = exchange.over
    BY <1>11, ExchangeMoves, ZenonT(60) DEF Notify, GoOn, At
  <2>2. next' = next /\ Withdrawn' = Withdrawn /\ asked' = asked /\ heardOf' = heardOf
    BY <1>11, <1>a DEF Notify, protocolVars, truthVars, serverVars
  <2> QED
    BY <2>1, <2>2 DEF Numbered, InHand
<1>12. CASE Account
  <2>1. /\ exchange.id \in Requests /\ exchange.id = next - 1 /\ exchange'.step = "idle"
        /\ gone \in [Requests -> Departure]
    BY <1>12, ExchangeMoves DEF Account, At, Numbered, TypeOK, TruthTypeOK
  <2>2. Withdrawn' \subseteq Withdrawn \cup {exchange.id}
    BY <1>12, <2>1 DEF Account, Withdrawn
  <2>3. \A n \in asked' \cup heardOf' \cup Withdrawn' : n < next'
    BY <1>12, <2>1, <2>2, <1>b DEF Account, serverVars, Numbered
  <2> QED
    BY <2>1, <2>3 DEF Numbered, InHand
<1>13. CASE Fail
  <2>1. /\ exchange.step = "fail"
        /\ \/ exchange'.step = "close" /\ exchange'.id = exchange.id
           \/ exchange'.step = "idle"
    BY <1>13, ExchangeMoves DEF Fail, GoOn, At
  <2>2. next' = next /\ Withdrawn' = Withdrawn /\ asked' = asked /\ heardOf' = heardOf
    BY <1>13, <1>a DEF Fail, serverVars
  <2> QED
    BY <2>1, <2>2 DEF Numbered, InHand
<1>14. CASE Close
  BY <1>14, <1>a, <1>b, ExchangeMoves DEF Numbered, InHand, Close, CloseChannel,
     protocolVars, channelVars, serverVars, truthVars
<1>15. ASSUME NEW cause \in {"timeout", "cancelled"}, ContextEnds(cause) PROVE Numbered'
  BY <1>15, <1>a, <1>b, ExchangeMoves DEF Numbered, InHand, ContextEnds, protocolVars,
     channelVars, serverVars, truthVars
<1>16. ASSUME NEW d \in Closers, BeginDisconnect(d) PROVE Numbered'
  BY <1>16, <1>a, <1>b, ExchangeMoves DEF Numbered, InHand, BeginDisconnect, Forget,
     protocolVars, channelVars, serverVars, truthVars
<1>17. ASSUME NEW d \in Closers, EndDisconnect(d) PROVE Numbered'
  BY <1>17, <1>a, <1>b, ExchangeMoves DEF Numbered, InHand, EndDisconnect, CloseChannel,
     protocolVars, channelVars, serverVars, truthVars
<1>18. ASSUME NEW n \in Requests, Answer(n) PROVE Numbered'
  BY <1>18, <1>a, <1>b, ExchangeMoves DEF Numbered, InHand, Answer, Write, protocolVars,
     channelVars, serverVars, truthVars
<1>19. CASE Speak
  BY <1>19, <1>a, <1>b, ExchangeMoves DEF Numbered, InHand, Speak, Write, protocolVars,
     channelVars, serverVars, truthVars
<1>20. CASE Tick
  BY <1>20, <1>a, <1>b, ExchangeMoves DEF Numbered, InHand, Tick, protocolVars,
     channelVars, serverVars, truthVars
<1>21. CASE UNCHANGED vars
  BY <1>21, <1>a, <1>b, ExchangeMoves DEF Numbered, InHand, vars, protocolVars,
     channelVars, serverVars, truthVars
<1> QED
  BY <1>1, <1>2, <1>3, <1>4, <1>5, <1>6, <1>7, <1>8, <1>9, <1>10, <1>11, <1>12, <1>13,
     <1>14, <1>15, <1>16, <1>17, <1>18, <1>19, <1>20, <1>21 DEF Next, Step, Read

\* Entries only go, but for the one Account adds.
LEMMA EntriesGo ==
    ASSUME ClientTypeOK, Kept, unaccounted' \subseteq unaccounted, gone' = gone
    PROVE  Kept'
<1>1. Cardinality(unaccounted') <= MaxUnaccounted
  <2>1. IsFiniteSet(unaccounted) /\ Cardinality(unaccounted) \in Nat
    BY EntriesCounted
  <2>2. IsFiniteSet(unaccounted') /\ Cardinality(unaccounted') <= Cardinality(unaccounted)
    BY <2>1, FS_Subset
  <2>3. Cardinality(unaccounted') \in Nat
    BY <2>2, FS_CardinalityType
  <2> QED
    BY <2>1, <2>2, <2>3, Bounds DEF Kept
<1>2. Withdrawn' = Withdrawn
  BY DEF Withdrawn
<1> QED
  BY <1>1, <1>2 DEF Kept

\* What Account adds, and whether something else goes for it.
LEMMA Accounting ==
    ASSUME TypeOK, Numbered, Kept, Account
    PROVE  LET kept  == Unlapsed(unaccounted)
               entry == [id |-> exchange.id, at |-> now]
           IN  /\ unaccounted' \subseteq kept \cup {entry}
               /\ Cardinality(unaccounted') <= MaxUnaccounted
               /\ ~excused' => unaccounted' = kept \cup {entry}
<1> DEFINE kept  == Unlapsed(unaccounted)
           entry == [id |-> exchange.id, at |-> now]
           all   == kept \cup {entry}
<1>1. kept \subseteq unaccounted
  BY DEF Unlapsed
<1>2. unaccounted' = Accounted(kept, entry) /\ excused' = (excused \/ Cardinality(kept) = MaxUnaccounted)
  BY DEF Account
<1>3. IsFiniteSet(kept) /\ Cardinality(kept) \in Nat /\ Cardinality(kept) <= MaxUnaccounted
  <2>1. IsFiniteSet(unaccounted) /\ Cardinality(unaccounted) \in Nat
        /\ Cardinality(unaccounted) <= MaxUnaccounted
    BY EntriesCounted DEF TypeOK, Kept
  <2>2. IsFiniteSet(kept) /\ Cardinality(kept) <= Cardinality(unaccounted)
    BY <1>1, <2>1, FS_Subset
  <2>3. Cardinality(kept) \in Nat
    BY <2>2, FS_CardinalityType
  <2> QED
    BY <2>1, <2>2, <2>3, Bounds
<1>4. entry \notin kept /\ entry \in Entry
  <2>1. exchange.id \notin Withdrawn /\ exchange.id \in Requests
    BY DEF Account, At, Numbered
  <2> QED
    BY <1>1, <2>1 DEF Kept, Entry, TypeOK, ClientTypeOK
<1>5. IsFiniteSet(all) /\ Cardinality(all) = Cardinality(kept) + 1
  <2> HIDE DEF kept, entry
  <2> QED
    BY <1>3, <1>4, FS_AddElement
<1>6. Oldest(all) \in all
  <2>1. all \subseteq Entry /\ all # {}
    BY <1>1, <1>4 DEF TypeOK, ClientTypeOK
  <2> HIDE DEF all
  <2> QED
    BY <2>1, OldestLeast
<1>7. /\ IsFiniteSet(all \ {Oldest(all)})
      /\ Cardinality(all \ {Oldest(all)}) = Cardinality(kept)
  <2>1. IsFiniteSet(all) /\ Cardinality(all) \in Nat
    BY <1>5, <1>3
  <2> HIDE DEF all, kept
  <2>2. Cardinality(all \ {Oldest(all)}) = Cardinality(all) - 1
    BY <1>6, <2>1, FS_RemoveElement
  <2> QED
    BY <1>3, <1>5, <2>1, <2>2, FS_RemoveElement
<1>8. /\ Cardinality(all) > MaxUnaccounted => unaccounted' = all \ {Oldest(all)}
      /\ ~(Cardinality(all) > MaxUnaccounted) => unaccounted' = all
  BY <1>2 DEF Accounted, WithoutOldest
<1>9. Cardinality(unaccounted') <= MaxUnaccounted
  <2> HIDE DEF all, kept
  <2> QED
    BY <1>3, <1>5, <1>7, <1>8, Bounds
<1>10. ~excused' => unaccounted' = all
  <2> HIDE DEF all, kept
  <2> QED
    <3>0. SUFFICES ASSUME ~excused' PROVE unaccounted' = all
      OBVIOUS
    <3>1. Cardinality(kept) # MaxUnaccounted
      BY ONLY <1>2, <3>0
    <3> QED
      BY <1>3, <1>5, <1>8, <3>1, Bounds
<1> QED
  BY <1>8, <1>9, <1>10

LEMMA EntriesHold ==
    ASSUME TypeOK, Numbered, Kept, [Next]_vars
    PROVE  Kept'
<1>a. /\ \A e : Unlapsed(e) \subseteq e /\ \A i : AccountedFor(e, i) \subseteq e
      /\ \A e : WithoutOldest(e) \subseteq e
  BY DEF Unlapsed, AccountedFor, WithoutOldest
<1>b. unaccounted' \subseteq unaccounted /\ gone' = gone => Kept'
  BY EntriesGo DEF TypeOK
<1>1. CASE Connect
  BY <1>1, <1>a, <1>b DEF Connect, At, protocolVars, truthVars, vars
<1>2. CASE Send
  BY <1>2, <1>a, <1>b DEF Send, protocolVars, truthVars, vars
<1>3. CASE SendFails
  BY <1>3, <1>a, <1>b DEF SendFails, protocolVars, truthVars, vars
<1>4. CASE ReceiveFails
  BY <1>4, <1>a, <1>b DEF ReceiveFails, GoOn, At, protocolVars, truthVars, vars
<1>5. CASE ReadServerFrame
  BY <1>5, <1>a, <1>b DEF ReadServerFrame, Heard, PassOver, protocolVars, truthVars, vars
<1>6. CASE ReadBadFrame
  BY <1>6, <1>a, <1>b DEF ReadBadFrame, Heard, GoOn, At, protocolVars, truthVars, vars
<1>7. CASE ReadReply
  BY <1>7, <1>a, <1>b DEF ReadReply, Heard, PassOver, Answered, protocolVars, truthVars,
     vars
<1>8. CASE ReadNullError
  <2>1. unaccounted' \subseteq Unlapsed(unaccounted)
    BY <1>8, <1>a DEF ReadNullError
  <2> QED
    BY <1>8, <2>1, <1>a, <1>b DEF ReadNullError, Heard
<1>9. CASE Abandon
  BY <1>9, <1>a, <1>b DEF Abandon, GoOn, At, protocolVars, truthVars, vars
<1>10. CASE Withdraw
  BY <1>10, <1>a, <1>b DEF Withdraw, GoOn, At, protocolVars, truthVars, vars
<1>11. CASE Notify
  BY <1>11, <1>a, <1>b DEF Notify, GoOn, At, protocolVars, truthVars, vars
<1>12. CASE Account
  <2> DEFINE entry == [id |-> exchange.id, at |-> now]
  <2>1. /\ unaccounted' \subseteq unaccounted \cup {entry}
        /\ Cardinality(unaccounted') <= MaxUnaccounted
    BY <1>12, <1>a, Accounting
  <2>2. /\ exchange.id \in Requests /\ exchange.id \notin Withdrawn /\ exchange.over # 0
        /\ gone \in [Requests -> Departure]
        /\ gone' = [gone EXCEPT ![exchange.id] = [at |-> now, over |-> exchange.over]]
    BY <1>12 DEF Account, At, Numbered, InHand, TypeOK, TruthTypeOK
  <2>3. /\ gone'[exchange.id] = [at |-> now, over |-> exchange.over]
        /\ \A n \in Requests : n # exchange.id => gone'[n] = gone[n]
    BY <2>2
  <2>4. exchange.id \in Withdrawn' /\ Withdrawn \subseteq Withdrawn'
    BY <2>2, <2>3 DEF Withdrawn, NotGone
  <2>5. \A n \in Withdrawn' : gone'[n].over # 0
    <3> SUFFICES ASSUME NEW n \in Withdrawn' PROVE gone'[n].over # 0
      OBVIOUS
    <3>1. CASE n = exchange.id
      BY <2>2, <2>3, <3>1
    <3>2. CASE n # exchange.id
      BY <2>3, <3>2 DEF Withdrawn, Kept
    <3> QED
      BY <3>1, <3>2
  <2>6. \A w \in unaccounted' : w.id \in Withdrawn' /\ w.at = gone'[w.id].at
    <3> SUFFICES ASSUME NEW w \in unaccounted'
                 PROVE  w.id \in Withdrawn' /\ w.at = gone'[w.id].at
      OBVIOUS
    <3>1. CASE w = entry
      BY <2>3, <2>4, <3>1
    <3>2. CASE w \in unaccounted
      <4>1. w.id \in Withdrawn /\ w.at = gone[w.id].at
        BY <3>2 DEF Kept
      <4> QED
        BY <4>1, <2>2, <2>3, <2>4 DEF Withdrawn
    <3> QED
      BY <2>1, <3>1, <3>2
  <2> QED
    BY <2>1, <2>5, <2>6 DEF Kept
<1>13. CASE Fail
  BY <1>13, <1>a, <1>b DEF Fail, Forget, GoOn, At, protocolVars, truthVars, vars
<1>14. CASE Close
  BY <1>14, <1>a, <1>b DEF Close, CloseChannel, protocolVars, truthVars, vars
<1>15. ASSUME NEW cause \in {"timeout", "cancelled"}, ContextEnds(cause) PROVE Kept'
  BY <1>15, <1>a, <1>b DEF ContextEnds, protocolVars, truthVars, vars
<1>16. ASSUME NEW d \in Closers, BeginDisconnect(d) PROVE Kept'
  BY <1>16, <1>a, <1>b DEF BeginDisconnect, Forget, protocolVars, truthVars, vars
<1>17. ASSUME NEW d \in Closers, EndDisconnect(d) PROVE Kept'
  BY <1>17, <1>a, <1>b DEF EndDisconnect, CloseChannel, protocolVars, truthVars, vars
<1>18. ASSUME NEW n \in Requests, Answer(n) PROVE Kept'
  BY <1>18, <1>a, <1>b DEF Answer, Write, protocolVars, truthVars, vars
<1>19. CASE Speak
  BY <1>19, <1>a, <1>b DEF Speak, Write, protocolVars, truthVars, vars
<1>20. CASE Tick
  BY <1>20, <1>a, <1>b DEF Tick, protocolVars, truthVars, vars
<1>21. CASE UNCHANGED vars
  BY <1>21, <1>a, <1>b DEF vars, protocolVars, truthVars, vars
<1> QED
  BY <1>1, <1>2, <1>3, <1>4, <1>5, <1>6, <1>7, <1>8, <1>9, <1>10, <1>11, <1>12, <1>13,
     <1>14, <1>15, <1>16, <1>17, <1>18, <1>19, <1>20, <1>21 DEF Next, Step, Read

LEMMA ConnectionStands ==
    ASSUME TypeOK, Standing, [Next]_vars
    PROVE  Standing'
<1>1. CASE Connect
  BY <1>1, ExchangeMoves DEF Standing, Connect, At, protocolVars, channelVars, serverVars,
     truthVars
<1>2. CASE Send
  BY <1>2, ExchangeMoves DEF Standing, Send, protocolVars, channelVars, serverVars,
     truthVars
<1>3. CASE SendFails
  BY <1>3, ExchangeMoves DEF Standing, SendFails, protocolVars, channelVars, serverVars,
     truthVars
<1>4. CASE ReceiveFails
  BY <1>4, ExchangeMoves DEF Standing, ReceiveFails, GoOn, At, protocolVars, channelVars,
     serverVars, truthVars
<1>5. CASE ReadServerFrame
  BY <1>5, ExchangeMoves DEF Standing, ReadServerFrame, Heard, PassOver, protocolVars,
     channelVars, serverVars, truthVars
<1>6. CASE ReadBadFrame
  BY <1>6, ExchangeMoves DEF Standing, ReadBadFrame, Heard, GoOn, At, protocolVars,
     channelVars, serverVars, truthVars
<1>7. CASE ReadReply
  BY <1>7, ExchangeMoves DEF Standing, ReadReply, Heard, PassOver, Answered, protocolVars,
     channelVars, serverVars, truthVars
<1>8. CASE ReadNullError
  BY <1>8, ExchangeMoves DEF Standing, ReadNullError, Heard, PassOver, Answered,
     protocolVars, channelVars, serverVars, truthVars
<1>9. CASE Abandon
  BY <1>9, ExchangeMoves DEF Standing, Abandon, GoOn, At, protocolVars, channelVars,
     serverVars, truthVars
<1>10. CASE Withdraw
  BY <1>10, ExchangeMoves DEF Standing, Withdraw, GoOn, At, protocolVars, channelVars,
     serverVars, truthVars
<1>11. CASE Notify
  BY <1>11, ExchangeMoves DEF Standing, Notify, GoOn, At, protocolVars, channelVars,
     serverVars, truthVars
<1>12. CASE Account
  BY <1>12, ExchangeMoves DEF Standing, Account, At, protocolVars, channelVars,
     serverVars, truthVars
<1>13. CASE Fail
  BY <1>13, ExchangeMoves DEF Standing, Fail, Forget, GoOn, At, protocolVars, channelVars,
     serverVars, truthVars
<1>14. CASE Close
  BY <1>14, ExchangeMoves DEF Standing, Close, CloseChannel, protocolVars, channelVars,
     serverVars, truthVars
<1>15. ASSUME NEW cause \in {"timeout", "cancelled"}, ContextEnds(cause) PROVE Standing'
  BY <1>15, ExchangeMoves DEF Standing, ContextEnds, protocolVars, channelVars,
     serverVars, truthVars
<1>16. ASSUME NEW d \in Closers, BeginDisconnect(d) PROVE Standing'
  BY <1>16, ExchangeMoves DEF Standing, BeginDisconnect, Forget, protocolVars,
     channelVars, serverVars, truthVars
<1>17. ASSUME NEW d \in Closers, EndDisconnect(d) PROVE Standing'
  BY <1>17, ExchangeMoves DEF Standing, EndDisconnect, CloseChannel, protocolVars,
     channelVars, serverVars, truthVars
<1>18. ASSUME NEW n \in Requests, Answer(n) PROVE Standing'
  BY <1>18, ExchangeMoves DEF Standing, Answer, Write, protocolVars, channelVars,
     serverVars, truthVars
<1>19. CASE Speak
  BY <1>19, ExchangeMoves DEF Standing, Speak, Write, protocolVars, channelVars,
     serverVars, truthVars
<1>20. CASE Tick
  BY <1>20, ExchangeMoves DEF Standing, Tick, protocolVars, channelVars, serverVars,
     truthVars
<1>21. CASE UNCHANGED vars
  BY <1>21, ExchangeMoves DEF Standing, vars, protocolVars, channelVars, serverVars,
     truthVars
<1> QED
  BY <1>1, <1>2, <1>3, <1>4, <1>5, <1>6, <1>7, <1>8, <1>9, <1>10, <1>11, <1>12, <1>13,
     <1>14, <1>15, <1>16, <1>17, <1>18, <1>19, <1>20, <1>21 DEF Next, Step, Read

LEMMA SilenceCounted ==
    ASSUME TypeOK, Mute, [Next]_vars
    PROVE  Mute'
<1>a. mutes \in Nat
  BY DEF TypeOK, TruthTypeOK
<1>1. CASE Connect
  BY <1>1, <1>a, ExchangeMoves DEF Mute, Connect, At, protocolVars, channelVars,
     serverVars, truthVars
<1>2. CASE Send
  BY <1>2 DEF Mute, Send, At, truthVars
<1>3. CASE SendFails
  BY <1>3, <1>a, ExchangeMoves DEF Mute, SendFails, protocolVars, channelVars, serverVars,
     truthVars
<1>4. CASE ReceiveFails
  BY <1>4, <1>a, ExchangeMoves DEF Mute, ReceiveFails, GoOn, At, protocolVars,
     channelVars, serverVars, truthVars
<1>5. CASE ReadServerFrame
  BY <1>5, <1>a, ExchangeMoves DEF Mute, ReadServerFrame, Heard, PassOver, protocolVars,
     channelVars, serverVars, truthVars
<1>6. CASE ReadBadFrame
  BY <1>6, <1>a, ExchangeMoves DEF Mute, ReadBadFrame, Heard, GoOn, At, protocolVars,
     channelVars, serverVars, truthVars
<1>7. CASE ReadReply
  BY <1>7, <1>a, ExchangeMoves DEF Mute, ReadReply, Heard, PassOver, Answered,
     protocolVars, channelVars, serverVars, truthVars
<1>8. CASE ReadNullError
  BY <1>8, <1>a, ExchangeMoves DEF Mute, ReadNullError, Heard, PassOver, Answered,
     protocolVars, channelVars, serverVars, truthVars
<1>9. CASE Abandon
  BY <1>9, <1>a, ExchangeMoves DEF Mute, Abandon, GoOn, At, protocolVars, channelVars,
     serverVars, truthVars
<1>10. CASE Withdraw
  <2>1. CASE connected /\ TimedOut /\ silent
    BY <1>10, <2>1, ExchangeMoves DEF Withdraw, Mute, GoOn, Hung
  <2>2. CASE connected /\ TimedOut /\ ~silent
    <3>1. mutes = 0
      BY <1>10, <2>2, <1>a DEF Withdraw, Mute, At
    <3>2. mutes' = 1 /\ connected'
      BY <1>10, <2>2, <3>1 DEF Withdraw
    <3>3. silent'
      BY <1>10, <2>2 DEF Withdraw, StillSilent, Hung
    <3> QED
      BY <3>2, <3>3 DEF Mute
  <2>3. CASE ~(connected /\ TimedOut)
    BY <1>10, <2>3 DEF Withdraw, Mute, StillSilent, At
  <2> QED
    BY <2>1, <2>2, <2>3
<1>11. CASE Notify
  BY <1>11, <1>a, ExchangeMoves DEF Mute, Notify, GoOn, At, protocolVars, channelVars,
     serverVars, truthVars
<1>12. CASE Account
  BY <1>12, <1>a, ExchangeMoves DEF Mute, Account, At, protocolVars, channelVars,
     serverVars, truthVars
<1>13. CASE Fail
  BY <1>13, <1>a, ExchangeMoves DEF Mute, Fail, Forget, GoOn, At, protocolVars,
     channelVars, serverVars, truthVars
<1>14. CASE Close
  BY <1>14 DEF Mute, Close, At, protocolVars, truthVars
<1>15. ASSUME NEW cause \in {"timeout", "cancelled"}, ContextEnds(cause) PROVE Mute'
  BY <1>15, <1>a, ExchangeMoves DEF Mute, ContextEnds, protocolVars, channelVars,
     serverVars, truthVars
<1>16. ASSUME NEW d \in Closers, BeginDisconnect(d) PROVE Mute'
  BY <1>16, <1>a, ExchangeMoves DEF Mute, BeginDisconnect, Forget, protocolVars,
     channelVars, serverVars, truthVars
<1>17. ASSUME NEW d \in Closers, EndDisconnect(d) PROVE Mute'
  BY <1>17, <1>a, ExchangeMoves DEF Mute, EndDisconnect, CloseChannel, protocolVars,
     channelVars, serverVars, truthVars
<1>18. ASSUME NEW n \in Requests, Answer(n) PROVE Mute'
  BY <1>18, <1>a, ExchangeMoves DEF Mute, Answer, Write, protocolVars, channelVars,
     serverVars, truthVars
<1>19. CASE Speak
  BY <1>19, <1>a, ExchangeMoves DEF Mute, Speak, Write, protocolVars, channelVars,
     serverVars, truthVars
<1>20. CASE Tick
  BY <1>20, <1>a, ExchangeMoves DEF Mute, Tick, protocolVars, channelVars, serverVars,
     truthVars
<1>21. CASE UNCHANGED vars
  BY <1>21, <1>a, ExchangeMoves DEF Mute, vars, protocolVars, channelVars, serverVars,
     truthVars
<1> QED
  BY <1>1, <1>2, <1>3, <1>4, <1>5, <1>6, <1>7, <1>8, <1>9, <1>10, <1>11, <1>12, <1>13,
     <1>14, <1>15, <1>16, <1>17, <1>18, <1>19, <1>20, <1>21 DEF Next, Step, Read

-----------------------------------------------------------------------------
(* What is on the wire.                                                     *)

\* The frames left say what they said.
LEMMA FramesMoveUp ==
    ASSUME TypeOK, wire # <<>>, wire' = Tail(wire)
    PROVE  /\ \A i \in DOMAIN wire' : Says(i)' => Says(i + 1) /\ wire'[i] = wire[i + 1] /\ 1 < i + 1
           /\ \A i \in DOMAIN wire : i \in Nat /\ (i # 1 => i - 1 \in DOMAIN wire')
           /\ \A n : OnWire(n)' => \E i \in DOMAIN wire : Says(i) /\ 1 < i /\ wire[i].id = n
<1>1. wire \in Seq(Frame)
  BY DEF TypeOK, TruthTypeOK
<1>2. \A i \in DOMAIN wire' : /\ i + 1 \in DOMAIN wire /\ wire'[i] = wire[i + 1]
                             /\ i \in Nat /\ 1 <= i
  BY <1>1, ReadsHead
<1>3. \A i \in DOMAIN wire' : Says(i)' => Says(i + 1) /\ wire'[i] = wire[i + 1] /\ 1 < i + 1
  BY <1>2 DEF Says
<1>4. ASSUME NEW n, OnWire(n)'
      PROVE  \E i \in DOMAIN wire : Says(i) /\ 1 < i /\ wire[i].id = n
  <2>1. PICK i \in DOMAIN wire' : Says(i)' /\ wire'[i].id = n
    BY <1>4 DEF OnWire
  <2>2. i + 1 \in DOMAIN wire /\ Says(i + 1) /\ 1 < i + 1 /\ wire[i + 1].id = n
    BY <1>2, <1>3, <2>1
  <2> QED
    BY <2>2
<1> QED
  BY <1>1, <1>3, <1>4, ReadsHead

LEMMA FramesRead ==
    ASSUME TypeOK, Wired, wire # <<>>, wire' = Tail(wire),
           UNCHANGED <<asked, latest, inOrder, channel, next>>, channel # 0,
           \/ heardOf' = heardOf
           \/ Says(1) /\ heardOf' = heardOf \cup {Head(wire).id}
    PROVE  Wired'
<1>1. /\ 1 \in DOMAIN wire /\ Head(wire) = wire[1] /\ DOMAIN wire \subseteq Nat
      /\ \A i \in DOMAIN wire : wire[i] \in Frame
      /\ DOMAIN wire' \subseteq Nat
  BY ReadsHead DEF TypeOK, TruthTypeOK
<1>2. \A i \in DOMAIN wire' : Says(i)' =>
          Says(i + 1) /\ i + 1 \in DOMAIN wire /\ wire'[i] = wire[i + 1] /\ 1 < i + 1
  BY FramesMoveUp DEF Says
<1>3. Says(1) => /\ Head(wire).id \in Requests /\ Head(wire).id <= latest
                 /\ Head(wire).id \notin asked
                 /\ \A j \in DOMAIN wire : Says(j) /\ 1 < j => wire[j].id # Head(wire).id
                 /\ inOrder =>
                        \A j \in DOMAIN wire : Says(j) /\ 1 < j => Head(wire).id < wire[j].id
  BY <1>1 DEF Wired, Answers, Ordered
<1>4. Answers'
  <2>1. (asked \cap heardOf = {})'
    BY <1>3 DEF Wired, Answers
  <2>2. ASSUME NEW i \in DOMAIN wire', Says(i)'
        PROVE  /\ wire'[i].id \in Requests /\ wire'[i].id < next' /\ wire'[i].id <= latest'
               /\ wire'[i].id \notin asked' \cup heardOf'
    <3>1. Says(i + 1) /\ i + 1 \in DOMAIN wire /\ wire'[i] = wire[i + 1] /\ 1 < i + 1
      BY <1>2, <2>2
    <3>2. /\ wire[i + 1].id \in Requests /\ wire[i + 1].id < next /\ wire[i + 1].id <= latest
          /\ wire[i + 1].id \notin asked \cup heardOf
      BY <3>1 DEF Wired, Answers
    <3> QED
      BY <3>1, <3>2, <1>3
  <2>3. ASSUME NEW i \in DOMAIN wire', NEW j \in DOMAIN wire', Says(i)', Says(j)', i < j
        PROVE  wire'[i].id # wire'[j].id
    <3>1. i + 1 < j + 1
      BY <1>1, <2>3
    <3> QED
      BY <1>2, <2>3, <3>1 DEF Wired, Answers
  <2>4. \A n \in heardOf' : n <= latest'
    BY <1>3 DEF Wired, Answers
  <2> QED
    BY <2>1, <2>2, <2>3, <2>4 DEF Answers
<1>5. Ordered'
  <2> SUFFICES ASSUME inOrder'
               PROVE  /\ \A i, j \in DOMAIN wire' :
                             i < j /\ Says(i)' /\ Says(j)' => wire'[i].id < wire'[j].id
                      /\ \A n \in heardOf', i \in DOMAIN wire' : Says(i)' => n < wire'[i].id
    BY DEF Ordered
  <2>1. ASSUME NEW i \in DOMAIN wire', NEW j \in DOMAIN wire', i < j, Says(i)', Says(j)'
        PROVE  wire'[i].id < wire'[j].id
    <3>1. i + 1 < j + 1
      BY <1>1, <2>1
    <3> QED
      BY <1>2, <2>1, <3>1 DEF Wired, Ordered
  <2>2. ASSUME NEW n \in heardOf', NEW i \in DOMAIN wire', Says(i)'
        PROVE  n < wire'[i].id
    <3>1. Says(i + 1) /\ i + 1 \in DOMAIN wire /\ wire'[i] = wire[i + 1] /\ 1 < i + 1
      BY <1>2, <2>2
    <3>2. CASE n \in heardOf
      BY <3>1, <3>2 DEF Wired, Ordered
    <3>3. CASE Says(1) /\ n = Head(wire).id
      BY <3>1, <3>3, <1>3
    <3> QED
      BY <2>2, <3>2, <3>3
  <2> QED
    BY <2>1, <2>2
<1> QED
  BY <1>4, <1>5 DEF Wired, Closed

LEMMA FramesStand ==
    ASSUME TypeOK, Wired, UNCHANGED <<asked, wire, latest, inOrder, heardOf>>,
           channel' = 0 => channel = 0, next' = next \/ next' = next + 1
    PROVE  Wired'
<1>1. \A i : Says(i)' <=> Says(i)
  BY DEF Says
<1>2. Answers'
  <2>1. next \in Nat /\ next <= next'
    BY Bounds DEF TypeOK, ClientTypeOK
  <2>2. \A i \in DOMAIN wire : Says(i) => wire[i].id \in Nat /\ wire[i].id < next
    BY DEF Wired, Answers, Requests
  <2>3. next' \in Nat
    BY <2>1
  <2>4. \A i \in DOMAIN wire : Says(i) => wire[i].id < next'
    BY <2>1, <2>2, <2>3
  <2> QED
    BY <1>1, <2>4 DEF Wired, Answers
<1>3. Ordered'
  BY <1>1 DEF Wired, Ordered
<1> QED
  BY <1>2, <1>3 DEF Wired, Closed

LEMMA FramesCleared ==
    ASSUME TypeOK, Wired, CloseChannel, heardOf' = heardOf
    PROVE  Wired'
<1>1. asked' = {} /\ wire' = <<>> /\ latest' = latest /\ inOrder' = inOrder
  BY DEF CloseChannel
<1>2. DOMAIN wire' = {}
  BY <1>1
<1> QED
  BY <1>1, <1>2 DEF Wired, Answers, Ordered, Closed

LEMMA FrameSent ==
    ASSUME TypeOK, Numbered, Wired, Send
    PROVE  Wired'
<1>1. /\ next' = next + 1 /\ asked' = asked \cup {next} /\ channel' = channel /\ channel # 0
      /\ wire' = wire /\ latest' = latest /\ inOrder' = inOrder /\ heardOf' = heardOf
  BY DEF Send, channelVars, truthVars
<1>2. next \in Nat
  BY Bounds DEF TypeOK, ClientTypeOK
<1>3. next \notin heardOf
  BY <1>2 DEF Numbered
<1>4. \A i : Says(i)' <=> Says(i)
  BY <1>1 DEF Says
<1>5. Answers'
  <2>1. (asked \cap heardOf = {})'
    BY <1>1, <1>3 DEF Wired, Answers
  <2>2. ASSUME NEW i \in DOMAIN wire, Says(i)
        PROVE  /\ wire[i].id \in Requests /\ wire[i].id < next' /\ wire[i].id <= latest
               /\ wire[i].id \notin asked' \cup heardOf
    <3>1. /\ wire[i].id \in Requests /\ wire[i].id < next /\ wire[i].id <= latest
          /\ wire[i].id \notin asked \cup heardOf
      BY <2>2 DEF Wired, Answers
    <3>2. wire[i].id \in Nat /\ wire[i].id # next
      BY <1>2, <3>1 DEF Requests
    <3> QED
      BY <1>1, <1>2, <3>1, <3>2
  <2> QED
    BY <1>1, <1>4, <2>1, <2>2 DEF Wired, Answers
<1>6. Ordered'
  BY <1>1, <1>4 DEF Wired, Ordered
<1> QED
  BY <1>1, <1>5, <1>6 DEF Wired, Closed

\* A frame more says what it says, and the others what they said.
LEMMA FrameAdded ==
    ASSUME TypeOK, NEW frame \in Frame, Write(frame), NEW last, last = Len(wire) + 1
    PROVE  /\ DOMAIN wire' = DOMAIN wire \cup {last} /\ wire'[last] = frame
           /\ \A i \in DOMAIN wire : /\ wire'[i] = wire[i] /\ i \in Nat /\ i < last
                                     /\ Says(i)' <=> Says(i)
           /\ Says(last)' <=> frame.kind \in {"reply", "null"}
           /\ last \in Nat /\ channel' = channel /\ channel # 0
<1>1. wire \in Seq(Frame) /\ wire' = Append(wire, frame)
  BY DEF TypeOK, TruthTypeOK, Write
<1>2. Len(wire) \in Nat
  BY <1>1
<1>3. /\ DOMAIN wire' = DOMAIN wire \cup {last} /\ wire'[last] = frame
      /\ \A i \in DOMAIN wire : wire'[i] = wire[i] /\ i \in Nat /\ i < last
      /\ last \in Nat
  BY <1>1, <1>2, WritesLast
<1>4. \A i \in DOMAIN wire : Says(i)' <=> Says(i)
  BY <1>3 DEF Says
<1>5. Says(last)' <=> frame.kind \in {"reply", "null"}
  BY <1>3 DEF Says
<1>6. channel' = channel /\ channel # 0
  BY DEF Write, channelVars
<1> QED
  BY <1>3, <1>4, <1>5, <1>6

LEMMA FrameAnswers ==
    ASSUME TypeOK, Numbered, Wired, NEW n \in Requests, Answer(n)
    PROVE  Wired'
<1>1. PICK kind \in {"reply", "null"} : Write([kind |-> kind, id |-> n])
  BY DEF Answer
<1> DEFINE frame == [kind |-> kind, id |-> n]
<1>0. PICK last : last = Len(wire) + 1
  OBVIOUS
<1>2. frame \in Frame /\ frame.id = n
  BY DEF Frame, Requests
<1>3. /\ DOMAIN wire' = DOMAIN wire \cup {last} /\ wire'[last] = frame
      /\ \A i \in DOMAIN wire : /\ wire'[i] = wire[i] /\ i \in Nat /\ i < last
                                /\ Says(i)' <=> Says(i)
      /\ last \in Nat /\ channel' = channel /\ channel # 0
  <2> HIDE DEF frame
  <2> QED
    BY <1>0, <1>1, <1>2, FrameAdded DEF frame
<1>4. /\ n \in asked /\ asked' = asked \ {n} /\ next' = next /\ heardOf' = heardOf
      /\ latest' = (IF n > latest THEN n ELSE latest)
      /\ inOrder' = (inOrder /\ n > latest)
  BY <1>1 DEF Answer, Write, protocolVars, truthVars
<1>5. /\ n < next /\ n \notin heardOf /\ n \in Nat /\ latest \in Nat /\ latest' \in Nat
      /\ latest <= latest' /\ n <= latest'
  BY <1>4, Bounds DEF Numbered, Wired, Answers, Requests, TypeOK, TruthTypeOK
<1>6. ASSUME NEW i \in DOMAIN wire, Says(i)
      PROVE  /\ wire[i].id \in Requests /\ wire[i].id \in Nat /\ wire[i].id < next
             /\ wire[i].id <= latest /\ wire[i].id # n
             /\ wire[i].id \notin asked \cup heardOf
  BY <1>4, <1>6 DEF Wired, Answers, Requests
<1>7. \A h \in heardOf : h <= latest /\ h \in Nat
  <2> TAKE h \in heardOf
  <2>1. h \in 1..MaxRequests /\ h <= latest
    BY DEF Wired, Answers, Requests, TypeOK, TruthTypeOK
  <2> QED
    BY <2>1, Bounds
<1>8. Answers'
  <2> HIDE DEF frame
  <2>1. (asked \cap heardOf = {})'
    BY <1>4 DEF Wired, Answers
  <2>2. ASSUME NEW i \in DOMAIN wire', Says(i)'
        PROVE  /\ wire'[i].id \in Requests /\ wire'[i].id < next' /\ wire'[i].id <= latest'
               /\ wire'[i].id \notin asked' \cup heardOf'
    <3>1. CASE i = last
      BY <3>1, <1>2, <1>3, <1>4, <1>5
    <3>2. CASE i \in DOMAIN wire
      <4>1. /\ wire'[i] = wire[i] /\ wire[i].id \in Requests /\ wire[i].id \in Nat
            /\ wire[i].id < next /\ wire[i].id <= latest
            /\ wire[i].id \notin asked \cup heardOf
        BY <3>2, <2>2, <1>3, <1>6
      <4> QED
        BY <4>1, <1>4, <1>5
    <3> QED
      BY <2>2, <3>1, <3>2, <1>3
  <2>3. ASSUME NEW i \in DOMAIN wire', NEW j \in DOMAIN wire', Says(i)', Says(j)', i < j
        PROVE  wire'[i].id # wire'[j].id
    <3>1. i # last /\ i \in DOMAIN wire
      BY <2>3, <1>3
    <3>2. CASE j = last
      BY <3>1, <3>2, <2>3, <1>2, <1>3, <1>6
    <3>3. CASE j \in DOMAIN wire
      BY <3>1, <3>3, <2>3, <1>3 DEF Wired, Answers
    <3> QED
      BY <3>2, <3>3, <1>3
  <2>4. \A h \in heardOf' : h <= latest'
    BY <1>4, <1>5, <1>7
  <2> QED
    BY <2>1, <2>2, <2>3, <2>4 DEF Answers
<1>9. Ordered'
  <2> HIDE DEF frame
  <2>0. SUFFICES ASSUME inOrder'
               PROVE  /\ \A i, j \in DOMAIN wire' :
                             i < j /\ Says(i)' /\ Says(j)' => wire'[i].id < wire'[j].id
                      /\ \A h \in heardOf', i \in DOMAIN wire' : Says(i)' => h < wire'[i].id
    BY DEF Ordered
  <2>a. inOrder /\ n > latest
    BY ONLY <2>0, <1>4
  <2>1. ASSUME NEW i \in DOMAIN wire', NEW j \in DOMAIN wire', i < j, Says(i)', Says(j)'
        PROVE  wire'[i].id < wire'[j].id
    <3>1. i # last /\ i \in DOMAIN wire
      BY <2>1, <1>3
    <3>2. CASE j = last
      BY <3>1, <3>2, <2>1, <2>a, <1>2, <1>3, <1>5, <1>6
    <3>3. CASE j \in DOMAIN wire
      BY <3>1, <3>3, <2>1, <2>a, <1>3 DEF Wired, Ordered
    <3> QED
      BY <3>2, <3>3, <1>3
  <2>2. ASSUME NEW h \in heardOf', NEW i \in DOMAIN wire', Says(i)'
        PROVE  h < wire'[i].id
    <3>1. CASE i = last
      BY <3>1, <2>2, <2>a, <1>2, <1>3, <1>4, <1>5, <1>7
    <3>2. CASE i \in DOMAIN wire
      BY <3>2, <2>2, <2>a, <1>3, <1>4 DEF Wired, Ordered
    <3> QED
      BY <3>1, <3>2, <1>3
  <2> QED
    BY <2>1, <2>2
<1> QED
  BY <1>3, <1>8, <1>9 DEF Wired, Closed

LEMMA FrameSpoken ==
    ASSUME TypeOK, Wired, Speak
    PROVE  Wired'
<1>1. PICK kind \in {"notice", "bad"} : Write([kind |-> kind, id |-> 0])
  BY DEF Speak
<1> DEFINE frame == [kind |-> kind, id |-> 0]
<1>0. PICK last : last = Len(wire) + 1
  OBVIOUS
<1>2. frame \in Frame /\ frame.kind \notin {"reply", "null"}
  BY Bounds DEF Frame
<1>3. /\ DOMAIN wire' = DOMAIN wire \cup {last} /\ wire'[last] = frame
      /\ \A i \in DOMAIN wire : /\ wire'[i] = wire[i] /\ i \in Nat /\ i < last
                                /\ Says(i)' <=> Says(i)
      /\ ~Says(last)'
      /\ last \in Nat /\ channel' = channel /\ channel # 0
  <2> HIDE DEF frame
  <2> QED
    BY <1>0, <1>1, <1>2, FrameAdded DEF frame
<1>4. /\ asked' = asked /\ next' = next /\ heardOf' = heardOf /\ latest' = latest
      /\ inOrder' = inOrder
  BY <1>1 DEF Speak, Write, protocolVars, truthVars
<1>5. \A i \in DOMAIN wire' : Says(i)' => i \in DOMAIN wire /\ Says(i) /\ wire'[i] = wire[i]
  BY <1>3
<1>6. Answers'
  BY <1>4, <1>5 DEF Wired, Answers
<1>7. Ordered'
  BY <1>4, <1>5 DEF Wired, Ordered
<1> QED
  BY <1>3, <1>6, <1>7 DEF Wired, Closed

LEMMA WireHolds ==
    ASSUME TypeOK, Numbered, Wired, [Next]_vars
    PROVE  Wired'
<1>1. CASE Connect
  <2>1. channel' # 0
    <3>1. channel = 0 => channel' = opened + 1 /\ opened \in Nat
      BY <1>1, Bounds DEF Connect, TypeOK, ClientTypeOK
    <3> QED
      BY <1>1, <3>1 DEF Connect
  <2> QED
    BY <1>1, <2>1, FramesStand DEF Connect, serverVars
<1>2. CASE Send
  BY <1>2, FrameSent
<1>3. CASE SendFails
  BY <1>3, FramesStand DEF SendFails, protocolVars, channelVars, serverVars, truthVars
<1>4. CASE ReceiveFails
  BY <1>4, FramesStand DEF ReceiveFails, protocolVars, channelVars, serverVars, truthVars
<1>5. CASE ReadServerFrame
  BY <1>5, FramesRead DEF ReadServerFrame, Heard, channelVars
<1>6. CASE ReadBadFrame
  BY <1>6, FramesRead DEF ReadBadFrame, Heard, channelVars
<1>7. CASE ReadReply
  <2>1. Says(1)
    BY <1>7, ReadsHead DEF Says, ReadReply, Heard, TypeOK, TruthTypeOK
  <2> QED
    BY <1>7, <2>1, FramesRead DEF ReadReply, Heard, channelVars
<1>8. CASE ReadNullError
  <2>1. Says(1)
    BY <1>8, ReadsHead DEF Says, ReadNullError, Heard, TypeOK, TruthTypeOK
  <2> QED
    BY <1>8, <2>1, FramesRead DEF ReadNullError, Heard, channelVars
<1>9. CASE Abandon
  BY <1>9, FramesStand DEF Abandon, protocolVars, channelVars, serverVars, truthVars
<1>10. CASE Withdraw
  BY <1>10, FramesStand DEF Withdraw, protocolVars, channelVars, serverVars, truthVars
<1>11. CASE Notify
  BY <1>11, FramesStand DEF Notify, protocolVars, channelVars, serverVars, truthVars
<1>12. CASE Account
  BY <1>12, FramesStand DEF Account, protocolVars, channelVars, serverVars, truthVars
<1>13. CASE Fail
  BY <1>13, FramesStand DEF Fail, Forget, protocolVars, channelVars, serverVars, truthVars
<1>14. CASE Close
  BY <1>14, FramesCleared DEF Close, truthVars
<1>15. ASSUME NEW cause \in {"timeout", "cancelled"}, ContextEnds(cause) PROVE Wired'
  BY <1>15, FramesStand DEF ContextEnds, protocolVars, channelVars, serverVars, truthVars
<1>16. ASSUME NEW d \in Closers, BeginDisconnect(d) PROVE Wired'
  BY <1>16, FramesStand DEF BeginDisconnect, Forget, protocolVars, channelVars,
     serverVars, truthVars
<1>17. ASSUME NEW d \in Closers, EndDisconnect(d) PROVE Wired'
  BY <1>17, FramesCleared DEF EndDisconnect, truthVars
<1>18. ASSUME NEW n \in Requests, Answer(n) PROVE Wired'
  BY <1>18, FrameAnswers
<1>19. CASE Speak
  BY <1>19, FrameSpoken
<1>20. CASE Tick
  BY <1>20, FramesStand DEF Tick, protocolVars, channelVars, serverVars, truthVars
<1>21. CASE UNCHANGED vars
  BY <1>21, FramesStand DEF vars, protocolVars, channelVars, serverVars, truthVars
<1> QED
  BY <1>1, <1>2, <1>3, <1>4, <1>5, <1>6, <1>7, <1>8, <1>9, <1>10, <1>11, <1>12, <1>13,
     <1>14, <1>15, <1>16, <1>17, <1>18, <1>19, <1>20, <1>21 DEF Next, Step, Read

-----------------------------------------------------------------------------
(* What is held against what is open.                                       *)

Below(S, k) == {n \in S : n < k}

LEMMA HeldAreRequests ==
    ASSUME TypeOK, Kept
    PROVE  /\ Held \subseteq Requests /\ Open \subseteq Requests /\ Accounts \subseteq Withdrawn
           /\ HeldLate \subseteq Requests /\ OpenLate \subseteq Requests
           /\ Requests \subseteq Nat
           /\ Cardinality(HeldLate) \in Nat /\ Cardinality(OpenLate) \in Nat
<1>1. Accounts \subseteq Withdrawn
  BY EntriesCounted DEF TypeOK
<1>2. Withdrawn \subseteq Requests /\ heardOf \subseteq Requests
  BY DEF Withdrawn, TypeOK, TruthTypeOK
<1>3. Held \subseteq Requests /\ Open \subseteq Requests
  BY <1>1, <1>2 DEF Held, Open
<1>4. HeldLate \subseteq Requests /\ OpenLate \subseteq Requests
  BY <1>3 DEF HeldLate, OpenLate
<1>5. Requests \subseteq Nat
  BY Bounds DEF Requests
<1>6. Cardinality(HeldLate) \in Nat /\ Cardinality(OpenLate) \in Nat
  BY <1>4, RequestsAreFinite
<1> QED
  BY <1>1, <1>3, <1>4, <1>5, <1>6

LEMMA HoldingLess ==
    ASSUME TypeOK, Kept, Balanced, Held' \subseteq Held, heardOf' = heardOf, gone' = gone,
           inOrder' => inOrder
    PROVE  Balanced'
<1>1. \A n : Passed(n)' <=> Passed(n)
  BY DEF Passed
<1>2. OpenLate' = OpenLate
  BY <1>1 DEF OpenLate, Open, Withdrawn
<1>3. HeldLate' \subseteq HeldLate
  BY <1>1 DEF HeldLate
<1>4. Cardinality(HeldLate') <= Cardinality(HeldLate) /\ Cardinality(HeldLate') \in Nat
  <2>1. HeldLate \subseteq Requests /\ HeldLate' \subseteq Requests
    BY <1>3, HeldAreRequests
  <2> QED
    BY <1>3, <2>1, CountsShrink, RequestsAreFinite
<1>5. inOrder' => Cardinality(HeldLate) <= Cardinality(OpenLate)
  BY DEF Balanced
<1> QED
  BY <1>2, <1>4, <1>5, HeldAreRequests DEF Balanced

\* The balance holds up to any request later than what was heard.
LEMMA BalancedBelow ==
    ASSUME TypeOK, Kept, Balanced, inOrder,
           NEW k \in Requests, \A h \in heardOf : h < k
    PROVE  /\ Below(Held, k) \subseteq Requests /\ Below(Open, k) \subseteq Requests
           /\ Cardinality(Below(Held, k)) \in Nat /\ Cardinality(Below(Open, k)) \in Nat
           /\ Cardinality(Below(Held, k)) <= Cardinality(Below(Open, k))
<1>1. /\ Held \subseteq Requests /\ Open \subseteq Requests /\ Accounts \subseteq Withdrawn
      /\ Requests \subseteq Nat /\ heardOf \subseteq Requests
      /\ HeldLate \subseteq Requests /\ OpenLate \subseteq Requests
  BY HeldAreRequests DEF TypeOK, TruthTypeOK
<1>2. Below(Held, k) \subseteq Requests /\ Below(Open, k) \subseteq Requests
  BY <1>1 DEF Below
<1> DEFINE B == {n \in Below(Held, k) : ~Passed(n)}
           D == {n \in Below(Open, k) : ~Passed(n)}
<1>3. \A n \in Requests : Passed(n) => n < k
  <2> SUFFICES ASSUME NEW n \in Requests, Passed(n) PROVE n < k
    OBVIOUS
  <2>1. PICK h \in heardOf : n <= h
    BY DEF Passed
  <2>2. h < k /\ h \in Nat /\ n \in Nat /\ k \in Nat
    BY <1>1
  <2> QED
    BY <2>1, <2>2
<1>4. Below(Held, k) = HeldLate \cup B
  BY <1>1, <1>3 DEF Below, HeldLate
<1>5. Below(Open, k) = OpenLate \cup D
  BY <1>1, <1>3 DEF Below, OpenLate
<1>6. B \subseteq D
  <2> SUFFICES ASSUME NEW n \in B PROVE n \in Below(Open, k)
    OBVIOUS
  <2>1. n \in Held /\ n < k /\ ~Passed(n) /\ n \in Nat
    BY <1>1 DEF Below
  <2>2. n \notin heardOf
    BY <2>1 DEF Passed
  <2>3. n \in Withdrawn
    BY <1>1, <2>1, <2>2 DEF Held
  <2> QED
    BY <2>1, <2>2, <2>3 DEF Below, Open
<1>7. D \subseteq Requests /\ OpenLate \cap D = {}
  BY <1>2 DEF OpenLate
<1>8. Cardinality(HeldLate) <= Cardinality(OpenLate)
  BY DEF Balanced
<1>9. Cardinality(HeldLate \cup B) <= Cardinality(OpenLate \cup D)
  <2> HIDE DEF B, D
  <2> QED
    BY <1>1, <1>6, <1>7, <1>8, CountsAddUp
<1> QED
  BY <1>2, <1>4, <1>5, <1>9, RequestsAreFinite

\* A reply is read: what is held below it is no more, or one request below it
\* has made room for the one it answers.
LEMMA HearingBalances ==
    ASSUME TypeOK, Kept, Balanced, NEW k \in Requests,
           inOrder => \A h \in heardOf : h < k,
           heardOf' = heardOf \cup {k}, gone' = gone, inOrder' = inOrder,
           Held' \subseteq Requests,
           \/ \A n \in Held' : n <= k => n \in Below(Held, k)
           \/ \E o \in Below(Held, k) :
                 \A n \in Held' : n <= k => n \in (Below(Held, k) \ {o}) \cup {k}
    PROVE  Balanced'
<1> SUFFICES ASSUME inOrder PROVE Cardinality(HeldLate') <= Cardinality(OpenLate')
  BY DEF Balanced
<1>1. /\ Below(Held, k) \subseteq Requests /\ Below(Open, k) \subseteq Requests
      /\ Cardinality(Below(Held, k)) \in Nat /\ Cardinality(Below(Open, k)) \in Nat
      /\ Cardinality(Below(Held, k)) <= Cardinality(Below(Open, k))
  BY BalancedBelow
<1>2. Requests \subseteq Nat /\ heardOf \subseteq Requests /\ Open \subseteq Requests
  BY HeldAreRequests DEF TypeOK, TruthTypeOK
<1>3. ASSUME NEW n, Passed(n)', n \in Nat PROVE n <= k
  <2>1. PICK h \in heardOf \cup {k} : n <= h
    BY <1>3 DEF Passed
  <2>2. h \in Nat /\ k \in Nat /\ h <= k
    BY <1>2, <2>1
  <2> QED
    BY <1>3, <2>1, <2>2
<1>4. ASSUME NEW n \in Nat, n <= k PROVE Passed(n)'
  BY <1>4 DEF Passed
<1>5. OpenLate' = Below(Open, k)
  <2>1. Open' = Open \ {k}
    BY DEF Open, Withdrawn
  <2>2. \A n \in Open : n \in Nat
    BY <1>2
  <2>3. \A n \in Open \ {k} : Passed(n)' <=> n < k
    <3> TAKE n \in Open \ {k}
    <3>1. n \in Nat /\ k \in Nat /\ n # k
      BY <1>2
    <3>2. Passed(n)' <=> n <= k
      BY <1>3, <1>4, <3>1
    <3> QED
      BY <3>1, <3>2
  <2>4. ~(k < k)
    BY <1>2
  <2>5. OpenLate' = {n \in Open \ {k} : Passed(n)'}
    BY <2>1 DEF OpenLate
  <2> QED
    BY <2>3, <2>4, <2>5 DEF Below
<1>6. \A n \in HeldLate' : n \in Held' /\ n <= k
  <2> SUFFICES ASSUME NEW n \in HeldLate' PROVE n \in Held' /\ n <= k
    OBVIOUS
  <2>1. n \in Held' /\ Passed(n)'
    BY DEF HeldLate
  <2>2. n \in Nat
    BY <1>2, <2>1
  <2> QED
    BY <1>3, <2>1, <2>2
<1>7. CASE \A n \in Held' : n <= k => n \in Below(Held, k)
  <2>1. HeldLate' \subseteq Below(Held, k)
    BY <1>6, <1>7
  <2>2. Cardinality(HeldLate') <= Cardinality(Below(Held, k)) /\ HeldLate' \subseteq Requests
    BY <1>1, <2>1, CountsShrink
  <2> QED
    BY <1>1, <1>5, <2>2, RequestsAreFinite
<1>8. CASE \E o \in Below(Held, k) :
               \A n \in Held' : n <= k => n \in (Below(Held, k) \ {o}) \cup {k}
  <2>1. PICK o \in Below(Held, k) :
               \A n \in Held' : n <= k => n \in (Below(Held, k) \ {o}) \cup {k}
    BY <1>8
  <2>2. HeldLate' \subseteq (Below(Held, k) \ {o}) \cup {k}
    BY <1>6, <2>1
  <2>3. Cardinality(HeldLate') <= Cardinality(Below(Held, k)) /\ HeldLate' \subseteq Requests
    BY <1>1, <2>2, CountsSwap
  <2> QED
    BY <1>1, <1>5, <2>3, RequestsAreFinite
<1> QED
  BY <1>7, <1>8

-----------------------------------------------------------------------------
LEMMA HeldTyped ==
    ASSUME TypeOK'
    PROVE  Held' \subseteq Requests
<1>1. unaccounted' \subseteq Entry /\ heardOf' \subseteq Requests
  BY DEF TypeOK, ClientTypeOK, TruthTypeOK
<1>2. Accounts' \subseteq Requests
  BY <1>1 DEF Accounts, Entry
<1> QED
  BY <1>1, <1>2 DEF Held

\* The request the frame read is about.
LEMMA ReplyIsNew ==
    ASSUME TypeOK, Wired, wire # <<>>, Head(wire).kind \in {"reply", "null"}
    PROVE  /\ Head(wire).id \in Requests /\ Head(wire).id \notin heardOf \cup asked
           /\ Head(wire).id <= latest /\ Says(1) /\ wire[1] = Head(wire) /\ 1 \in DOMAIN wire
           /\ inOrder => \A h \in heardOf : h < Head(wire).id
<1>1. 1 \in DOMAIN wire /\ wire[1] = Head(wire) /\ Says(1)
  BY ReadsHead DEF TypeOK, TruthTypeOK, Says
<1> QED
  BY <1>1 DEF Wired, Answers, Ordered

LEMMA ReplyBalances ==
    ASSUME TypeOK, Numbered, Kept, Wired, Balanced, TypeOK', ReadReply
    PROVE  Balanced'
<1> DEFINE k == Head(wire).id
<1>1. /\ k \in Requests /\ k \notin heardOf
      /\ inOrder => \A h \in heardOf : h < k
  BY ReplyIsNew DEF ReadReply, Heard
<1>2. heardOf' = heardOf \cup {k} /\ gone' = gone /\ inOrder' = inOrder
  BY DEF ReadReply, Heard
<1>3. /\ Held' \subseteq Requests /\ Requests \subseteq Nat /\ Accounts \subseteq Withdrawn
  BY HeldTyped, HeldAreRequests
<1>4. exchange.step = "receive" /\ exchange.id \notin Withdrawn
  BY DEF ReadReply, Heard, At, Numbered
<1>5. CASE k = exchange.id /\ Answered /\ UNCHANGED unaccounted
  <2>1. Held' = Accounts
    BY <1>5, ExchangeMoves DEF Held, Accounts, Answered, InHand
  <2>2. \A n \in Held' : n <= k => n \in Below(Held, k)
    <3> SUFFICES ASSUME NEW n \in Accounts, n <= k PROVE n \in Below(Held, k)
      BY <2>1
    <3>1. n # k /\ n \in Nat /\ k \in Nat
      BY <1>1, <1>3, <1>4, <1>5, <2>1
    <3> QED
      BY <3>1 DEF Below, Held
  <2> HIDE DEF k
  <2> QED
    BY <1>1, <1>2, <1>3, <2>2, HearingBalances
<1>6. CASE k # exchange.id /\ unaccounted' = AccountedFor(unaccounted, k) /\ PassOver
  <2>1. /\ exchange'.id = exchange.id /\ exchange'.step = "receive"
    BY <1>4, <1>6, ExchangeMoves DEF PassOver
  <2>2. Accounts' \subseteq Accounts \ {k}
    BY <1>6 DEF Accounts, AccountedFor
  <2>3. Held' \subseteq Held \ {k}
    BY <1>2, <1>4, <1>6, <2>1, <2>2 DEF Held, InHand
  <2>4. \A n \in Held' : n <= k => n \in Below(Held, k)
    <3> SUFFICES ASSUME NEW n \in Held', n <= k PROVE n \in Below(Held, k)
      OBVIOUS
    <3>1. n # k /\ n \in Nat /\ k \in Nat /\ n \in Held
      BY <1>1, <1>3, <2>3
    <3> QED
      BY <3>1 DEF Below
  <2> HIDE DEF k
  <2> QED
    BY <1>1, <1>2, <1>3, <2>4, HearingBalances
<1> QED
  BY <1>5, <1>6 DEF ReadReply

\* An error without an id is read in the name of the oldest request kept.
LEMMA OldestKept ==
    ASSUME TypeOK, Kept, Numbered, Unlapsed(unaccounted) # {}, exchange.step # "idle",
           unaccounted' = WithoutOldest(Unlapsed(unaccounted))
    PROVE  LET o == Oldest(Unlapsed(unaccounted)).id
           IN  /\ o \in Accounts /\ o < exchange.id /\ o \in Nat
               /\ Accounts' \subseteq Accounts \ {o}
               /\ \A n \in Accounts' : n \in Nat /\ o < n
               /\ \A w \in Unlapsed(unaccounted) : w.id = o \/ w.id \in Accounts'
<1> DEFINE kept == Unlapsed(unaccounted)
<1>1. kept \subseteq unaccounted /\ unaccounted \subseteq Entry
  BY DEF Unlapsed, TypeOK, ClientTypeOK
<1>2. Oldest(kept) \in kept /\ \A v \in kept : Oldest(kept).id <= v.id
  <2>1. kept \subseteq Entry /\ kept # {}
    BY <1>1
  <2> HIDE DEF kept
  <2> QED
    BY <2>1, OldestLeast
<1>3. PICK w0 : w0 = Oldest(kept)
  OBVIOUS
<1>4. w0 \in kept /\ (\A v \in kept : w0.id <= v.id) /\ unaccounted' = kept \ {w0}
  BY <1>2, <1>3 DEF WithoutOldest
<1>5. \A v \in kept : v.id = w0.id => v = w0
  <2> TAKE v \in kept
  <2>1. v \in Entry /\ w0 \in Entry /\ v.at = gone[v.id].at /\ w0.at = gone[w0.id].at
    BY <1>1, <1>4 DEF Kept
  <2> QED
    BY <2>1 DEF Entry
<1>6. \A v \in kept : v.id \in Nat /\ v.id \in Accounts /\ v.id \in Withdrawn
  <2> TAKE v \in kept
  <2>1. v \in unaccounted /\ v.id \in Requests
    BY <1>1 DEF Entry
  <2> QED
    BY <2>1, HeldAreRequests DEF Accounts, Kept
<1>7. Accounts' = {v.id : v \in kept \ {w0}}
  BY <1>4 DEF Accounts
<1>8. Accounts' \subseteq Accounts \ {w0.id}
  BY <1>5, <1>6, <1>7
<1>9. \A n \in Accounts' : n \in Nat /\ w0.id < n
  <2> SUFFICES ASSUME NEW v \in kept \ {w0} PROVE v.id \in Nat /\ w0.id < v.id
    BY <1>7
  <2> QED
    BY <1>4, <1>5, <1>6
<1>10. w0.id < exchange.id
  <2>1. w0.id < next /\ w0.id # exchange.id /\ exchange.id = next - 1
    BY <1>4, <1>6 DEF Numbered
  <2> QED
    BY <1>4, <1>6, <2>1 DEF TypeOK, ClientTypeOK
<1>11. \A w \in kept : w.id = w0.id \/ w.id \in Accounts'
  BY <1>7
<1> QED
  BY <1>3, <1>4, <1>6, <1>8, <1>9, <1>10, <1>11

LEMMA NullErrorBalances ==
    ASSUME TypeOK, Numbered, Kept, Wired, Balanced, TypeOK', ReadNullError
    PROVE  Balanced'
<1> DEFINE k == Head(wire).id
           kept == Unlapsed(unaccounted)
<1>1. /\ k \in Requests /\ k \notin heardOf
      /\ inOrder => \A h \in heardOf : h < k
  BY ReplyIsNew DEF ReadNullError, Heard
<1>2. heardOf' = heardOf \cup {k} /\ gone' = gone /\ inOrder' = inOrder
  BY DEF ReadNullError, Heard
<1>3. /\ Held' \subseteq Requests /\ Requests \subseteq Nat /\ Accounts \subseteq Withdrawn
      /\ Held \subseteq Requests
  BY HeldTyped, HeldAreRequests
<1>4. exchange.step = "receive" /\ exchange.id \notin Withdrawn
  BY DEF ReadNullError, Heard, At, Numbered
<1>5. CASE kept = {} /\ unaccounted' = kept /\ Answered
  <2>1. Held' = {}
    BY <1>5, ExchangeMoves DEF Held, Accounts, Answered, InHand
  <2>2. \A n \in Held' : n <= k => n \in Below(Held, k)
    BY <2>1
  <2> HIDE DEF k, kept
  <2> QED
    BY <1>1, <1>2, <1>3, <2>2, HearingBalances
<1>6. CASE kept # {} /\ unaccounted' = WithoutOldest(kept) /\ PassOver
  <2>0. PICK o : o = Oldest(kept).id
    OBVIOUS
  <2>1. /\ o \in Accounts /\ o < exchange.id /\ o \in Nat
        /\ Accounts' \subseteq Accounts \ {o} /\ \A n \in Accounts' : n \in Nat /\ o < n
    BY <1>4, <1>6, <2>0, OldestKept
  <2>2. exchange'.id = exchange.id /\ exchange'.step = "receive"
    BY <1>4, <1>6, ExchangeMoves DEF PassOver
  <2>3. \A n \in Held' : /\ n \in Nat
                        /\ \/ n \in Accounts /\ o < n
                           \/ n = exchange.id /\ n \in heardOf \cup {k}
    <3> SUFFICES ASSUME NEW n \in Held'
                 PROVE  \/ n \in Accounts /\ o < n
                        \/ n = exchange.id /\ n \in heardOf \cup {k}
      BY <1>3
    <3> QED
      BY <1>2, <2>1, <2>2 DEF Held
  <2>4. k \in Nat /\ exchange.id # o
    BY <1>1, <1>3, <1>4, <2>1
  <2>5. CASE o < k
    <3>1. o \in Below(Held, k)
      BY <2>1, <2>5 DEF Below, Held
    <3>2. \A n \in Held' : n <= k => n \in (Below(Held, k) \ {o}) \cup {k}
      <4> SUFFICES ASSUME NEW n \in Held', n <= k, n # k
                   PROVE  n \in Below(Held, k) /\ n # o
        OBVIOUS
      <4>1. n \in Held /\ n # o
        BY <1>4, <2>1, <2>3, <2>4 DEF Held, InHand
      <4>2. n < k
        BY <2>3, <2>4
      <4> QED
        BY <4>1, <4>2 DEF Below
    <3> HIDE DEF k, kept
    <3> QED
      BY <1>1, <1>2, <1>3, <3>1, <3>2, HearingBalances
  <2>6. CASE ~(o < k)
    <3>1. \A n \in Held' : n <= k => n \in Below(Held, k)
      <4> SUFFICES ASSUME NEW n \in Held', n <= k PROVE n \in Below(Held, k)
        OBVIOUS
      <4>1. n = exchange.id /\ n \in heardOf \cup {k} /\ n \in Nat
        BY <2>1, <2>3, <2>4, <2>6
      <4>2. n # k
        BY <2>1, <2>4, <2>6, <4>1
      <4>3. n \in Held
        BY <1>4, <4>1, <4>2 DEF Held, InHand
      <4>4. n < k
        BY <2>4, <4>1, <4>2
      <4> QED
        BY <4>3, <4>4 DEF Below
    <3> HIDE DEF k, kept
    <3> QED
      BY <1>1, <1>2, <1>3, <3>1, HearingBalances
  <2> QED
    BY <2>5, <2>6
<1> QED
  BY <1>5, <1>6 DEF ReadNullError

LEMMA AccountBalances ==
    ASSUME TypeOK, Numbered, Kept, Balanced, TypeOK', Account
    PROVE  Balanced'
<1> SUFFICES ASSUME inOrder' PROVE Cardinality(HeldLate') <= Cardinality(OpenLate')
  BY DEF Balanced
<1> DEFINE e == exchange.id
<1>1. /\ e \in Requests /\ e \notin Withdrawn /\ e = next - 1 /\ exchange.step = "account"
      /\ exchange.over # 0 /\ exchange'.step = "idle" /\ heardOf' = heardOf
      /\ gone \in [Requests -> Departure] /\ inOrder
      /\ gone' = [gone EXCEPT ![e] = [at |-> now, over |-> exchange.over]]
  BY ExchangeMoves DEF Account, At, Numbered, InHand, serverVars, TypeOK, TruthTypeOK
<1>2. Withdrawn' = Withdrawn \cup {e}
  BY <1>1 DEF Withdrawn, NotGone
<1>3. Accounts' \subseteq Accounts \cup {e}
  <2>1. unaccounted' \subseteq unaccounted \cup {[id |-> e, at |-> now]}
    BY Accounting DEF Unlapsed
  <2> QED
    BY <2>1 DEF Accounts
<1>4. Held' = Accounts'
  BY <1>1 DEF Held, InHand
<1>5. \A n : Passed(n)' <=> Passed(n)
  BY <1>1 DEF Passed
<1>6. /\ HeldLate \subseteq Requests /\ OpenLate \subseteq Requests /\ Requests \subseteq Nat
      /\ Cardinality(HeldLate) \in Nat /\ Cardinality(OpenLate) \in Nat
      /\ Cardinality(HeldLate) <= Cardinality(OpenLate)
  BY <1>1, HeldAreRequests DEF Balanced
<1>7. e \notin heardOf => ~Passed(e)
  <2> SUFFICES ASSUME e \notin heardOf, NEW h \in heardOf, e <= h PROVE FALSE
    BY DEF Passed
  <2>1. h < next /\ h \in Nat /\ next \in Nat
    BY <1>6, Bounds DEF Numbered, TypeOK, TruthTypeOK, ClientTypeOK
  <2>2. h # e /\ e \in Nat
    BY <1>1, <1>6
  <2> QED
    BY <1>1, <2>1, <2>2
<1>8. HeldLate' \subseteq HeldLate
  <2> SUFFICES ASSUME NEW n \in HeldLate' PROVE n \in HeldLate
    OBVIOUS
  <2>1. n \in Accounts \cup {e} /\ Passed(n)
    BY <1>3, <1>4, <1>5 DEF HeldLate
  <2>2. n \in Held
    BY <1>1, <1>7, <2>1 DEF Held, InHand
  <2> QED
    BY <2>1, <2>2 DEF HeldLate
<1>9. OpenLate' = OpenLate
  <2>1. e \notin OpenLate'
    BY <1>1, <1>5, <1>7 DEF OpenLate, Open
  <2> QED
    BY <1>1, <1>2, <1>5, <2>1 DEF OpenLate, Open
<1>10. Cardinality(HeldLate') <= Cardinality(HeldLate) /\ HeldLate' \subseteq Requests
  BY <1>6, <1>8, CountsShrink
<1>11. Cardinality(HeldLate') \in Nat /\ Cardinality(OpenLate') = Cardinality(OpenLate)
  BY <1>9, <1>10, RequestsAreFinite
<1> QED
  BY <1>6, <1>10, <1>11

LEMMA BalanceHolds ==
    ASSUME TypeOK, Numbered, Kept, Wired, Balanced, TypeOK', [Next]_vars
    PROVE  Balanced'
<1>a. gone' = gone /\ heardOf' = heardOf /\ (inOrder' => inOrder) /\ Held' \subseteq Held
         => Balanced'
  BY HoldingLess
<1>b. ASSUME heardOf' = heardOf, unaccounted' = unaccounted \/ unaccounted' = {},
             \/ exchange' = exchange
             \/ exchange'.step \in {"idle", "fail", "close"}
             \/ InHand /\ exchange'.id = exchange.id
      PROVE  Held' \subseteq Held
  BY <1>b DEF Held, Accounts, InHand
<1>1. CASE Connect
  <2>1. exchange' = exchange /\ gone' = gone /\ heardOf' = heardOf
    BY <1>1 DEF Connect, protocolVars, channelVars, serverVars, truthVars, vars
  <2>2. unaccounted' = unaccounted \/ unaccounted' = {}
    BY <1>1 DEF Connect, protocolVars, channelVars, serverVars, truthVars, vars
  <2>3. inOrder' => inOrder
    BY <1>1 DEF Connect, protocolVars, channelVars, serverVars, truthVars, vars
  <2> QED
    BY <2>1, <2>2, <2>3, <1>a, <1>b
<1>2. CASE Send
  <2>1. exchange'.id = next /\ exchange.step = "idle"
    BY <1>2, ExchangeMoves DEF Send, At
  <2>2. /\ gone' = gone /\ heardOf' = heardOf /\ inOrder' = inOrder
        /\ unaccounted' = unaccounted
    BY <1>2 DEF Send, truthVars
  <2>3. next \notin heardOf
    BY Bounds DEF Numbered, TypeOK, ClientTypeOK
  <2>4. Held' \subseteq Held
    BY <2>1, <2>2, <2>3 DEF Held, Accounts, InHand
  <2> QED
    BY <2>2, <2>4, <1>a
<1>3. CASE SendFails
  <2>1. \/ exchange' = exchange
        \/ exchange'.step \in {"idle", "fail", "close"}
        \/ InHand /\ exchange'.id = exchange.id
    BY <1>3, ExchangeMoves DEF InHand, SendFails
  <2>2. /\ gone' = gone /\ heardOf' = heardOf /\ inOrder' = inOrder
        /\ (unaccounted' = unaccounted \/ unaccounted' = {})
    BY <1>3 DEF SendFails, protocolVars, channelVars, serverVars, truthVars, vars
  <2> QED
    BY <2>1, <2>2, <1>a, <1>b
<1>4. CASE ReceiveFails
  <2>1. \/ exchange' = exchange
        \/ exchange'.step \in {"idle", "fail", "close"}
        \/ InHand /\ exchange'.id = exchange.id
    BY <1>4, ExchangeMoves DEF InHand, ReceiveFails, GoOn, At
  <2>2. /\ gone' = gone /\ heardOf' = heardOf /\ inOrder' = inOrder
        /\ (unaccounted' = unaccounted \/ unaccounted' = {})
    BY <1>4 DEF ReceiveFails, GoOn, At, protocolVars, channelVars, serverVars, truthVars,
       vars
  <2> QED
    BY <2>1, <2>2, <1>a, <1>b
<1>5. CASE ReadServerFrame
  <2>1. \/ exchange' = exchange
        \/ exchange'.step \in {"idle", "fail", "close"}
        \/ InHand /\ exchange'.id = exchange.id
    BY <1>5, ExchangeMoves DEF InHand, ReadServerFrame, Heard, PassOver, At
  <2>2. /\ gone' = gone /\ heardOf' = heardOf /\ inOrder' = inOrder
        /\ (unaccounted' = unaccounted \/ unaccounted' = {})
    BY <1>5 DEF ReadServerFrame, Heard, PassOver, At, protocolVars, channelVars,
       serverVars, truthVars, vars
  <2> QED
    BY <2>1, <2>2, <1>a, <1>b
<1>6. CASE ReadBadFrame
  <2>1. \/ exchange' = exchange
        \/ exchange'.step \in {"idle", "fail", "close"}
        \/ InHand /\ exchange'.id = exchange.id
    BY <1>6, ExchangeMoves DEF InHand, ReadBadFrame, Heard, GoOn, At
  <2>2. /\ gone' = gone /\ heardOf' = heardOf /\ inOrder' = inOrder
        /\ (unaccounted' = unaccounted \/ unaccounted' = {})
    BY <1>6 DEF ReadBadFrame, Heard, GoOn, At, protocolVars, channelVars, serverVars,
       truthVars, vars
  <2> QED
    BY <2>1, <2>2, <1>a, <1>b
<1>7. CASE ReadReply
  BY <1>7, ReplyBalances
<1>8. CASE ReadNullError
  BY <1>8, NullErrorBalances
<1>9. CASE Abandon
  <2>1. \/ exchange' = exchange
        \/ exchange'.step \in {"idle", "fail", "close"}
        \/ InHand /\ exchange'.id = exchange.id
    BY <1>9, ExchangeMoves DEF InHand, Abandon, GoOn, At
  <2>2. /\ gone' = gone /\ heardOf' = heardOf /\ inOrder' = inOrder
        /\ (unaccounted' = unaccounted \/ unaccounted' = {})
    BY <1>9 DEF Abandon, GoOn, At, protocolVars, channelVars, serverVars, truthVars, vars
  <2> QED
    BY <2>1, <2>2, <1>a, <1>b
<1>10. CASE Withdraw
  <2>1. \/ exchange' = exchange
        \/ exchange'.step \in {"idle", "fail", "close"}
        \/ InHand /\ exchange'.id = exchange.id
    BY <1>10, ExchangeMoves DEF InHand, Withdraw, GoOn, At
  <2>2. /\ gone' = gone /\ heardOf' = heardOf /\ inOrder' = inOrder
        /\ (unaccounted' = unaccounted \/ unaccounted' = {})
    BY <1>10 DEF Withdraw, GoOn, At, protocolVars, channelVars, serverVars, truthVars, vars
  <2> QED
    BY <2>1, <2>2, <1>a, <1>b
<1>11. CASE Notify
  <2>1. \/ exchange' = exchange
        \/ exchange'.step \in {"idle", "fail", "close"}
        \/ InHand /\ exchange'.id = exchange.id
    BY <1>11, ExchangeMoves, ZenonT(60) DEF InHand, Notify, GoOn, At
  <2>2. /\ gone' = gone /\ heardOf' = heardOf /\ inOrder' = inOrder
        /\ (unaccounted' = unaccounted \/ unaccounted' = {})
    BY <1>11 DEF Notify, GoOn, At, protocolVars, channelVars, serverVars, truthVars, vars
  <2> QED
    BY <2>1, <2>2, <1>a, <1>b
<1>12. CASE Account
  BY <1>12, AccountBalances
<1>13. CASE Fail
  <2>1. \/ exchange' = exchange
        \/ exchange'.step \in {"idle", "fail", "close"}
        \/ InHand /\ exchange'.id = exchange.id
    BY <1>13, ExchangeMoves DEF InHand, Fail, Forget, GoOn, At
  <2>2. /\ gone' = gone /\ heardOf' = heardOf /\ inOrder' = inOrder
        /\ (unaccounted' = unaccounted \/ unaccounted' = {})
    BY <1>13 DEF Fail, Forget, GoOn, At, protocolVars, channelVars, serverVars, truthVars,
       vars
  <2> QED
    BY <2>1, <2>2, <1>a, <1>b
<1>14. CASE Close
  <2>1. \/ exchange' = exchange
        \/ exchange'.step \in {"idle", "fail", "close"}
        \/ InHand /\ exchange'.id = exchange.id
    BY <1>14, ExchangeMoves DEF InHand, Close, CloseChannel
  <2>2. /\ gone' = gone /\ heardOf' = heardOf /\ inOrder' = inOrder
        /\ (unaccounted' = unaccounted \/ unaccounted' = {})
    BY <1>14 DEF Close, CloseChannel, protocolVars, channelVars, serverVars, truthVars, vars
  <2> QED
    BY <2>1, <2>2, <1>a, <1>b
<1>15. ASSUME NEW cause \in {"timeout", "cancelled"}, ContextEnds(cause) PROVE Balanced'
  <2>1. \/ exchange' = exchange
        \/ exchange'.step \in {"idle", "fail", "close"}
        \/ InHand /\ exchange'.id = exchange.id
    BY <1>15, ExchangeMoves DEF InHand, ContextEnds, At
  <2>2. /\ gone' = gone /\ heardOf' = heardOf /\ inOrder' = inOrder
        /\ (unaccounted' = unaccounted \/ unaccounted' = {})
    BY <1>15 DEF ContextEnds, At, protocolVars, channelVars, serverVars, truthVars, vars
  <2> QED
    BY <2>1, <2>2, <1>a, <1>b
<1>16. ASSUME NEW d \in Closers, BeginDisconnect(d) PROVE Balanced'
  <2>1. exchange' = exchange /\ gone' = gone /\ heardOf' = heardOf
    BY <1>16 DEF BeginDisconnect, Forget, protocolVars, channelVars, serverVars,
       truthVars, vars
  <2>2. unaccounted' = unaccounted \/ unaccounted' = {}
    BY <1>16 DEF BeginDisconnect, Forget, protocolVars, channelVars, serverVars,
       truthVars, vars
  <2>3. inOrder' => inOrder
    BY <1>16 DEF BeginDisconnect, Forget, protocolVars, channelVars, serverVars,
       truthVars, vars
  <2> QED
    BY <2>1, <2>2, <2>3, <1>a, <1>b
<1>17. ASSUME NEW d \in Closers, EndDisconnect(d) PROVE Balanced'
  <2>1. exchange' = exchange /\ gone' = gone /\ heardOf' = heardOf
    BY <1>17 DEF EndDisconnect, CloseChannel, protocolVars, channelVars, serverVars,
       truthVars, vars
  <2>2. unaccounted' = unaccounted \/ unaccounted' = {}
    BY <1>17 DEF EndDisconnect, CloseChannel, protocolVars, channelVars, serverVars,
       truthVars, vars
  <2>3. inOrder' => inOrder
    BY <1>17 DEF EndDisconnect, CloseChannel, protocolVars, channelVars, serverVars,
       truthVars, vars
  <2> QED
    BY <2>1, <2>2, <2>3, <1>a, <1>b
<1>18. ASSUME NEW n \in Requests, Answer(n) PROVE Balanced'
  <2>1. exchange' = exchange /\ gone' = gone /\ heardOf' = heardOf
    BY <1>18 DEF Answer, Write, protocolVars, channelVars, serverVars, truthVars, vars
  <2>2. unaccounted' = unaccounted \/ unaccounted' = {}
    BY <1>18 DEF Answer, Write, protocolVars, channelVars, serverVars, truthVars, vars
  <2>3. inOrder' => inOrder
    BY <1>18 DEF Answer, Write, protocolVars, channelVars, serverVars, truthVars, vars
  <2> QED
    BY <2>1, <2>2, <2>3, <1>a, <1>b
<1>19. CASE Speak
  <2>1. exchange' = exchange /\ gone' = gone /\ heardOf' = heardOf
    BY <1>19 DEF Speak, Write, protocolVars, channelVars, serverVars, truthVars, vars
  <2>2. unaccounted' = unaccounted \/ unaccounted' = {}
    BY <1>19 DEF Speak, Write, protocolVars, channelVars, serverVars, truthVars, vars
  <2>3. inOrder' => inOrder
    BY <1>19 DEF Speak, Write, protocolVars, channelVars, serverVars, truthVars, vars
  <2> QED
    BY <2>1, <2>2, <2>3, <1>a, <1>b
<1>20. CASE Tick
  <2>1. exchange' = exchange /\ gone' = gone /\ heardOf' = heardOf
    BY <1>20 DEF Tick, protocolVars, channelVars, serverVars, truthVars, vars
  <2>2. unaccounted' = unaccounted \/ unaccounted' = {}
    BY <1>20 DEF Tick, protocolVars, channelVars, serverVars, truthVars, vars
  <2>3. inOrder' => inOrder
    BY <1>20 DEF Tick, protocolVars, channelVars, serverVars, truthVars, vars
  <2> QED
    BY <2>1, <2>2, <2>3, <1>a, <1>b
<1>21. CASE UNCHANGED vars
  <2>1. exchange' = exchange /\ gone' = gone /\ heardOf' = heardOf
    BY <1>21 DEF protocolVars, channelVars, serverVars, truthVars, vars
  <2>2. unaccounted' = unaccounted \/ unaccounted' = {}
    BY <1>21 DEF protocolVars, channelVars, serverVars, truthVars, vars
  <2>3. inOrder' => inOrder
    BY <1>21 DEF protocolVars, channelVars, serverVars, truthVars, vars
  <2> QED
    BY <2>1, <2>2, <2>3, <1>a, <1>b
<1> QED
  BY <1>1, <1>2, <1>3, <1>4, <1>5, <1>6, <1>7, <1>8, <1>9, <1>10, <1>11, <1>12, <1>13,
     <1>14, <1>15, <1>16, <1>17, <1>18, <1>19, <1>20, <1>21 DEF Next, Step, Read

-----------------------------------------------------------------------------
(* What will be answered has its entry.                                     *)

\* Time passes, frames are read and the exchange goes on: nothing new is due.
LEMMA NothingDue ==
    ASSUME TypeOK, Due, gone' = gone, latest' = latest, unaccounted' = unaccounted,
           asked' = asked, \A n : OnWire(n)' => OnWire(n),
           now' = now \/ now' = now + 1,
           inOrder' => inOrder, ~excused' => ~excused,
           \/ exchange.step = "idle"
           \/ exchange'.step # "idle" /\ exchange'.id = exchange.id
    PROVE  Due'
<1> SUFFICES ASSUME inOrder', ~excused' PROVE ToAnswer' /\ ToMatch'
  BY DEF Due
<1>1. ToAnswer /\ ToMatch
  BY DEF Due
<1>2. ToAnswer'
  BY <1>1 DEF ToAnswer, Withdrawn
<1>3. ToMatch'
  <2>1. Withdrawn' = Withdrawn /\ Accounts' = Accounts
    BY DEF Withdrawn, Accounts
  <2>2. ASSUME NEW n \in Withdrawn, now >= gone[n].at + Window
        PROVE  now' >= gone'[n].at + Window
    <3>1. gone[n].at \in Nat /\ now \in Nat
      BY DEF Withdrawn, TypeOK, ClientTypeOK, TruthTypeOK, Departure
    <3> QED
      BY <2>2, <3>1, Bounds
  <2> QED
    BY <1>1, <2>1, <2>2 DEF ToMatch
<1> QED
  BY <1>2, <1>3

LEMMA NothingPending ==
    ASSUME asked' = {} /\ wire' = <<>>
    PROVE  Due'
<1>1. \A n : n \notin asked' /\ ~OnWire(n)'
  BY DEF OnWire, Says
<1> QED
  BY <1>1 DEF Due, ToAnswer, ToMatch

LEMMA WireStays ==
    ASSUME wire' = wire
    PROVE  \A n : OnWire(n)' <=> OnWire(n)
  BY DEF OnWire, Says

\* What is read is read off the wire, and answered no more.
LEMMA ReadOff ==
    ASSUME TypeOK, Wired, Heard, Head(wire).kind \in {"reply", "null"}
    PROVE  /\ OnWire(Head(wire).id)
           /\ \A n : OnWire(n)' => OnWire(n) /\ n # Head(wire).id
           /\ inOrder => \A n : OnWire(n)' => Head(wire).id < n
           /\ asked' = asked /\ latest' = latest /\ gone' = gone /\ now' = now
           /\ inOrder' = inOrder
<1>1. /\ Says(1) /\ wire[1] = Head(wire) /\ 1 \in DOMAIN wire
  BY ReplyIsNew DEF Heard
<1>2. \A n : OnWire(n)' => \E i \in DOMAIN wire : Says(i) /\ 1 < i /\ wire[i].id = n
  BY FramesMoveUp DEF Heard
<1>3. OnWire(Head(wire).id)
  BY <1>1 DEF OnWire
<1>4. \A n : OnWire(n)' => OnWire(n) /\ n # Head(wire).id
  BY <1>1, <1>2 DEF OnWire, Wired, Answers
<1>5. inOrder => \A n : OnWire(n)' => Head(wire).id < n
  BY <1>1, <1>2 DEF Wired, Ordered
<1> QED
  BY <1>3, <1>4, <1>5 DEF Heard

LEMMA ReplyDue ==
    ASSUME TypeOK, Numbered, Kept, Wired, Due, ReadReply
    PROVE  Due'
<1> SUFFICES ASSUME inOrder', ~excused' PROVE ToAnswer' /\ ToMatch'
  BY DEF Due
<1> DEFINE k == Head(wire).id
<1>1. /\ \A n : OnWire(n)' => OnWire(n) /\ n # k
      /\ asked' = asked /\ latest' = latest /\ gone' = gone /\ now' = now
      /\ inOrder' = inOrder
  BY ReadOff DEF ReadReply
<1>2. k \notin asked
  BY ReplyIsNew DEF ReadReply, Heard
<1>3. ToAnswer /\ ToMatch
  BY <1>1 DEF Due, ReadReply
<1>4. Withdrawn' = Withdrawn
  BY <1>1 DEF Withdrawn
<1>5. ToAnswer'
  <2>1. \/ k = exchange.id
        \/ exchange'.step = exchange.step /\ exchange'.id = exchange.id
    BY ExchangeMoves DEF ReadReply, PassOver
  <2> HIDE DEF k
  <2> QED
    BY <1>1, <1>2, <1>3, <1>4, <2>1 DEF ToAnswer
<1>6. \A n \in Accounts : n # k => n \in Accounts'
  BY DEF ReadReply, Accounts, AccountedFor
<1>7. ToMatch'
  <2> HIDE DEF k
  <2> QED
    BY <1>1, <1>2, <1>3, <1>4, <1>6 DEF ToMatch
<1> QED
  BY <1>5, <1>7

\* As long as nothing was lost, an error without an id is of the request in
\* flight, or of one the client keeps.
LEMMA NullErrorKnown ==
    ASSUME TypeOK, Numbered, Kept, Wired, Due, ReadNullError, inOrder, ~excused'
    PROVE  /\ ToAnswer /\ ToMatch
           /\ \/ Head(wire).id = exchange.id
              \/ \E w \in Unlapsed(unaccounted) : w.id = Head(wire).id
<1> DEFINE k == Head(wire).id
<1>1. OnWire(k) /\ k \in Requests
  BY ReadOff, ReplyIsNew DEF ReadNullError, Heard
<1>2. excused' = (excused \/ (gone[k].over # 0 /\ now >= gone[k].at + Window))
  BY DEF ReadNullError
<1>3. ~excused /\ ~(gone[k].over # 0 /\ now >= gone[k].at + Window)
  BY ONLY <1>2, ~excused'
<1>4. ToAnswer /\ ToMatch
  BY <1>3 DEF Due
<1>5. CASE k \in Withdrawn
  <2>1. gone[k].over # 0
    BY <1>5 DEF Kept
  <2>2. k \in Accounts
    <3> HIDE DEF k
    <3> QED
      BY <1>1, <1>3, <1>4, <1>5, <2>1 DEF ToMatch
  <2>3. PICK w \in unaccounted : w.id = k
    BY <2>2 DEF Accounts
  <2>4. w.at = gone[k].at /\ w.at \in Nat /\ now \in Nat
    BY <2>3 DEF Kept, TypeOK, ClientTypeOK, Entry
  <2>5. w \in Unlapsed(unaccounted)
    BY <1>3, <2>1, <2>3, <2>4, Bounds DEF Unlapsed
  <2> QED
    BY <1>4, <2>3, <2>5
<1>6. CASE k \notin Withdrawn
  <2> HIDE DEF k
  <2>1. k = exchange.id
    BY <1>1, <1>4, <1>6 DEF ToAnswer
  <2> QED
    BY <1>4, <2>1 DEF k
<1> QED
  BY <1>5, <1>6

\* An entry is kept until it lapses.
LEMMA EntryKept ==
    ASSUME TypeOK, Kept, NEW n \in Accounts
    PROVE  \/ \E w \in Unlapsed(unaccounted) : w.id = n
           \/ now >= gone[n].at + Window
<1>1. PICK w \in unaccounted : w.id = n
  BY DEF Accounts
<1>2. w.at = gone[n].at /\ w.at \in Nat /\ now \in Nat
  BY <1>1 DEF Kept, TypeOK, ClientTypeOK, Entry
<1>3. CASE now < w.at + Window
  BY <1>1, <1>3 DEF Unlapsed
<1>4. CASE ~(now < w.at + Window)
  BY <1>2, <1>4, Bounds
<1> QED
  BY <1>3, <1>4

LEMMA NullErrorDue ==
    ASSUME TypeOK, Numbered, Kept, Wired, Due, ReadNullError
    PROVE  Due'
<1>0. SUFFICES ASSUME inOrder', ~excused' PROVE ToAnswer' /\ ToMatch'
  BY DEF Due
<1>1. PICK k : k = Head(wire).id
  OBVIOUS
<1>2. PICK kept : kept = Unlapsed(unaccounted)
  OBVIOUS
<1>3. /\ \A n : OnWire(n)' => OnWire(n) /\ n # k /\ k < n
      /\ asked' = asked /\ latest' = latest /\ gone' = gone /\ now' = now /\ inOrder
  BY <1>0, <1>1, ReadOff DEF ReadNullError
<1>4. k \notin asked /\ k <= latest /\ k \in Requests
  BY <1>1, ReplyIsNew DEF ReadNullError, Heard
<1>5. ToAnswer /\ ToMatch /\ (k = exchange.id \/ \E w \in kept : w.id = k)
  BY <1>0, <1>1, <1>2, <1>3, NullErrorKnown
<1>6. Withdrawn' = Withdrawn
  BY <1>3 DEF Withdrawn
<1>7. exchange.step = "receive"
  BY DEF ReadNullError, Heard, At
<1>8. CASE kept = {} /\ unaccounted' = kept /\ Answered
  <2>1. k = exchange.id
    BY <1>5, <1>8
  <2>2. ToAnswer'
    BY <1>3, <1>4, <1>5, <1>6, <2>1 DEF ToAnswer
  <2>3. ToMatch'
    <3> SUFFICES ASSUME NEW n \in Withdrawn', (n \in asked' /\ n > latest') \/ OnWire(n)'
                 PROVE  now' >= gone'[n].at + Window
      BY DEF ToMatch
    <3>1. n \in Accounts \/ now >= gone[n].at + Window
      BY <1>3, <1>5, <1>6 DEF ToMatch
    <3>2. n \in Accounts => now >= gone[n].at + Window
      BY <1>2, <1>8, EntryKept
    <3> QED
      BY <1>3, <3>1, <3>2
  <2> QED
    BY <2>2, <2>3
<1>9. CASE kept # {} /\ unaccounted' = WithoutOldest(kept) /\ PassOver
  <2>0. PICK o : o = Oldest(kept).id
    OBVIOUS
  <2>1. /\ o < exchange.id /\ o \in Nat /\ \A n \in Accounts' : n \in Nat /\ o < n
        /\ \A w \in kept : w.id = o \/ w.id \in Accounts'
    BY <1>2, <1>7, <1>9, <2>0, OldestKept
  <2>2. k \in Nat /\ latest \in Nat
    BY <1>4, HeldAreRequests DEF TypeOK, TruthTypeOK
  <2>3. k = o \/ o < k
    BY <1>5, <2>1
  <2>4. exchange'.id = exchange.id /\ exchange'.step = "receive"
    BY <1>7, <1>9, ExchangeMoves DEF PassOver
  <2>5. ToAnswer'
    BY <1>3, <1>5, <1>6, <1>7, <2>4 DEF ToAnswer
  <2>6. ToMatch'
    <3> SUFFICES ASSUME NEW n \in Withdrawn', (n \in asked' /\ n > latest') \/ OnWire(n)'
                 PROVE  n \in Accounts' \/ now' >= gone'[n].at + Window
      BY DEF ToMatch
    <3>1. n \in Accounts \/ now >= gone[n].at + Window
      BY <1>3, <1>5, <1>6 DEF ToMatch
    <3>2. n # o
      <4>1. CASE OnWire(n)'
        <5>1. n # k /\ k < n
          BY <1>3, <4>1
        <5> QED
          BY <2>1, <2>2, <2>3, <5>1
      <4>2. CASE n \in asked /\ n > latest
        BY <1>4, <2>1, <2>2, <2>3, <4>2
      <4> QED
        BY <1>3, <4>1, <4>2
    <3>3. n \in Accounts => n \in Accounts' \/ now >= gone[n].at + Window
      BY <1>2, <2>1, <3>2, EntryKept
    <3> QED
      BY <1>3, <3>1, <3>3
  <2> QED
    BY <2>5, <2>6
<1> QED
  BY <1>2, <1>8, <1>9 DEF ReadNullError

LEMMA AccountDue ==
    ASSUME TypeOK, Numbered, Kept, Due, Account
    PROVE  Due'
<1>0. SUFFICES ASSUME inOrder', ~excused' PROVE ToAnswer' /\ ToMatch'
  BY DEF Due
<1>1. PICK kept : kept = Unlapsed(unaccounted)
  OBVIOUS
<1>2. PICK e : e = exchange.id
  OBVIOUS
<1>3. /\ e \in Requests /\ e \notin Withdrawn /\ exchange.over # 0
      /\ asked' = asked /\ wire' = wire /\ latest' = latest /\ now' = now /\ inOrder' = inOrder
      /\ gone \in [Requests -> Departure]
      /\ gone' = [gone EXCEPT ![e] = [at |-> now, over |-> exchange.over]]
  BY <1>2 DEF Account, At, Numbered, InHand, serverVars, TypeOK, TruthTypeOK
<1>a. PICK entry : entry = [id |-> e, at |-> now]
  OBVIOUS
<1>4. unaccounted' = kept \cup {entry}
  BY <1>0, <1>1, <1>2, <1>a, Accounting
<1>5. Accounts' = {w.id : w \in kept} \cup {e}
  <2>1. entry.id = e
    BY <1>a
  <2>2. Accounts' = {w.id : w \in kept \cup {entry}}
    BY <1>4 DEF Accounts
  <2> QED
    BY <2>1, <2>2
<1>6. ToAnswer /\ ToMatch
  <2>1. excused' = (excused \/ Cardinality(Unlapsed(unaccounted)) = MaxUnaccounted)
    BY DEF Account
  <2>2. ~excused
    BY ONLY <1>0, <2>1
  <2> QED
    BY <1>0, <1>3, <2>2 DEF Due
<1>7. Withdrawn' = Withdrawn \cup {e} /\ \A n \in Requests : n # e => gone'[n] = gone[n]
  BY <1>3 DEF Withdrawn, NotGone
<1>8. \A n : OnWire(n)' <=> OnWire(n)
  BY <1>3, WireStays
<1>9. ToAnswer'
  BY <1>2, <1>3, <1>6, <1>7, <1>8 DEF ToAnswer
<1>10. ToMatch'
  <2> SUFFICES ASSUME NEW n \in Withdrawn', (n \in asked' /\ n > latest') \/ OnWire(n)',
                      n \notin Accounts'
               PROVE  now' >= gone'[n].at + Window
    BY DEF ToMatch
  <2>1. n # e /\ n \in Withdrawn /\ gone'[n] = gone[n]
    BY <1>5, <1>7 DEF Withdrawn
  <2>2. n \in Accounts \/ now >= gone[n].at + Window
    BY <1>3, <1>6, <1>8, <2>1 DEF ToMatch
  <2>3. n \in Accounts => now >= gone[n].at + Window
    BY <1>1, <1>5, EntryKept
  <2> QED
    BY <1>3, <2>1, <2>2, <2>3
<1> QED
  BY <1>9, <1>10

LEMMA AnswerDue ==
    ASSUME TypeOK, Wired, Due, NEW n \in Requests, Answer(n)
    PROVE  Due'
<1>0. SUFFICES ASSUME inOrder', ~excused' PROVE ToAnswer' /\ ToMatch'
  BY DEF Due
<1>1. PICK kind \in {"reply", "null"} : Write([kind |-> kind, id |-> n])
  BY DEF Answer
<1>2. PICK frame : frame = [kind |-> kind, id |-> n]
  OBVIOUS
<1>3. PICK last : last = Len(wire) + 1
  OBVIOUS
<1>4. frame \in Frame /\ Write(frame) /\ frame.id = n
  BY <1>1, <1>2 DEF Frame, Requests
<1>5. \A m : OnWire(m)' => OnWire(m) \/ m = n
  <2> SUFFICES ASSUME NEW m, OnWire(m)', m # n PROVE OnWire(m)
    OBVIOUS
  <2>1. PICK i \in DOMAIN wire' : Says(i)' /\ wire'[i].id = m
    BY DEF OnWire
  <2>2. i \in DOMAIN wire /\ wire'[i] = wire[i] /\ Says(i)
    BY <1>3, <1>4, <2>1, FrameAdded
  <2> QED
    BY <2>1, <2>2 DEF OnWire
<1>6. /\ n \in asked /\ asked' = asked \ {n} /\ inOrder' = (inOrder /\ n > latest)
      /\ latest' = (IF n > latest THEN n ELSE latest)
      /\ gone' = gone /\ now' = now /\ unaccounted' = unaccounted /\ exchange' = exchange
      /\ excused' = excused
  BY <1>1 DEF Answer, Write, protocolVars, truthVars
<1>7. inOrder /\ n > latest
  BY ONLY <1>0, <1>6
<1>8. ToAnswer /\ ToMatch
  BY <1>0, <1>6, <1>7 DEF Due
<1>9. Withdrawn' = Withdrawn /\ Accounts' = Accounts
  BY <1>6 DEF Withdrawn, Accounts
<1>10. ToAnswer'
  BY <1>5, <1>6, <1>8, <1>9 DEF ToAnswer
<1>11. ToMatch'
  <2> SUFFICES ASSUME NEW m \in Withdrawn, (m \in asked' /\ m > latest') \/ OnWire(m)'
               PROVE  (m \in asked /\ m > latest) \/ OnWire(m)
    BY <1>6, <1>8, <1>9 DEF ToMatch
  <2>1. m \in Nat /\ n \in Nat /\ latest \in Nat
    BY Bounds DEF Withdrawn, Requests, TypeOK, TruthTypeOK
  <2> QED
    BY <1>5, <1>6, <1>7, <2>1
<1> QED
  BY <1>10, <1>11

LEMMA SpeakDue ==
    ASSUME TypeOK, Due, Speak
    PROVE  Due'
<1>1. PICK kind \in {"notice", "bad"} : Write([kind |-> kind, id |-> 0])
  BY DEF Speak
<1>2. PICK frame : frame = [kind |-> kind, id |-> 0]
  OBVIOUS
<1>3. PICK last : last = Len(wire) + 1
  OBVIOUS
<1>4. frame \in Frame /\ Write(frame) /\ frame.kind \notin {"reply", "null"}
  BY <1>1, <1>2, Bounds DEF Frame
<1>5. \A m : OnWire(m)' => OnWire(m)
  <2> SUFFICES ASSUME NEW m, OnWire(m)' PROVE OnWire(m)
    OBVIOUS
  <2>1. PICK i \in DOMAIN wire' : Says(i)' /\ wire'[i].id = m
    BY DEF OnWire
  <2>2. i \in DOMAIN wire /\ wire'[i] = wire[i] /\ Says(i)
    BY <1>3, <1>4, <2>1, FrameAdded, ZenonT(60)
  <2> QED
    BY <2>1, <2>2 DEF OnWire
<1>6. /\ asked' = asked /\ inOrder' = inOrder /\ latest' = latest
      /\ gone' = gone /\ now' = now /\ unaccounted' = unaccounted /\ exchange' = exchange
      /\ excused' = excused
  BY <1>1 DEF Speak, Write, protocolVars, truthVars
<1> QED
  BY <1>5, <1>6, NothingDue

LEMMA SendDue ==
    ASSUME TypeOK, Numbered, Due, Send
    PROVE  Due'
<1>1. /\ asked' = asked \cup {next} /\ gone' = gone /\ now' = now /\ latest' = latest
      /\ inOrder' = inOrder /\ excused' = excused /\ unaccounted' = unaccounted /\ wire' = wire
      /\ exchange.step = "idle"
  BY DEF Send, truthVars, At
<1>2. exchange'.id = next /\ exchange'.step # "idle"
  BY ExchangeMoves DEF Send
<1>3. next \notin Withdrawn
  BY Bounds DEF Numbered, TypeOK, ClientTypeOK
<1>4. Withdrawn' = Withdrawn /\ Accounts' = Accounts /\ \A n : OnWire(n)' <=> OnWire(n)
  BY <1>1, WireStays DEF Withdrawn, Accounts
<1>5. ToAnswer => ToAnswer'
  BY <1>1, <1>2, <1>4 DEF ToAnswer
<1>6. ToMatch => ToMatch'
  BY <1>1, <1>3, <1>4 DEF ToMatch
<1> QED
  BY <1>1, <1>5, <1>6 DEF Due

LEMMA DueHolds ==
    ASSUME TypeOK, Numbered, Kept, Wired, Due, Standing, [Next]_vars
    PROVE  Due'
<1>a. excused' => Due'
  BY DEF Due
<1>1. CASE Connect
  <2>1. CASE channel = 0
    <3>1. asked' = {} /\ wire' = <<>>
      BY <1>1, <2>1 DEF Connect, serverVars, Wired, Closed
    <3> QED
      BY <3>1, NothingPending
  <2>2. CASE channel # 0
    BY <1>1, <2>2, <1>a DEF Connect, Standing
  <2> QED
    BY <2>1, <2>2
<1>2. CASE Send
  BY <1>2, SendDue
<1>3. CASE SendFails
  <2>1. \/ exchange.step = "idle"
        \/ exchange'.step # "idle" /\ exchange'.id = exchange.id
    BY <1>3, ExchangeMoves DEF SendFails, At
  <2>2. /\ gone' = gone /\ latest' = latest /\ unaccounted' = unaccounted /\ asked' = asked
        /\ now' = now /\ inOrder' = inOrder /\ excused' = excused /\ wire' = wire
    BY <1>3 DEF SendFails, At, protocolVars, channelVars, serverVars, truthVars
  <2> QED
    BY <2>1, <2>2, WireStays, NothingDue
<1>4. CASE ReceiveFails
  <2>1. \/ exchange.step = "idle"
        \/ exchange'.step # "idle" /\ exchange'.id = exchange.id
    BY <1>4, ExchangeMoves DEF ReceiveFails, GoOn, At
  <2>2. /\ gone' = gone /\ latest' = latest /\ unaccounted' = unaccounted /\ asked' = asked
        /\ now' = now /\ inOrder' = inOrder /\ excused' = excused /\ wire' = wire
    BY <1>4 DEF ReceiveFails, GoOn, At, protocolVars, channelVars, serverVars, truthVars
  <2> QED
    BY <2>1, <2>2, WireStays, NothingDue
<1>5. CASE ReadServerFrame
  <2>1. \/ exchange.step = "idle"
        \/ exchange'.step # "idle" /\ exchange'.id = exchange.id
    BY <1>5, ExchangeMoves DEF ReadServerFrame, Heard, PassOver, At
  <2>2. /\ gone' = gone /\ latest' = latest /\ unaccounted' = unaccounted /\ asked' = asked
        /\ now' = now /\ inOrder' = inOrder /\ excused' = excused
    BY <1>5 DEF ReadServerFrame, Heard, PassOver, At
  <2>3. \A n : OnWire(n)' => OnWire(n)
    BY <1>5, FramesMoveUp DEF ReadServerFrame, Heard, PassOver, At, OnWire
  <2> QED
    BY <2>1, <2>2, <2>3, NothingDue
<1>6. CASE ReadBadFrame
  <2>1. \/ exchange.step = "idle"
        \/ exchange'.step # "idle" /\ exchange'.id = exchange.id
    BY <1>6, ExchangeMoves DEF ReadBadFrame, Heard, GoOn, At
  <2>2. /\ gone' = gone /\ latest' = latest /\ unaccounted' = unaccounted /\ asked' = asked
        /\ now' = now /\ inOrder' = inOrder /\ excused' = excused
    BY <1>6 DEF ReadBadFrame, Heard, GoOn, At
  <2>3. \A n : OnWire(n)' => OnWire(n)
    BY <1>6, FramesMoveUp DEF ReadBadFrame, Heard, GoOn, At, OnWire
  <2> QED
    BY <2>1, <2>2, <2>3, NothingDue
<1>7. CASE ReadReply
  BY <1>7, ReplyDue
<1>8. CASE ReadNullError
  BY <1>8, NullErrorDue
<1>9. CASE Abandon
  <2>1. \/ exchange.step = "idle"
        \/ exchange'.step # "idle" /\ exchange'.id = exchange.id
    BY <1>9, ExchangeMoves DEF Abandon, GoOn, At
  <2>2. /\ gone' = gone /\ latest' = latest /\ unaccounted' = unaccounted /\ asked' = asked
        /\ now' = now /\ inOrder' = inOrder /\ excused' = excused /\ wire' = wire
    BY <1>9 DEF Abandon, GoOn, At, protocolVars, channelVars, serverVars, truthVars
  <2> QED
    BY <2>1, <2>2, WireStays, NothingDue
<1>10. CASE Withdraw
  <2>1. \/ exchange.step = "idle"
        \/ exchange'.step # "idle" /\ exchange'.id = exchange.id
    BY <1>10, ExchangeMoves DEF Withdraw, GoOn, At
  <2>2. /\ gone' = gone /\ latest' = latest /\ unaccounted' = unaccounted /\ asked' = asked
        /\ now' = now /\ inOrder' = inOrder /\ excused' = excused /\ wire' = wire
    BY <1>10 DEF Withdraw, GoOn, At, protocolVars, channelVars, serverVars, truthVars
  <2> QED
    BY <2>1, <2>2, WireStays, NothingDue
<1>11. CASE Notify
  <2>1. \/ exchange.step = "idle"
        \/ exchange'.step # "idle" /\ exchange'.id = exchange.id
    BY <1>11, ExchangeMoves, ZenonT(60) DEF Notify, GoOn, At
  <2>2. /\ gone' = gone /\ latest' = latest /\ unaccounted' = unaccounted /\ asked' = asked
        /\ now' = now /\ inOrder' = inOrder /\ excused' = excused /\ wire' = wire
    BY <1>11 DEF Notify, GoOn, At, protocolVars, channelVars, serverVars, truthVars
  <2> QED
    BY <2>1, <2>2, WireStays, NothingDue
<1>12. CASE Account
  BY <1>12, AccountDue
<1>13. CASE Fail
  <2>1. CASE connected
    BY <1>13, <2>1, <1>a DEF Fail, Forget
  <2>2. CASE ~connected /\ channel = 0
    <3>1. asked' = {} /\ wire' = <<>>
      BY <1>13, <2>2 DEF Fail, serverVars, Wired, Closed
    <3> QED
      BY <3>1, NothingPending
  <2>3. CASE ~connected /\ excused
    BY <1>13, <2>3, <1>a DEF Fail
  <2> QED
    BY <2>1, <2>2, <2>3 DEF Standing
<1>14. CASE Close
  BY <1>14, NothingPending DEF Close, CloseChannel
<1>15. ASSUME NEW cause \in {"timeout", "cancelled"}, ContextEnds(cause) PROVE Due'
  <2>1. \/ exchange.step = "idle"
        \/ exchange'.step # "idle" /\ exchange'.id = exchange.id
    BY <1>15, ExchangeMoves DEF ContextEnds, At
  <2>2. /\ gone' = gone /\ latest' = latest /\ unaccounted' = unaccounted /\ asked' = asked
        /\ now' = now /\ inOrder' = inOrder /\ excused' = excused /\ wire' = wire
    BY <1>15 DEF ContextEnds, At, protocolVars, channelVars, serverVars, truthVars
  <2> QED
    BY <2>1, <2>2, WireStays, NothingDue
<1>16. ASSUME NEW d \in Closers, BeginDisconnect(d) PROVE Due'
  BY <1>16, <1>a DEF BeginDisconnect, Forget
<1>17. ASSUME NEW d \in Closers, EndDisconnect(d) PROVE Due'
  BY <1>17, NothingPending DEF EndDisconnect, CloseChannel
<1>18. ASSUME NEW n \in Requests, Answer(n) PROVE Due'
  BY <1>18, AnswerDue
<1>19. CASE Speak
  BY <1>19, SpeakDue
<1>20. CASE Tick
  <2>1. /\ gone' = gone /\ latest' = latest /\ unaccounted' = unaccounted /\ asked' = asked
        /\ now' = now + 1 /\ inOrder' = inOrder /\ excused' = excused /\ wire' = wire
        /\ exchange' = exchange
    BY <1>20 DEF Tick, protocolVars, channelVars, serverVars, truthVars
  <2> QED
    BY <2>1, WireStays, NothingDue
<1>21. CASE UNCHANGED vars
  <2>1. /\ gone' = gone /\ latest' = latest /\ unaccounted' = unaccounted /\ asked' = asked
        /\ now' = now /\ inOrder' = inOrder /\ excused' = excused /\ wire' = wire
        /\ exchange' = exchange
    BY <1>21 DEF vars, protocolVars, channelVars, serverVars, truthVars
  <2> QED
    BY <2>1, WireStays, NothingDue
<1> QED
  BY <1>1, <1>2, <1>3, <1>4, <1>5, <1>6, <1>7, <1>8, <1>9, <1>10, <1>11, <1>12, <1>13,
     <1>14, <1>15, <1>16, <1>17, <1>18, <1>19, <1>20, <1>21 DEF Next, Step, Read

(* The theorems.                                                            *)

LEMMA InvariantInit ==
    ASSUME Init
    PROVE  CorrelationInv
<1>1. TypeOK
  BY TypesInit
<1>2. \A n \in Requests : gone[n] = NotGone
  BY DEF Init
<1>3. Withdrawn = {} /\ asked = {} /\ heardOf = {} /\ unaccounted = {} /\ wire = <<>>
  BY <1>2 DEF Init, Withdrawn
<1>4. exchange.step = "idle" /\ channel = 0 /\ ~connected /\ ~silent /\ mutes = 0
  BY DEF Init, NoExchange
<1>5. \A i : ~Says(i)
  BY <1>3 DEF Says
<1>6. Accounts = {} /\ Held = {} /\ Open = {}
  BY <1>3 DEF Accounts, Held, Open
<1>7. Numbered
  BY <1>3, <1>4 DEF Numbered, InHand
<1>8. Kept
  BY <1>3, FS_EmptySet, Bounds DEF Kept
<1>9. Wired
  BY <1>3, <1>5 DEF Wired, Answers, Ordered, Closed
<1>10. Balanced
  <2>1. HeldLate = {} /\ OpenLate = {}
    BY <1>6 DEF HeldLate, OpenLate
  <2> QED
    BY <2>1, FS_EmptySet DEF Balanced
<1>11. Due
  BY <1>3, <1>5 DEF Due, ToAnswer, ToMatch, OnWire
<1>12. Standing /\ Mute
  BY <1>4 DEF Standing, Mute
<1> QED
  BY <1>1, <1>7, <1>8, <1>9, <1>10, <1>11, <1>12 DEF CorrelationInv

LEMMA InvariantStep ==
    ASSUME CorrelationInv, [Next]_vars
    PROVE  CorrelationInv'
<1>1. /\ TypeOK /\ Numbered /\ Kept /\ Wired /\ Balanced /\ Due /\ Standing /\ Mute
  BY DEF CorrelationInv
<1>2. TypeOK'
  BY <1>1, TypesHold
<1>3. Numbered' /\ Kept' /\ Wired'
  BY <1>1, NumbersHold, EntriesHold, WireHolds
<1>4. Balanced'
  BY <1>1, <1>2, BalanceHolds
<1>5. Due'
  BY <1>1, DueHolds
<1>6. Standing' /\ Mute'
  BY <1>1, ConnectionStands, SilenceCounted
<1> QED
  BY <1>2, <1>3, <1>4, <1>5, <1>6 DEF CorrelationInv

\* The state of the engine and of the wire is what the argument says of it,
\* whatever the server answers and however requests end (attempt,
\* exchangeFrame, withdrawn, disconnect).
THEOREM CorrelationInvariant == Spec => []CorrelationInv
<1>1. Init => CorrelationInv
  BY InvariantInit
<1>2. CorrelationInv /\ [Next]_vars => CorrelationInv'
  BY InvariantStep
<1> QED
  BY <1>1, <1>2, PTL DEF Spec

\* What is held of requests the server has not passed is open itself.
LEMMA HeldIsOpen ==
    ASSUME CorrelationInv
    PROVE  NoMoreThanOpen
<1> SUFFICES ASSUME inOrder
             PROVE  Cardinality(unaccounted)
                      <= Cardinality({n \in Requests : gone[n] # NotGone} \ heardOf)
  BY DEF NoMoreThanOpen
<1>1. TypeOK /\ Kept /\ Balanced
  BY DEF CorrelationInv
<1>2. /\ Held \subseteq Requests /\ Open \subseteq Requests /\ Accounts \subseteq Withdrawn
      /\ HeldLate \subseteq Requests /\ OpenLate \subseteq Requests /\ Requests \subseteq Nat
  BY <1>1, HeldAreRequests
<1> DEFINE B == {n \in Held : ~Passed(n)}
           D == {n \in Open : ~Passed(n)}
<1>3. B \subseteq D
  <2> SUFFICES ASSUME NEW n \in Held, ~Passed(n) PROVE n \in Open
    OBVIOUS
  <2>1. n \in Nat
    BY <1>2
  <2>2. n \notin heardOf
    BY <2>1 DEF Passed
  <2> QED
    BY <1>2, <2>2 DEF Held, Open
<1>4. Held = HeldLate \cup B /\ Open = OpenLate \cup D
  BY DEF HeldLate, OpenLate
<1>5. OpenLate \cap D = {} /\ D \subseteq Requests
  BY <1>2 DEF OpenLate
<1>6. Cardinality(HeldLate) <= Cardinality(OpenLate)
  BY <1>1 DEF Balanced
<1>7. Cardinality(Held) <= Cardinality(Open)
  <2>1. Cardinality(HeldLate \cup B) <= Cardinality(OpenLate \cup D)
    <3> HIDE DEF B, D
    <3> QED
      BY <1>2, <1>3, <1>5, <1>6, CountsAddUp
  <2> QED
    BY <1>4, <2>1
<1>8. Cardinality(Accounts) <= Cardinality(Held)
  <2>1. Accounts \subseteq Held
    BY DEF Held
  <2> QED
    BY <1>2, <2>1, CountsShrink
<1>9. Cardinality(unaccounted) = Cardinality(Accounts)
  BY <1>1, EntriesCounted DEF TypeOK
<1>10. /\ Cardinality(Accounts) \in Nat /\ Cardinality(Held) \in Nat
       /\ Cardinality(Open) \in Nat
  <2>1. Accounts \subseteq Requests
    BY <1>2 DEF Held
  <2> QED
    BY <1>2, <2>1, RequestsAreFinite
<1> QED
  BY <1>7, <1>8, <1>9, <1>10 DEF Open, Withdrawn

\* No more errors without an id will be passed over than requests withdrawn
\* are still to be answered, as long as the server answers in order
\* (repliesToWithdrawn, account, accountedFor).
THEOREM NoMoreIsPassedOver == Spec => []NoMoreThanOpen
<1>1. CorrelationInv => NoMoreThanOpen
  BY HeldIsOpen
<1> QED
  BY <1>1, CorrelationInvariant, PTL

\* A connection never waits on after a second timeout with no frame in between,
\* cancellations and Disconnects around them included (withdrawn, heard).
THEOREM HungServersAreGivenUp == Spec => []HungServerGivenUp
<1>1. CorrelationInv => HungServerGivenUp
  BY DEF CorrelationInv, Mute, HungServerGivenUp
<1> QED
  BY <1>1, CorrelationInvariant, PTL

LEMMA AnsweredByItsOwn ==
    ASSUME CorrelationInv, [Next]_vars
    PROVE  [At("receive") /\ exchange' = NoExchange /\ inOrder /\ ~excused'
              => Head(wire).id = exchange.id]_vars
<1>0. SUFFICES ASSUME At("receive"), exchange' = NoExchange, inOrder, ~excused', Next
               PROVE  Head(wire).id = exchange.id
  OBVIOUS
<1>1. TypeOK /\ Numbered /\ Kept /\ Wired /\ Due
  BY DEF CorrelationInv
<1>2. exchange.step = "receive" /\ exchange'.step = "idle"
  BY <1>0, ExchangeMoves, <1>1 DEF At
<1>3. ReadReply \/ ReadNullError
  <2>1. CASE Connect
    BY <2>1, <1>1, <1>2, ExchangeMoves DEF Connect
  <2>2. CASE Send
    BY <2>2, <1>1, <1>2, ExchangeMoves DEF Send
  <2>3. CASE SendFails
    BY <2>3, <1>1, <1>2, ExchangeMoves DEF SendFails
  <2>4. CASE ReceiveFails
    BY <2>4, <1>1, <1>2, ExchangeMoves DEF ReceiveFails, GoOn
  <2>5. CASE ReadServerFrame
    BY <2>5, <1>1, <1>2, ExchangeMoves DEF ReadServerFrame, PassOver
  <2>6. CASE ReadBadFrame
    BY <2>6, <1>1, <1>2, ExchangeMoves DEF ReadBadFrame, GoOn
  <2>7. CASE ReadReply
    BY <2>7
  <2>8. CASE ReadNullError
    BY <2>8
  <2>9. CASE Abandon
    BY <2>9, <1>1, <1>2, ExchangeMoves DEF Abandon, GoOn
  <2>10. CASE Withdraw
    BY <2>10, <1>1, <1>2, ExchangeMoves DEF Withdraw, At
  <2>11. CASE Notify
    BY <2>11, <1>1, <1>2, ExchangeMoves DEF Notify, At
  <2>12. CASE Account
    BY <2>12, <1>1, <1>2, ExchangeMoves DEF Account, At
  <2>13. CASE Fail
    BY <2>13, <1>1, <1>2, ExchangeMoves DEF Fail, At
  <2>14. CASE Close
    BY <2>14, <1>1, <1>2, ExchangeMoves DEF Close, At
  <2>15. ASSUME NEW cause \in {"timeout", "cancelled"}, ContextEnds(cause) PROVE ReadReply \/ ReadNullError
    BY <2>15, <1>1, <1>2, ExchangeMoves DEF ContextEnds
  <2>16. ASSUME NEW d \in Closers, BeginDisconnect(d) PROVE ReadReply \/ ReadNullError
    BY <2>16, <1>1, <1>2, ExchangeMoves DEF BeginDisconnect
  <2>17. ASSUME NEW d \in Closers, EndDisconnect(d) PROVE ReadReply \/ ReadNullError
    BY <2>17, <1>1, <1>2, ExchangeMoves DEF EndDisconnect
  <2>18. ASSUME NEW n \in Requests, Answer(n) PROVE ReadReply \/ ReadNullError
    BY <2>18, <1>1, <1>2, ExchangeMoves DEF Answer, Write
  <2>19. CASE Speak
    BY <2>19, <1>1, <1>2, ExchangeMoves DEF Speak, Write
  <2>20. CASE Tick
    BY <2>20, <1>1, <1>2, ExchangeMoves DEF Tick
  <2> QED
    BY <2>1, <2>2, <2>3, <2>4, <2>5, <2>6, <2>7, <2>8, <2>9, <2>10, <2>11, <2>12, <2>13,
       <2>14, <2>15, <2>16, <2>17, <2>18, <2>19, <2>20, <1>0 DEF Next, Step, Read
<1>4. CASE ReadReply
  <2>1. \/ Head(wire).id = exchange.id
        \/ PassOver
    BY <1>4 DEF ReadReply
  <2>2. ~PassOver
    BY <1>1, <1>2, ExchangeMoves DEF PassOver
  <2> QED
    BY <2>1, <2>2
<1>5. CASE ReadNullError
  <2>1. \/ Unlapsed(unaccounted) = {}
        \/ PassOver
    BY <1>5 DEF ReadNullError
  <2>2. ~PassOver
    BY <1>1, <1>2, ExchangeMoves DEF PassOver
  <2>3. \/ Head(wire).id = exchange.id
        \/ \E w \in Unlapsed(unaccounted) : w.id = Head(wire).id
    BY <1>0, <1>1, <1>5, NullErrorKnown
  <2> QED
    BY <2>1, <2>2, <2>3
<1> QED
  BY <1>3, <1>4, <1>5

\* A request is answered with what the server said of that request, an error
\* that names none included, as long as the server answers in order and within
\* the window what it answers of the requests withdrawn (exchangeFrame,
\* repliesToWithdrawn).
THEOREM AnswersAreTheirOwn == Spec => AnswerIsItsOwn
<1>1. CorrelationInv /\ [Next]_vars =>
         [At("receive") /\ exchange' = NoExchange /\ inOrder /\ ~excused'
            => Head(wire).id = exchange.id]_vars
  BY AnsweredByItsOwn
<1> QED
  BY <1>1, CorrelationInvariant, PTL DEF Spec, AnswerIsItsOwn
=============================================================================
