--------------------------- MODULE HttpServer_proofs ---------------------------
(***************************************************************************)
(* The safety properties of HttpServer, for any number of clients and      *)
(* instances and whatever the clients send.                                *)
(*                                                                         *)
(* The first part is about the server core: what admission, the metadata   *)
(* rules and the route together say of a message, and what the envelope    *)
(* does to an answer.  The second part is the inductive invariant: what is *)
(* known of a POST at each stage it passes (Standing), and of the session  *)
(* it is handled under (Vouched).  An answered POST is not touched again,  *)
(* so that the properties of replies are the invariant there (Settled).    *)
(***************************************************************************)
EXTENDS HttpServer, FiniteSetTheorems, TLAPS

(* ---------------- the core ---------------- *)

LEMMA Distinct ==
    /\ Absent # IllTyped
    /\ \A v \in {Absent, IllTyped, Twice, Malformed} :
        v \notin STRING /\ v \notin Int /\ v \notin Ids
            /\ v \notin Tools /\ v \notin Resources /\ v \notin Prompts
BY ValuesAssumption

LEMMA Codes ==
    NoError \notin {ParseError, InvalidRequest, MethodNotFound, InvalidParams, InternalError,
                    ResourceNotFound, HeaderMismatch, UnsupportedVersion}
BY DEF NoError, ParseError, InvalidRequest, MethodNotFound, InvalidParams, InternalError,
   ResourceNotFound, HeaderMismatch, UnsupportedVersion

\* A request that passes the parser states a usable id, a method and no member
\* the parser reads of another type.
LEMMA Parsed ==
    ASSUME NEW m \in Messages, ParseVerdict(m) = NoError, ~IsNotification(m)
    PROVE  m.json /\ m.id \in Ids /\ m.method \in STRING /\ Inspected(m)
BY Distinct DEF Messages, ParseVerdict, NoError, ParseError, InvalidRequest, InvalidParams,
   IsNotification, Inspected

LEMMA Refused ==
    ASSUME NEW m, Refusal(m) = NoError
    PROVE  ParseVerdict(m) = NoError /\ MetaVerdict(m) = NoError /\ RouteVerdict(m) = NoError
BY DEF Refusal

LEMMA MetaAccepted ==
    ASSUME NEW m \in Messages, MetaVerdict(m) = NoError, ~Legacy(m)
    PROVE  m.version \in MetadataVersions /\ m.version \notin {Absent, IllTyped}
BY Codes DEF MetaVerdict

LEMMA Agrees ==
    ASSUME NEW value, NEW member, NEW required, HeaderAgrees(value, member, required),
           member \notin {Absent, IllTyped}
    PROVE  value = member \/ (value = Absent /\ ~required)
BY DEF HeaderAgrees

LEMMA Initializes ==
    ASSUME NEW m, RouteVerdict(m) = NoError, m.method = "initialize"
    PROVE  Legacy(m)
BY DEF RouteVerdict, NoError, MethodNotFound, Legacy, DiscoveryMethods

\* What HeadersDescribeWhatRuns says of one POST.
Described(h, m) ==
    /\ h.method \in {m.method} \cup (IF Legacy(m) THEN {Absent} ELSE {})
    /\ Reached(m) # Absent =>
            h.name \in {Reached(m)} \cup (IF Legacy(m) THEN {Absent} ELSE {})
    /\ IF Legacy(m) THEN h.version \in {Absent} \cup SpokenInitialize
       ELSE h.version = m.version /\ m.version \in MetadataVersions

LEMMA ReachedByName ==
    ASSUME NEW m \in Messages, Reached(m) # Absent
    PROVE  /\ m.method \in NamedMethods
           /\ Reached(m) = NameOf(m)
           /\ NameOf(m) \notin {Absent, IllTyped}
<1>1. Target(m) \in Tools \cup Prompts \cup Resources => Target(m) = m.target
  BY Distinct DEF Target
<1>2. /\ m.method \in NamedMethods
      /\ Reached(m) = Target(m)
      /\ Target(m) \in Tools \cup Prompts \cup Resources
  BY DEF Reached, NamedMethods
<1> QED
  BY <1>1, <1>2, Distinct DEF NameOf

LEMMA LegacyAdmitted ==
    ASSUME NEW h, NEW m, LegacyAdmission(h, m) = NoError
    PROVE  h.version \in {Absent} \cup SpokenInitialize /\ MirrorsBody(h, m, FALSE)
BY Codes DEF LegacyAdmission

\* What the header validation and the server let through together is a message
\* its headers describe.
LEMMA AdmittedDescribed ==
    ASSUME NEW h, NEW m \in Messages, Admission(h, m) = NoError,
           Refusal(m) = NoError, ~IsNotification(m)
    PROVE  Described(h, m)
<1>1. /\ ParseVerdict(m) = NoError /\ MetaVerdict(m) = NoError
      /\ Inspected(m) /\ m.method \notin {Absent, IllTyped}
  BY Refused, Parsed, Distinct
<1>2. ASSUME NEW required, MirrorsBody(h, m, required), required = ~Legacy(m)
      PROVE  /\ h.method \in {m.method} \cup (IF Legacy(m) THEN {Absent} ELSE {})
             /\ Reached(m) # Absent =>
                    h.name \in {Reached(m)} \cup (IF Legacy(m) THEN {Absent} ELSE {})
  <2>1. h.method = m.method \/ (h.method = Absent /\ ~required)
    BY <1>1, <1>2, Agrees DEF MirrorsBody
  <2>2. Reached(m) # Absent => h.name = Reached(m) \/ (h.name = Absent /\ ~required)
    BY <1>2, ReachedByName, Agrees DEF MirrorsBody
  <2> QED
    BY <1>2, <2>1, <2>2
<1>3. CASE Legacy(m)
  <2>1. LegacyAdmission(h, m) = NoError
    BY <1>1, <1>3 DEF Admission
  <2> QED
    BY <1>2, <1>3, <2>1, LegacyAdmitted DEF Described
<1>4. CASE ~Legacy(m)
  <2>1. HeaderAgrees(h.version, m.version, TRUE) /\ MirrorsBody(h, m, TRUE)
    BY <1>1, <1>4, Codes DEF Admission
  <2>2. h.version = m.version /\ m.version \in MetadataVersions
    BY <1>1, <1>4, <2>1, MetaAccepted, Agrees
  <2> QED
    BY <1>2, <1>4, <2>1, <2>2 DEF Described
<1> QED
  BY <1>3, <1>4

\* An answer fails with an error, or completes; that of a resource may also be a
\* failure reported as content, which says itself that it is not to be kept.
Fails(a) == \E code : code # NoError /\ a = Failure(code)
Completes(a) == \E failed : a = Complete(failed)

LEMMA AnswerForms ==
    ASSUME NEW m \in Messages, NEW outcome \in Outcomes, m.method \notin CustomMethods,
           NEW own \in OwnCodes, NEW written, NEW type
    PROVE  LET a == Answer(m, outcome, own, written, type) IN
           /\ \/ Fails(a) \/ Completes(a)
              \/ m.method \in CacheableMethods /\ a = Result(TRUE, ZeroHint, "complete")
           /\ m.method \in CacheableMethods =>
                Fails(a) \/ a = Complete(FALSE) \/ a = Result(TRUE, ZeroHint, "complete")
           /\ m.method = "subscriptions/listen" =>
                a = IF outcome = "fails" THEN Failure(InternalError) ELSE Complete(FALSE)
<1> DEFINE a == Answer(m, outcome, own, written, type)
<1>0. \A x : Fails(WithError(x, own))
  BY Codes, EndpointAssumption DEF WithError, Fails
<1>1. Fails(CallTool(m, outcome, own)) \/ Completes(CallTool(m, outcome, own))
  BY <1>0, Codes DEF CallTool, Fails, Completes
<1>2. Fails(GetPrompt(m, outcome, own)) \/ Completes(GetPrompt(m, outcome, own))
  BY <1>0, Codes DEF GetPrompt, Fails, Completes
<1>3. \/ Fails(ReadResource(m, outcome, own)) \/ ReadResource(m, outcome, own) = Complete(FALSE)
      \/ ReadResource(m, outcome, own) = Result(TRUE, ZeroHint, "complete")
  <2>1. UnresolvedCode(m) # NoError
    BY Codes DEF UnresolvedCode
  <2> QED
    BY <1>0, <2>1, Codes DEF ReadResource, Fails
<1>4. Fails(CompletionComplete(m, outcome)) \/ Completes(CompletionComplete(m, outcome))
  BY Codes DEF CompletionComplete, Fails, Completes
<1>5. Fails(Listen(m, outcome)) \/ Completes(Listen(m, outcome))
  BY Codes DEF Listen, Fails, Completes
<1>6. Completes(Complete(FALSE))
  BY DEF Completes
<1>7. \/ Fails(a) \/ Completes(a)
      \/ m.method \in CacheableMethods /\ a = Result(TRUE, ZeroHint, "complete")
  <2>1. m.method = "resources/read" => m.method \in CacheableMethods
    BY DEF CacheableMethods
  <2> QED
    BY <1>1, <1>2, <1>3, <1>4, <1>5, <1>6, <2>1 DEF Answer
<1>8. m.method \in CacheableMethods =>
        Fails(a) \/ a = Complete(FALSE) \/ a = Result(TRUE, ZeroHint, "complete")
  <2>1. m.method \in CacheableMethods => m.method \notin
        {"tools/call", "prompts/get", "completion/complete", "subscriptions/listen"}
    BY DEF CacheableMethods
  <2> QED
    BY <1>3, <2>1 DEF Answer
<1>9. m.method = "subscriptions/listen" =>
        a = IF outcome = "fails" THEN Failure(InternalError) ELSE Complete(FALSE)
  BY DEF Answer, Listen
<1> QED
  BY <1>7, <1>8, <1>9

LEMMA Enveloped ==
    ASSUME NEW m, NEW a, NEW failed, NEW written,
           a = Result(failed, written, "complete")
    PROVE  /\ ApplyResultEnvelope(m, a).failed = failed
           /\ ApplyResultEnvelope(m, a).written = ApplyCacheHints(m, a)
BY ValuesAssumption DEF ApplyResultEnvelope, Result, NoError

LEMMA Unpriced ==
    ASSUME NEW m, NEW a, Fails(a)
    PROVE  ApplyResultEnvelope(m, a) = a /\ a.code # NoError /\ a.failed
BY DEF ApplyResultEnvelope, Fails, Failure

LEMMA HintKept ==
    ASSUME NEW m, m.method \in CacheableMethods, NEW failed, NEW written \in {Unset, ZeroHint}
    PROVE  ApplyCacheHints(m, Result(failed, written, "complete"))
             = IF written = ZeroHint THEN ZeroHint
               ELSE [ttl |-> CacheHintFor(m).ttl, scope |-> CacheHintFor(m).scope]
<1>1. Absent # 0
  BY Distinct, 0 \in Int
<1>2. Absent # "private"
  BY ValuesAssumption DEF Scopes
<1> QED
  BY <1>1, <1>2 DEF ApplyCacheHints, Result, Unset, ZeroHint, Priced, LegalTtl, LegalScope, Scopes

LEMMA HintNotAdded ==
    ASSUME NEW m, m.method \notin CacheableMethods, NEW a
    PROVE  ApplyCacheHints(m, a) = a.written
BY DEF ApplyCacheHints

\* Public advice is configured for the resource, for the method, or at large.
LEMMA PublicByAdvice ==
    ASSUME NEW m, CacheHintFor(m).scope = "public"
    PROVE  /\ ~m.retried
           /\ \/ m.method = "resources/read" /\ m.target \in DOMAIN ResourceHint
                 /\ ResourceHint[m.target].scope = "public"
              \/ m.method \in DOMAIN MethodHint /\ MethodHint[m.method].scope = "public"
              \/ m.method \notin DOMAIN MethodHint
                 /\ ServerHint # Absent /\ ServerHint.scope = "public"
BY DEF CacheHintFor, Advice, Scope, ZeroHint

\* What FailuresAreNotCached says of one reply.
Priceless(m, hint, failed) ==
    LET cacheable == m.method \in CacheableMethods IN
    m.method \notin CustomMethods =>
        /\ cacheable /\ (failed \/ m.retried) => hint = ZeroHint
        /\ ~cacheable => hint = Unset
        /\ cacheable /\ hint.scope = "public" =>
                \/ m.method = "resources/read" /\ m.target \in DOMAIN ResourceHint
                   /\ ResourceHint[m.target].scope = "public"
                \/ m.method \in DOMAIN MethodHint /\ MethodHint[m.method].scope = "public"
                \/ m.method \notin DOMAIN MethodHint
                   /\ ServerHint # Absent /\ ServerHint.scope = "public"

LEMMA AnswerPriced ==
    ASSUME NEW m \in Messages, NEW outcome \in Outcomes,
           NEW own \in OwnCodes, NEW written, NEW type, NEW r,
           r = ApplyResultEnvelope(m, Answer(m, outcome, own, written, type)),
           r.code = NoError
    PROVE  Priceless(m, r.written, r.failed)
<1> SUFFICES ASSUME m.method \notin CustomMethods
             PROVE  Priceless(m, r.written, r.failed)
  BY DEF Priceless
<1> DEFINE a == Answer(m, outcome, own, written, type)
<1>0. /\ r = ApplyResultEnvelope(m, a)
      /\ \/ Fails(a) \/ Completes(a)
         \/ m.method \in CacheableMethods /\ a = Result(TRUE, ZeroHint, "complete")
      /\ m.method \in CacheableMethods =>
            Fails(a) \/ a = Complete(FALSE) \/ a = Result(TRUE, ZeroHint, "complete")
  <2>1. r = ApplyResultEnvelope(m, a)
    OBVIOUS
  <2>2. \/ Fails(a) \/ Completes(a)
        \/ m.method \in CacheableMethods /\ a = Result(TRUE, ZeroHint, "complete")
    BY AnswerForms
  <2>3. m.method \in CacheableMethods =>
            Fails(a) \/ a = Complete(FALSE) \/ a = Result(TRUE, ZeroHint, "complete")
    BY AnswerForms
  <2> QED
    BY <2>1, <2>2, <2>3
<1> HIDE DEF a
<1>1. CASE Fails(a)
  BY <1>0, <1>1, Unpriced
<1>2. CASE m.method \in CacheableMethods /\ a = Result(TRUE, ZeroHint, "complete")
  <2>1. r.written = ApplyCacheHints(m, a)
    <3>1. ApplyResultEnvelope(m, a).written = ApplyCacheHints(m, a)
      BY <1>2, Enveloped
    <3> QED
      BY <1>0, <3>1
  <2>2. r.written = ZeroHint
    BY <1>2, <2>1, HintKept
  <2> QED
    BY <1>2, <2>2 DEF Priceless, ZeroHint
<1>3. ASSUME NEW failed, a = Complete(failed)
      PROVE  Priceless(m, r.written, r.failed)
  <2>1. a = Result(failed, Unset, "complete")
    BY <1>3 DEF Complete
  <2>2. r.written = ApplyCacheHints(m, a) /\ r.failed = failed
    BY <1>0, <2>1, Enveloped
  <2>3. CASE m.method \notin CacheableMethods
    <3>1. r.written = Unset
      BY <2>1, <2>2, <2>3, HintNotAdded DEF Result
    <3> QED
      BY <2>3, <3>1 DEF Priceless
  <2>4. CASE m.method \in CacheableMethods
    <3>1. r.written = [ttl |-> CacheHintFor(m).ttl, scope |-> CacheHintFor(m).scope]
      BY <2>1, <2>2, <2>4, HintKept, ValuesAssumption DEF Unset, ZeroHint
    <3>2. ~r.failed
      <4>1. ~Fails(a)
        BY <1>0, Unpriced
      <4>2. Absent # 0
        BY Distinct
      <4> QED
        BY <1>0, <2>1, <2>2, <2>4, <4>1, <4>2 DEF Complete, Result, Unset, ZeroHint
    <3>3. m.retried => r.written = ZeroHint
      BY <3>1 DEF CacheHintFor, ZeroHint
    <3>4. r.written.scope = "public" => CacheHintFor(m).scope = "public"
      BY <3>1
    <3> QED
      BY <2>4, <3>2, <3>3, <3>4, PublicByAdvice DEF Priceless
  <2> QED
    BY <2>3, <2>4
<1> QED
  BY <1>0, <1>1, <1>2, <1>3 DEF Completes

(* ---------------- the invariant ---------------- *)

Keys == Nat \cup {NoKey} \cup {Supplied[i] : i \in Instances}
Session == [n : Nat, key : Keys]
SessionIds == Session \cup {Absent, Forged}

\* A POST the endpoint holds and has not answered.
Underway ==
    [stage : {"received", "admitted", "running"}, at : Instances, h : Headers,
     m : Messages, sent : SessionIds, session : SessionIds, frames : Nat,
     reply : {NoReply}]

Opens(p) ==
    p.stage \notin {"idle", "answered"} /\ p.at \notin Piped /\ p.m.method = "initialize"

\* Each instance holds the key it was given, or one that was drawn, or none.
KeysHeld ==
    /\ drawn \in 0..MaxDraws
    /\ key \in [Instances -> Keys]
    /\ \A i \in Instances :
        IF KeepsSupplied(i) THEN key[i] = Supplied[i] ELSE key[i] \in 1..drawn \cup {NoKey}

\* Every session issued, and every one a POST may still be issued, is within the
\* bound.
SessionsHeld ==
    /\ sessions \subseteq Session /\ IsFiniteSet(sessions)
    /\ Cardinality(sessions) + Cardinality(Initializing) <= MaxSessions
    /\ retained \in [Piped -> SessionIds]
    /\ \A i \in Piped : retained[i] \in {Absent, OwnSession(i)}

\* What the stages a POST has passed say of it.
Standing(p) ==
    /\ p.stage # "running" => p.frames = 0
    /\ OverHttp(p) /\ p.stage # "received" => Admission(p.h, p.m) = NoError
    /\ p.stage = "running" => ~IsNotification(p.m) /\ Refusal(p.m) = NoError

\* The session a POST is handled under is vouched for, by the instance that
\* serves it.
Vouched(p) ==
    /\ p.stage = "received" => p.session = Absent
    /\ p.sent \in sessions \cup {Absent, Forged}
    /\ p.session # Absent =>
        /\ p.session.key = key[p.at]
        /\ IF OverHttp(p) THEN ~Modern(p.m) /\ p.session \in sessions
                          ELSE p.session = OwnSession(p.at)

\* What RepliesAreReadable says of one answered POST.
Readable(p) ==
    LET r == p.reply IN
    /\ r.id # Absent => r.id = p.m.id
    /\ IF OverHttp(p) THEN (r.framing = "none") = (r.status = 202)
                      ELSE r.framing \in {"line", "none"} /\ r.status = 0
    /\ r.framing \in {"none", "cut"} => IsNotification(p.m) \/ Handled(p.m)
    /\ OverHttp(p) /\ r.framing = "none" => IsNotification(p.m)
    /\ OverHttp(p) /\ p.frames > 0 => r.status = 200 /\ r.framing \in {"stream", "cut"}
    /\ (OverHttp(p) /\ Legacy(p.m) /\ r.framing # "text" /\ ~IsNotification(p.m)
          /\ Admission(p.h, p.m) = NoError) => r.status = 200
    /\ (r.result /\ p.m.method = "subscriptions/listen"
          /\ p.m.method \notin CustomMethods
          /\ (OverHttp(p) => AcceptsEventStream(p.h))) => p.frames = 1

Settled(p) ==
    /\ Readable(p)
    /\ p.reply.session # Absent =>
            OverHttp(p) /\ Legacy(p.m) /\ p.m.method = "initialize"
    /\ p.reply.result => Priceless(p.m, p.reply.hint, p.reply.failed)

GoodPost(p) ==
    \/ p = Idle
    \/ p \in Underway /\ Standing(p) /\ Vouched(p)
    \/ p.stage = "answered" /\ Settled(p)

PostsHeld ==
    /\ posts = [c \in Clients |-> posts[c]]
    /\ \A c \in Clients : GoodPost(posts[c])

EndpointInv == KeysHeld /\ SessionsHeld /\ PostsHeld

LEMMA InitializingOpens == Initializing = {c \in Clients : Opens(posts[c])}
BY DEF Initializing, Opens

LEMMA InitializingFinite ==
    IsFiniteSet(Initializing) /\ Cardinality(Initializing) \in Nat
<1>1. Initializing \subseteq Clients
  BY DEF Initializing
<1> QED
  BY <1>1, EndpointAssumption, FS_Subset, FS_CardinalityType

LEMMA InvInit == Init => EndpointInv
<1> SUFFICES ASSUME Init PROVE EndpointInv
  OBVIOUS
<1>1. Cardinality(Instances) \in Nat
  BY EndpointAssumption, FS_CardinalityType
<1>2. KeysHeld
  BY <1>1, EndpointAssumption DEF Init, KeysHeld, Keys, KeepsSupplied
<1>3. PostsHeld
  BY DEF Init, PostsHeld, GoodPost
<1>4. Initializing = {}
  BY DEF Init, Initializing, Idle
<1>5. SessionsHeld
  BY <1>4, FS_EmptySet, EndpointAssumption DEF Init, SessionsHeld, SessionIds
<1> QED
  BY <1>2, <1>3, <1>5 DEF EndpointInv

(* ---------------- steps of one POST ---------------- *)

\* A step that changes one POST, and issues no session.
LEMMA PostStep ==
    ASSUME EndpointInv, NEW c \in Clients, NEW q, GoodPost(q),
           posts' = [posts EXCEPT ![c] = q],
           UNCHANGED <<key, drawn, sessions, retained>>,
           Opens(q) => Opens(posts[c])
    PROVE  EndpointInv'
<1>1. KeysHeld'
  BY DEF EndpointInv, KeysHeld, KeepsSupplied
<1>2. SessionsHeld'
  <2>1. Initializing' \subseteq Initializing
    <3>1. Initializing' = {d \in Clients : Opens(posts'[d])}
      BY DEF Initializing, Opens
    <3> QED
      BY <3>1, InitializingOpens DEF EndpointInv, PostsHeld
  <2>2. /\ Cardinality(Initializing') <= Cardinality(Initializing)
        /\ Cardinality(Initializing') \in Nat
    BY <2>1, InitializingFinite, FS_Subset, FS_CardinalityType
  <2>3. Cardinality(sessions) \in Nat
    BY FS_CardinalityType DEF EndpointInv, SessionsHeld
  <2> QED
    BY <2>2, <2>3, InitializingFinite, EndpointAssumption DEF EndpointInv, SessionsHeld, OwnSession
<1>3. PostsHeld'
  <2>1. \A d \in Clients : GoodPost(posts'[d])
    BY DEF EndpointInv, PostsHeld
  <2>2. ASSUME NEW p, GoodPost(p) PROVE GoodPost(p)'
    BY <2>2 DEF GoodPost, Vouched, OwnSession
  <2> QED
    BY <2>1, <2>2 DEF EndpointInv, PostsHeld
<1> QED
  BY <1>1, <1>2, <1>3 DEF EndpointInv

\* q answers p, with this reply.
Closes(q, p) ==
    /\ q.stage = "answered" /\ q.at = p.at /\ q.h = p.h /\ q.m = p.m
    /\ q.frames = p.frames
Says(q, status, framing, id, session) ==
    /\ q.reply.status = status /\ q.reply.framing = framing
    /\ q.reply.id = id /\ q.reply.session = session
Reports(q, r) ==
    /\ q.reply.hint = r.written /\ q.reply.failed = r.failed
    /\ q.reply.result => r.code = NoError
Resultless(q) == ~q.reply.result

LEMMA Closed ==
    ASSUME NEW p \in Underway, NEW reply
    PROVE  Closes(Answering(p, reply), p) /\ Answering(p, reply).reply = reply
BY DEF Answering, Underway, Closes

LEMMA Replied ==
    ASSUME NEW p \in Underway, NEW status, NEW framing, NEW code
    PROVE  /\ Closes(Reply(p, status, framing, code), p)
           /\ Says(Reply(p, status, framing, code), status, framing, EchoedId(p.m), Absent)
           /\ Resultless(Reply(p, status, framing, code))
<1> DEFINE reply == Told(p, status, framing, code)
           q == Reply(p, status, framing, code)
<1>1. /\ reply.status = status /\ reply.framing = framing /\ reply.id = EchoedId(p.m)
      /\ reply.session = Absent /\ ~reply.result
  BY DEF Told, NoReply
<1>2. q = Answering(p, reply)
  BY DEF Reply
<1> HIDE DEF reply, q
<1>3. Closes(q, p) /\ q.reply = reply
  BY <1>2, Closed
<1>4. Says(q, status, framing, EchoedId(p.m), Absent) /\ Resultless(q)
  BY <1>1, <1>3 DEF Says, Resultless
<1> QED
  BY <1>3, <1>4 DEF q

LEMMA Texted ==
    ASSUME NEW p \in Underway, NEW status
    PROVE  /\ Closes(Text(p, status), p)
           /\ Says(Text(p, status), status, "text", Absent, Absent)
           /\ Resultless(Text(p, status))
<1> DEFINE reply == [NoReply EXCEPT !.framing = "text", !.status = status]
           q == Text(p, status)
<1>1. /\ reply.status = status /\ reply.framing = "text" /\ reply.id = Absent
      /\ reply.session = Absent /\ ~reply.result
  BY DEF NoReply
<1>2. q = Answering(p, reply)
  BY DEF Text
<1> HIDE DEF reply, q
<1>3. Closes(q, p) /\ q.reply = reply
  BY <1>2, Closed
<1>4. Says(q, status, "text", Absent, Absent) /\ Resultless(q)
  BY <1>1, <1>3 DEF Says, Resultless
<1> QED
  BY <1>3, <1>4 DEF q

\* How Finish frames and marks its reply.
FramingOf(p, encodes) ==
    IF p.frames > 0 THEN (IF encodes THEN "stream" ELSE "cut")
    ELSE IF encodes THEN Framing(p) ELSE "json"
StatusOf(p, r, encodes) ==
    IF p.frames > 0 THEN 200 ELSE ReplyStatus(p.m, IF encodes THEN r.code ELSE InternalError)

LEMMA FinishedReplied ==
    ASSUME NEW p \in Underway, NEW r, NEW encodes, NEW session
    PROVE  /\ Closes(Finished(p, r, encodes, session), p)
           /\ Says(Finished(p, r, encodes, session), StatusOf(p, r, encodes),
                   FramingOf(p, encodes), EchoedId(p.m),
                   IF p.frames > 0 \/ ~encodes THEN Absent ELSE session)
           /\ Reports(Finished(p, r, encodes, session), r)
<1> DEFINE code == IF encodes THEN r.code ELSE InternalError
           framing == FramingOf(p, encodes)
           status == StatusOf(p, r, encodes)
           told == IF p.frames > 0 \/ ~encodes THEN Absent ELSE session
           reply == [Told(p, status, framing, code) EXCEPT !.session = told,
                        !.hint = r.written, !.failed = r.failed, !.result = code = NoError]
           q == Finished(p, r, encodes, session)
<1>1. q = Answering(p, reply)
  BY DEF Finished, FramingOf, StatusOf
<1>2. /\ reply.id = EchoedId(p.m) /\ reply.status = status /\ reply.framing = framing
      /\ reply.session = told
      /\ reply.hint = r.written /\ reply.failed = r.failed
      /\ reply.result => r.code = NoError
  <2>1. code = NoError => r.code = NoError
    BY Codes
  <2> HIDE DEF status, framing, code, told
  <2> QED
    BY <2>1 DEF Told, NoReply
<1> HIDE DEF reply, q, status, framing, told
<1>3. Closes(q, p) /\ q.reply = reply
  BY <1>1, Closed
<1>4. Says(q, status, framing, EchoedId(p.m), told) /\ Reports(q, r)
  BY <1>2, <1>3 DEF Says, Reports
<1> QED
  BY <1>3, <1>4 DEF q, status, framing, told

LEMMA LineReplied ==
    ASSUME NEW p \in Underway, NEW r, NEW encodes
    PROVE  /\ Closes(FinishedLine(p, r, encodes), p)
           /\ encodes => /\ Says(FinishedLine(p, r, encodes), 0, "line", EchoedId(p.m), Absent)
                         /\ Reports(FinishedLine(p, r, encodes), r)
           /\ ~encodes => /\ Says(FinishedLine(p, r, encodes), 0, "none", Absent, Absent)
                          /\ Resultless(FinishedLine(p, r, encodes))
<1> DEFINE said == [Told(p, 0, "line", r.code) EXCEPT
                        !.hint = r.written, !.failed = r.failed, !.result = r.code = NoError]
           q == FinishedLine(p, r, encodes)
<1>1. q = IF encodes THEN Answering(p, said) ELSE Answering(p, NoReply)
  BY DEF FinishedLine
<1>2. /\ said.id = EchoedId(p.m) /\ said.status = 0 /\ said.framing = "line"
      /\ said.session = Absent
      /\ said.hint = r.written /\ said.failed = r.failed
      /\ said.result <=> r.code = NoError
  BY DEF Told, NoReply
<1>3. /\ NoReply.id = Absent /\ NoReply.status = 0 /\ NoReply.framing = "none"
      /\ NoReply.session = Absent /\ ~NoReply.result
  BY DEF NoReply
<1> HIDE DEF said, q
<1>4. CASE encodes
  <2>1. Closes(q, p) /\ q.reply = said
    BY <1>1, <1>4, Closed
  <2>2. Says(q, 0, "line", EchoedId(p.m), Absent) /\ Reports(q, r)
    BY <1>2, <2>1 DEF Says, Reports
  <2> QED
    BY <1>4, <2>1, <2>2 DEF q
<1>5. CASE ~encodes
  <2>1. Closes(q, p) /\ q.reply = NoReply
    BY <1>1, <1>5, Closed
  <2>2. Says(q, 0, "none", Absent, Absent) /\ Resultless(q)
    BY <1>3, <2>1 DEF Says, Resultless
  <2> QED
    BY <1>5, <2>1, <2>2 DEF q
<1> QED
  BY <1>4, <1>5

\* q is p at another stage, under a session.
Moves(q, p, stage, session) ==
    /\ q \in Underway /\ q.stage = stage /\ q.session = session
    /\ q.at = p.at /\ q.h = p.h /\ q.m = p.m /\ q.frames = p.frames /\ q.sent = p.sent

LEMMA Advanced ==
    ASSUME NEW p \in Underway, NEW stage \in {"received", "admitted", "running"},
           NEW session \in SessionIds
    PROVE  Moves([p EXCEPT !.stage = stage, !.session = session], p, stage, session)
BY DEF Underway, Moves

\* A POST not answered yet is known to stand, by its stage.
LEMMA Held ==
    ASSUME EndpointInv, NEW c \in Clients,
           posts[c].stage \in {"received", "admitted", "running"}
    PROVE  posts[c] \in Underway /\ Standing(posts[c]) /\ Vouched(posts[c])
BY DEF EndpointInv, PostsHeld, GoodPost, Idle

LEMMA Statuses ==
    ASSUME NEW m, NEW code
    PROVE  /\ ReplyStatus(m, code) # 202
           /\ Legacy(m) => ReplyStatus(m, code) = 200
BY DEF ReplyStatus, StatusFor, Modern

\* A refusal that follows the rules of replyStatus, or a reply as text, settles a
\* POST whose frames have not begun.
LEMMA RepliedSettled ==
    ASSUME NEW p \in Underway, p.frames = 0, NEW status, NEW framing, NEW code,
           OverHttp(p) => (framing = "none") = (status = 202),
           ~OverHttp(p) => framing \in {"line", "none"} /\ status = 0,
           framing # "cut", framing = "none" => IsNotification(p.m),
           OverHttp(p) /\ Legacy(p.m) /\ ~IsNotification(p.m)
             /\ Admission(p.h, p.m) = NoError => status = 200
    PROVE  GoodPost(Reply(p, status, framing, code))
<1> DEFINE q == Reply(p, status, framing, code)
<1>1. Closes(q, p) /\ Says(q, status, framing, EchoedId(p.m), Absent) /\ Resultless(q)
  BY Replied
<1> HIDE DEF q
<1>2. EchoedId(p.m) # Absent => EchoedId(p.m) = p.m.id
  BY DEF EchoedId
<1>3. OverHttp(q) = OverHttp(p)
  BY <1>1 DEF OverHttp, Closes
<1>4. Readable(q)
  BY <1>1, <1>2, <1>3 DEF Readable, Closes, Says, Resultless
<1>5. GoodPost(q)
  BY <1>1, <1>4 DEF GoodPost, Settled, Closes, Says, Resultless
<1> QED
  BY <1>5 DEF q

LEMMA InvPost ==
    ASSUME EndpointInv, NEW c \in Clients, Post(c)
    PROVE  EndpointInv'
<1>1. PICK i \in Instances \ Piped, p \in Posts[c], sent \in sessions \cup {Absent, Forged} :
        /\ p.m.method = "initialize" =>
                Cardinality(sessions) + Cardinality(Initializing) < MaxSessions
        /\ posts' = [posts EXCEPT ![c] = Open(i, p, sent)]
  BY DEF Post
<1>2. posts[c].stage = "idle" /\ UNCHANGED <<key, drawn, sessions, retained>>
  BY DEF Post
<1> DEFINE q == Open(i, p, sent)
<1>3. q \in Underway /\ q.stage = "received" /\ q.sent = sent /\ q.session = Absent
        /\ q.frames = 0 /\ q.m = p.m
  <2>1. p \in [h : Headers, m : Messages]
    BY EndpointAssumption
  <2>2. sent \in SessionIds
    BY DEF SessionIds, EndpointInv, SessionsHeld
  <2> QED
    BY <2>1, <2>2 DEF Open, Underway, SessionIds
<1>4. GoodPost(q)
  BY <1>3 DEF GoodPost, Standing, Vouched
<1> HIDE DEF q
<1>5. CASE p.m.method # "initialize"
  <2>1. ~Opens(q)
    BY <1>3, <1>5 DEF Opens
  <2> QED
    BY <1>1, <1>2, <1>4, <2>1, PostStep DEF q
<1>6. CASE p.m.method = "initialize"
  <2>1. KeysHeld'
    BY <1>2 DEF EndpointInv, KeysHeld, KeepsSupplied
  <2>2. PostsHeld'
    <3>1. \A d \in Clients : GoodPost(posts'[d])
      BY <1>1, <1>4 DEF EndpointInv, PostsHeld, q
    <3>2. ASSUME NEW x, GoodPost(x) PROVE GoodPost(x)'
      BY <1>2, <3>2 DEF GoodPost, Vouched, OwnSession
    <3> QED
      BY <1>1, <3>1, <3>2 DEF EndpointInv, PostsHeld
  <2>3. SessionsHeld'
    <3>1. Initializing' \subseteq Initializing \cup {c}
      <4>1. Initializing' = {d \in Clients : Opens(posts'[d])}
        BY DEF Initializing, Opens
      <4> QED
        BY <1>1, <4>1, InitializingOpens DEF EndpointInv, PostsHeld
    <3>2. /\ IsFiniteSet(Initializing \cup {c})
          /\ Cardinality(Initializing \cup {c}) <= Cardinality(Initializing) + 1
          /\ Cardinality(Initializing \cup {c}) \in Nat
      <4>1. Cardinality(Initializing \cup {c})
              = IF c \in Initializing THEN Cardinality(Initializing)
                                      ELSE Cardinality(Initializing) + 1
        BY InitializingFinite, FS_AddElement
      <4>2. IsFiniteSet(Initializing \cup {c})
        BY InitializingFinite, FS_AddElement
      <4> QED
        BY <4>1, <4>2, InitializingFinite
    <3>3. /\ Cardinality(Initializing') <= Cardinality(Initializing) + 1
          /\ Cardinality(Initializing') \in Nat
      BY <3>1, <3>2, InitializingFinite, FS_Subset, FS_CardinalityType
    <3>4. Cardinality(sessions) \in Nat
      BY FS_CardinalityType DEF EndpointInv, SessionsHeld
    <3> QED
      BY <1>1, <1>2, <1>6, <3>3, <3>4, InitializingFinite, EndpointAssumption
      DEF EndpointInv, SessionsHeld, OwnSession
  <2> QED
    BY <2>1, <2>2, <2>3 DEF EndpointInv
<1> QED
  BY <1>5, <1>6

LEMMA InvWriteLine ==
    ASSUME EndpointInv, NEW c \in Clients, WriteLine(c)
    PROVE  EndpointInv'
<1>1. PICK i \in Piped, p \in Posts[c] :
        posts' = [posts EXCEPT ![c] = Open(i, [h |-> Bare, m |-> p.m], Absent)]
  BY DEF WriteLine
<1> DEFINE q == Open(i, [h |-> Bare, m |-> p.m], Absent)
<1>2. q \in Underway /\ q.stage = "received" /\ q.sent = Absent /\ q.session = Absent
        /\ q.frames = 0 /\ q.at = i
  <2>1. p.m \in Messages /\ i \in Instances
    BY EndpointAssumption
  <2>2. Bare \in Headers
    BY DEF Bare, Headers
  <2> QED
    BY <2>1, <2>2 DEF Open, Underway, SessionIds
<1>3. GoodPost(q) /\ ~Opens(q)
  BY <1>2 DEF GoodPost, Standing, Vouched, Opens
<1> HIDE DEF q
<1> QED
  BY <1>1, <1>3, PostStep DEF q, WriteLine

LEMMA InvReadLine ==
    ASSUME EndpointInv, NEW c \in Clients, ReadLine(c)
    PROVE  EndpointInv'
<1> DEFINE p == posts[c]
           q == [p EXCEPT !.stage = "admitted", !.session = retained[p.at]]
<1>1. p \in Underway /\ Standing(p) /\ Vouched(p) /\ p.at \in Piped /\ p.frames = 0
  BY Held DEF ReadLine, Standing
<1>2. retained[p.at] \in SessionIds /\ retained[p.at] \in {Absent, OwnSession(p.at)}
  BY <1>1 DEF EndpointInv, SessionsHeld
<1>3. Moves(q, p, "admitted", retained[p.at])
  BY <1>1, <1>2, Advanced
<1>4. posts' = [posts EXCEPT ![c] = q]
  BY DEF ReadLine
<1> HIDE DEF p, q
<1>5. GoodPost(q) /\ ~Opens(q)
  BY <1>1, <1>2, <1>3 DEF Moves, GoodPost, Standing, Vouched, OwnSession, Opens, OverHttp
<1> QED
  BY <1>4, <1>5, PostStep DEF ReadLine

LEMMA InvRefuseBody ==
    ASSUME EndpointInv, NEW c \in Clients, RefuseBody(c)
    PROVE  EndpointInv'
<1> DEFINE p == posts[c]
           status == IF ~p.h.declared THEN 415 ELSE IF p.h.body = "oversized" THEN 413 ELSE 400
           q == Text(p, status)
<1>1. p \in Underway /\ Standing(p) /\ OverHttp(p) /\ p.frames = 0
  BY Held DEF RefuseBody, Standing, OverHttp
<1>2. posts' = [posts EXCEPT ![c] = q]
  BY DEF RefuseBody
<1>3. status # 202
  OBVIOUS
<1>0. q = Text(p, status)
  OBVIOUS
<1> HIDE DEF status, q, p
<1>4. Closes(q, p) /\ Says(q, status, "text", Absent, Absent) /\ Resultless(q)
  BY <1>0, <1>1, Texted
<1>5. Readable(q)
  BY <1>1, <1>3, <1>4 DEF Readable, OverHttp, Closes, Says, Resultless
<1>6. GoodPost(q) /\ ~Opens(q)
  BY <1>4, <1>5 DEF GoodPost, Settled, Opens, Closes, Says, Resultless
<1> QED
  BY <1>2, <1>6, PostStep DEF RefuseBody

LEMMA InvValidateHeaders ==
    ASSUME EndpointInv, NEW c \in Clients, ValidateHeaders(c)
    PROVE  EndpointInv'
<1> DEFINE p == posts[c]
           session == InboundSession(p.at, p.m, p.sent)
           q == [p EXCEPT !.stage = "admitted", !.session = session]
           x == Reply(p, 400, "json", Admission(p.h, p.m))
<1>1. p \in Underway /\ Standing(p) /\ Vouched(p) /\ OverHttp(p) /\ p.frames = 0
  BY Held DEF ValidateHeaders, Standing, OverHttp
<1>2. posts' = [posts EXCEPT ![c] = IF Admission(p.h, p.m) = NoError THEN q ELSE x]
  BY DEF ValidateHeaders
<1>3. p.stage = "received"
  BY DEF ValidateHeaders
<1> HIDE DEF p
<1>4. CASE Admission(p.h, p.m) = NoError
  <2>1. /\ session \in SessionIds
        /\ session # Absent =>
             ~Modern(p.m) /\ session \in sessions /\ session.key = key[p.at]
    BY <1>1 DEF InboundSession, Issued, Vouched, SessionIds, EndpointInv, SessionsHeld
  <2> HIDE DEF session
  <2>2. Moves(q, p, "admitted", session)
    BY <1>1, <2>1, Advanced
  <2> HIDE DEF q
  <2>3. GoodPost(q)
    BY <1>1, <1>4, <2>1, <2>2 DEF Moves, GoodPost, Standing, Vouched, OverHttp
  <2>4. Opens(q) => Opens(p)
    BY <1>3, <2>2 DEF Moves, Opens
  <2> QED
    BY <1>2, <1>4, <2>3, <2>4, PostStep DEF ValidateHeaders, p
<1>5. CASE Admission(p.h, p.m) # NoError
  <2>1. GoodPost(x)
    BY <1>1, <1>5, RepliedSettled
  <2>2. ~Opens(x)
    BY <1>1, Replied DEF Closes, Opens
  <2> HIDE DEF x
  <2> QED
    BY <1>2, <1>5, <2>1, <2>2, PostStep DEF ValidateHeaders
<1> QED
  BY <1>4, <1>5

LEMMA InvRefuse ==
    ASSUME EndpointInv, NEW c \in Clients, Refuse(c)
    PROVE  EndpointInv'
<1> DEFINE p == posts[c]
           code == IF IsNotification(p.m) THEN ParseVerdict(p.m) ELSE Refusal(p.m)
           status == IF code = NoError THEN IF p.at \in Piped THEN 0 ELSE 202
                     ELSE Status(p, code)
           framing == IF code = NoError THEN "none" ELSE Framing(p)
           q == Reply(p, status, framing, code)
<1>1. p \in Underway /\ Standing(p) /\ p.frames = 0
  BY Held DEF Refuse, Standing
<1>2. posts' = [posts EXCEPT ![c] = q]
  <2>1. posts' = [posts EXCEPT ![c] =
            IF code = NoError THEN Reply(p, IF p.at \in Piped THEN 0 ELSE 202, "none", NoError)
            ELSE Reply(p, Status(p, code), Framing(p), code)]
    BY DEF Refuse
  <2> QED
    BY <2>1
<1>3. code = NoError => IsNotification(p.m)
  BY DEF Refuse
<1> HIDE DEF p, code
<1>4. Framing(p) \notin {"none", "cut"} /\ (~OverHttp(p) => Framing(p) = "line")
  BY DEF Framing, OverHttp
<1>5. IF OverHttp(p) THEN Status(p, code) = ReplyStatus(p.m, code) ELSE Status(p, code) = 0
  BY DEF Status, OverHttp
<1>6. /\ OverHttp(p) => (framing = "none") = (status = 202)
      /\ ~OverHttp(p) => framing \in {"line", "none"} /\ status = 0
      /\ framing # "cut" /\ (framing = "none" => IsNotification(p.m))
      /\ OverHttp(p) /\ Legacy(p.m) /\ ~IsNotification(p.m) => status = 200
  BY <1>3, <1>4, <1>5, Statuses DEF OverHttp
<1> HIDE DEF status, framing
<1>7. GoodPost(q)
  BY <1>1, <1>6, RepliedSettled
<1>8. ~Opens(q)
  BY <1>1, Replied DEF Closes, Opens
<1> HIDE DEF q
<1> QED
  BY <1>2, <1>7, <1>8, PostStep DEF Refuse

LEMMA InvBegin ==
    ASSUME EndpointInv, NEW c \in Clients, Begin(c)
    PROVE  EndpointInv'
<1> DEFINE p == posts[c]
           q == [p EXCEPT !.stage = "running"]
<1>1. p \in Underway /\ Standing(p) /\ Vouched(p)
  BY Held DEF Begin
<1>2. posts' = [posts EXCEPT ![c] = q]
  BY DEF Begin
<1>3. p.stage = "admitted" /\ ~IsNotification(p.m) /\ Refusal(p.m) = NoError
  BY DEF Begin
<1> HIDE DEF p
<1>4. Moves(q, p, "running", p.session)
  BY <1>1 DEF Underway, Moves
<1> HIDE DEF q
<1>5. GoodPost(q)
  BY <1>1, <1>3, <1>4 DEF Moves, GoodPost, Standing, Vouched, OverHttp
<1>6. Opens(q) => Opens(p)
  BY <1>3, <1>4 DEF Moves, Opens
<1> QED
  BY <1>2, <1>5, <1>6, PostStep DEF Begin, p

\* A frame of a running POST.
LEMMA InvFrame ==
    ASSUME EndpointInv, NEW c \in Clients, posts[c].stage = "running", NEW n \in Nat,
           posts' = [posts EXCEPT ![c].frames = n],
           UNCHANGED <<key, drawn, sessions, retained>>
    PROVE  EndpointInv'
<1> DEFINE p == posts[c]
           q == [p EXCEPT !.frames = n]
<1>1. p \in Underway /\ Standing(p) /\ Vouched(p)
  BY Held
<1>2. posts' = [posts EXCEPT ![c] = q]
  OBVIOUS
<1>3. p.stage = "running"
  OBVIOUS
<1> HIDE DEF p
<1>4. /\ q \in Underway /\ q.stage = "running" /\ q.session = p.session
      /\ q.at = p.at /\ q.h = p.h /\ q.m = p.m /\ q.sent = p.sent
  BY <1>1, <1>3 DEF Underway
<1> HIDE DEF q
<1>5. GoodPost(q)
  BY <1>1, <1>3, <1>4 DEF GoodPost, Standing, Vouched, OverHttp
<1>6. Opens(q) => Opens(p)
  BY <1>3, <1>4 DEF Opens
<1> QED
  BY <1>2, <1>5, <1>6, PostStep DEF p

LEMMA InvReportProgress ==
    ASSUME EndpointInv, NEW c \in Clients, ReportProgress(c)
    PROVE  EndpointInv'
<1>1. posts[c] \in Underway
  BY Held DEF ReportProgress
<1>2. posts[c].frames + 1 \in Nat
  BY <1>1 DEF Underway
<1> QED
  BY <1>2, InvFrame DEF ReportProgress

LEMMA InvAcknowledge ==
    ASSUME EndpointInv, NEW c \in Clients, Acknowledge(c)
    PROVE  EndpointInv'
BY InvFrame DEF Acknowledge

LEMMA InvTake ==
    ASSUME EndpointInv, NEW c \in Clients, Take(c)
    PROVE  EndpointInv'
<1>1. GoodPost(Idle) /\ ~Opens(Idle)
  BY DEF GoodPost, Opens, Idle
<1> QED
  BY <1>1, PostStep DEF Take

(* ---------------- the reply of a method ---------------- *)

\* A subscription that ends with a result was acknowledged, if frames could be
\* pushed.
LEMMA ListenedAcknowledged ==
    ASSUME NEW p \in Underway, Standing(p), p.stage = "running",
           p.m.method = "subscriptions/listen", p.m.method \notin CustomMethods,
           NEW outcome \in Outcomes, Possible(p, outcome), NEW own \in OwnCodes, NEW written, NEW type,
           ApplyResultEnvelope(p.m, Answer(p.m, outcome, own, written, type)).code = NoError,
           OverHttp(p) => AcceptsEventStream(p.h)
    PROVE  p.frames = 1
<1>1. p.m \in Messages
  BY DEF Underway
<1>2. outcome # "fails"
  <2>1. outcome = "fails" => Answer(p.m, outcome, own, written, type) = Failure(InternalError)
    BY <1>1, AnswerForms
  <2>2. Fails(Failure(InternalError))
    BY Codes DEF Fails
  <2> QED
    BY <2>1, <2>2, Unpriced
<1>3. Inspected(p.m)
  BY <1>1, Refused, Parsed DEF Standing
<1>4. Streams(p)
  BY <1>3 DEF Streams, Streamable, OverHttp
<1> QED
  BY <1>2, <1>4 DEF Possible

\* What the method of a running POST makes of it.
Resulting(p, outcome, own, w) ==
    ApplyResultEnvelope(p.m, Answer(p.m, outcome, own, w.written, w.type))
Ended(p, r, encodes, session) ==
    IF p.at \in Piped THEN FinishedLine(p, r, encodes) ELSE Finished(p, r, encodes, session)
MayEnd(p, outcome) ==
    /\ p \in Underway /\ Standing(p) /\ p.stage = "running"
    /\ outcome \in Outcomes /\ Possible(p, outcome)
MayBeTold(p, session) ==
    session # Absent => p.at \notin Piped /\ p.m.method = "initialize"
Answers(q) == GoodPost(q) /\ q.stage = "answered"

\* What Finish says of a running POST settles it.
LEMMA FinishSettles ==
    ASSUME NEW p, NEW outcome, MayEnd(p, outcome), NEW own \in OwnCodes, NEW w,
           NEW encodes \in Encodable(p.m, outcome),
           NEW session, MayBeTold(p, session)
    PROVE  Answers(Ended(p, Resulting(p, outcome, own, w), encodes, session))
<1> DEFINE r == Resulting(p, outcome, own, w)
           q == Ended(p, r, encodes, session)
<1>0. /\ p \in Underway /\ Standing(p) /\ p.stage = "running"
      /\ outcome \in Outcomes /\ Possible(p, outcome)
      /\ session # Absent => p.at \notin Piped /\ p.m.method = "initialize"
  BY DEF MayEnd, MayBeTold
<1>a. r = ApplyResultEnvelope(p.m, Answer(p.m, outcome, own, w.written, w.type))
  BY DEF Resulting
<1>b. q = IF p.at \in Piped THEN FinishedLine(p, r, encodes)
                             ELSE Finished(p, r, encodes, session)
  BY DEF Ended
<1>c. encodes \in Encodable(p.m, outcome)
  OBVIOUS
<1> SUFFICES GoodPost(q) /\ q.stage = "answered"
  BY DEF Answers
<1> HIDE DEF r, q
<1>1. p.m \in Messages /\ p.frames \in Nat
  BY <1>0 DEF Underway
<1>2. EchoedId(p.m) # Absent => EchoedId(p.m) = p.m.id
  BY DEF EchoedId
<1>3. ~IsNotification(p.m) /\ (session # Absent => Legacy(p.m))
  BY <1>0, Refused, Initializes DEF Standing
<1>4. r.code = NoError => Priceless(p.m, r.written, r.failed)
  BY <1>0, <1>1, <1>a, AnswerPriced
<1>5. (r.code = NoError /\ p.m.method = "subscriptions/listen"
         /\ p.m.method \notin CustomMethods /\ (OverHttp(p) => AcceptsEventStream(p.h)))
      => p.frames = 1
  BY <1>0, <1>a, ListenedAcknowledged
<1>6. CASE p.at \in Piped
  <2>1. q = FinishedLine(p, r, encodes) /\ ~OverHttp(p)
    BY <1>6, <1>b DEF OverHttp
  <2>2. CASE encodes
    <3>1. Closes(q, p) /\ Says(q, 0, "line", EchoedId(p.m), Absent) /\ Reports(q, r)
      BY <1>0, <2>1, <2>2, LineReplied
    <3>2. Readable(q)
      BY <1>2, <1>5, <2>1, <3>1 DEF Readable, OverHttp, Closes, Says, Reports
    <3>3. Settled(q)
      BY <1>4, <3>1, <3>2 DEF Settled, Closes, Says, Reports
    <3> QED
      BY <3>1, <3>3 DEF GoodPost, Closes
  <2>3. CASE ~encodes
    <3>1. Closes(q, p) /\ Says(q, 0, "none", Absent, Absent) /\ Resultless(q)
      BY <1>0, <2>1, <2>3, LineReplied
    <3>2. Handled(p.m)
      BY <1>c, <2>3 DEF Encodable, Handled
    <3>3. Readable(q)
      BY <2>1, <3>1, <3>2 DEF Readable, OverHttp, Closes, Says, Resultless
    <3>4. Settled(q)
      BY <3>1, <3>3 DEF Settled, Closes, Says, Resultless
    <3> QED
      BY <3>1, <3>4 DEF GoodPost, Closes
  <2> QED
    BY <2>2, <2>3
<1>7. CASE p.at \notin Piped
  <2> DEFINE status == StatusOf(p, r, encodes)
             framing == FramingOf(p, encodes)
             told == IF p.frames > 0 \/ ~encodes THEN Absent ELSE session
  <2>1. q = Finished(p, r, encodes, session) /\ OverHttp(p)
    BY <1>7, <1>b DEF OverHttp
  <2>2. Closes(q, p) /\ Says(q, status, framing, EchoedId(p.m), told) /\ Reports(q, r)
    BY <1>0, <2>1, FinishedReplied
  <2>3. /\ framing # "none" /\ status # 202
        /\ p.frames > 0 => status = 200 /\ framing \in {"stream", "cut"}
        /\ Legacy(p.m) => status = 200
    BY <2>1, Statuses DEF StatusOf, FramingOf, Framing
  <2>4. framing = "cut" => Handled(p.m)
    BY <2>1, <1>c DEF FramingOf, Framing, OverHttp, Encodable, Handled
  <2>5. told # Absent => session # Absent
    OBVIOUS
  <2> HIDE DEF status, framing, told
  <2>6. Readable(q)
    BY <1>2, <1>5, <2>1, <2>2, <2>3, <2>4 DEF Readable, OverHttp, Closes, Says, Reports
  <2>7. Settled(q)
    BY <1>0, <1>3, <1>4, <2>1, <2>2, <2>5, <2>6 DEF Settled, OverHttp, Closes, Says, Reports
  <2> QED
    BY <2>2, <2>7 DEF GoodPost, Closes
<1> QED
  BY <1>6, <1>7

LEMMA InvFinish ==
    ASSUME EndpointInv, NEW c \in Clients, Finish(c)
    PROVE  EndpointInv'
<1> DEFINE p == posts[c]
<1>1. p \in Underway /\ Standing(p) /\ p.stage = "running"
  BY Held DEF Finish
<1>2. PICK outcome \in Outcomes, own \in OwnCodes, w \in Writes :
        /\ Possible(p, outcome)
        /\ LET r == ApplyResultEnvelope(p.m, Answer(p.m, outcome, own, w.written, w.type))
               opens == p.m.method = "initialize" /\ r.code = NoError
               s == IF opens /\ p.at \notin Piped THEN NewSession(p.at) ELSE Absent
           IN  /\ \E encodes \in Encodable(p.m, outcome) :
                    posts' = [posts EXCEPT ![c] =
                        IF p.at \in Piped THEN FinishedLine(p, r, encodes)
                        ELSE Finished(p, r, encodes, s)]
               /\ sessions' = IF s = Absent THEN sessions ELSE sessions \cup {s}
               /\ retained' = IF opens /\ p.at \in Piped
                              THEN [retained EXCEPT ![p.at] = OwnSession(p.at)] ELSE retained
  BY ZenonT(60) DEF Finish
<1> DEFINE r == ApplyResultEnvelope(p.m, Answer(p.m, outcome, own, w.written, w.type))
           opens == p.m.method = "initialize" /\ r.code = NoError
           s == IF opens /\ p.at \notin Piped THEN NewSession(p.at) ELSE Absent
<1>3. PICK encodes \in Encodable(p.m, outcome) :
        posts' = [posts EXCEPT ![c] = IF p.at \in Piped THEN FinishedLine(p, r, encodes)
                                      ELSE Finished(p, r, encodes, s)]
  BY <1>2
<1> DEFINE q == IF p.at \in Piped THEN FinishedLine(p, r, encodes)
                ELSE Finished(p, r, encodes, s)
<1>4. s # Absent => p.at \notin Piped /\ p.m.method = "initialize" /\ s = NewSession(p.at)
  OBVIOUS
<1>5. sessions' = IF s = Absent THEN sessions ELSE sessions \cup {s}
  BY <1>2
<1>6. retained' = retained
        \/ (p.at \in Piped /\ retained' = [retained EXCEPT ![p.at] = OwnSession(p.at)])
  BY <1>2
<1>7. key' = key /\ drawn' = drawn
  BY DEF Finish
<1>8. GoodPost(q) /\ q.stage = "answered"
  <2>1. r = Resulting(p, outcome, own, w)
    BY DEF Resulting
  <2>2. q = Ended(p, r, encodes, s)
    BY DEF Ended
  <2>3. MayEnd(p, outcome)
    BY <1>1, <1>2 DEF MayEnd
  <2>4. MayBeTold(p, s)
    BY <1>4 DEF MayBeTold
  <2> HIDE DEF p, r, s, q
  <2>5. encodes \in Encodable(p.m, outcome)
    BY <1>3, <2>1
  <2>6. Answers(Ended(p, Resulting(p, outcome, own, w), encodes, s))
    BY <2>3, <2>4, <2>5, FinishSettles
  <2> QED
    BY <2>1, <2>2, <2>6 DEF Answers
<1>9. posts' = [posts EXCEPT ![c] = q]
  BY <1>3
<1> HIDE DEF s, q, r
<1>10. KeysHeld'
  BY <1>7 DEF EndpointInv, KeysHeld, KeepsSupplied
<1>11. PostsHeld'
  <2>1. \A d \in Clients : GoodPost(posts'[d])
    BY <1>8, <1>9 DEF EndpointInv, PostsHeld
  <2>2. sessions \subseteq sessions'
    BY <1>5
  <2>3. ASSUME NEW x, GoodPost(x) PROVE GoodPost(x)'
    BY <1>7, <2>2, <2>3 DEF GoodPost, Vouched, OwnSession
  <2> QED
    BY <1>9, <2>1, <2>3 DEF EndpointInv, PostsHeld
<1>12. SessionsHeld'
  <2>1. Initializing' \subseteq Initializing \ (IF Opens(p) THEN {c} ELSE {})
    <3>1. Initializing' = {d \in Clients : Opens(posts'[d])}
      BY DEF Initializing, Opens
    <3>2. ~Opens(q)
      BY <1>8 DEF Opens
    <3> QED
      BY <1>9, <3>1, <3>2, InitializingOpens DEF EndpointInv, PostsHeld
  <2>2. Cardinality(sessions) \in Nat /\ p.at \in Instances
    BY <1>1, FS_CardinalityType DEF EndpointInv, SessionsHeld, Underway
  <2>3. CASE s = Absent
    <3>1. Initializing' \subseteq Initializing
      BY <2>1
    <3>2. /\ Cardinality(Initializing') <= Cardinality(Initializing)
          /\ Cardinality(Initializing') \in Nat
      BY <3>1, InitializingFinite, FS_Subset, FS_CardinalityType
    <3>3. Cardinality(sessions') + Cardinality(Initializing)' <= MaxSessions
      BY <1>5, <2>2, <2>3, <3>2, InitializingFinite, EndpointAssumption
      DEF EndpointInv, SessionsHeld
    <3>4. /\ retained' \in [Piped -> SessionIds]
          /\ \A i \in Piped : retained'[i] \in {Absent, OwnSession(i)'}
      <4>1. OwnSession(p.at) \in SessionIds
        BY <2>2 DEF OwnSession, SessionIds, Session, EndpointInv, KeysHeld
      <4> QED
        BY <1>6, <1>7, <4>1 DEF EndpointInv, SessionsHeld, OwnSession
    <3> QED
      BY <1>5, <2>3, <3>3, <3>4 DEF EndpointInv, SessionsHeld
  <2>4. CASE s # Absent
    <3>1. Opens(p) /\ c \in Initializing
      BY <1>1, <1>4, <2>4, InitializingOpens DEF Opens
    <3>2. /\ Initializing' \subseteq Initializing \ {c}
          /\ IsFiniteSet(Initializing \ {c})
          /\ Cardinality(Initializing \ {c}) = Cardinality(Initializing) - 1
      BY <2>1, <3>1, InitializingFinite, FS_RemoveElement
    <3>3. /\ Cardinality(Initializing') <= Cardinality(Initializing) - 1
          /\ Cardinality(Initializing') \in Nat
      BY <3>2, FS_Subset, FS_CardinalityType
    <3>4. /\ sessions' = sessions \cup {s} /\ IsFiniteSet(sessions')
          /\ Cardinality(sessions') <= Cardinality(sessions) + 1
          /\ Cardinality(sessions') \in Nat
      <4>1. sessions' = sessions \cup {s}
        BY <1>5, <2>4
      <4>2. /\ IsFiniteSet(sessions \cup {s})
            /\ Cardinality(sessions \cup {s}) =
                IF s \in sessions THEN Cardinality(sessions) ELSE Cardinality(sessions) + 1
        BY FS_AddElement DEF EndpointInv, SessionsHeld
      <4> QED
        BY <2>2, <4>1, <4>2
    <3>5. s \in Session
      BY <1>4, <2>2, <2>4 DEF NewSession, Session, EndpointInv, KeysHeld
    <3>6. retained' = retained
      BY <1>4, <1>6, <2>4
    <3>7. Cardinality(sessions') + Cardinality(Initializing)' <= MaxSessions
      BY <2>2, <3>3, <3>4, InitializingFinite, EndpointAssumption DEF EndpointInv, SessionsHeld
    <3> QED
      BY <1>7, <3>4, <3>5, <3>6, <3>7 DEF EndpointInv, SessionsHeld, OwnSession
  <2> QED
    BY <2>3, <2>4
<1> QED
  BY <1>10, <1>11, <1>12 DEF EndpointInv

LEMMA InvRestart ==
    ASSUME EndpointInv, NEW i \in Instances, Restart(i)
    PROVE  EndpointInv'
<1>1. PICK k \in KeysAtStart(i, drawn') : key' = [key EXCEPT ![i] = k]
  BY DEF Restart
<1>2. /\ drawn' = drawn + 1 /\ drawn < MaxDraws /\ sessions' = sessions
      /\ posts' = [c \in Clients |->
            IF posts[c].stage # "idle" /\ posts[c].at = i THEN Idle ELSE posts[c]]
      /\ retained' = [j \in Piped |-> IF j = i THEN Absent ELSE retained[j]]
  BY DEF Restart
<1>3. KeysHeld'
  <2>1. drawn \in Nat /\ drawn' \in 0..MaxDraws
    BY <1>2, EndpointAssumption DEF EndpointInv, KeysHeld
  <2>2. k \in Keys /\ IF KeepsSupplied(i) THEN k = Supplied[i] ELSE k \in 1..drawn' \cup {NoKey}
    BY <1>1, <1>2, <2>1 DEF KeysAtStart, Keys
  <2>3. key' \in [Instances -> Keys]
    BY <1>1, <2>2 DEF EndpointInv, KeysHeld
  <2>4. ASSUME NEW j \in Instances
        PROVE  IF KeepsSupplied(j) THEN key'[j] = Supplied[j]
               ELSE key'[j] \in 1..drawn' \cup {NoKey}
    BY <1>1, <1>2, <2>1, <2>2 DEF EndpointInv, KeysHeld
  <2> QED
    BY <2>1, <2>3, <2>4 DEF KeysHeld, KeepsSupplied
<1>4. \A j \in Instances \ {i} : key'[j] = key[j]
  BY <1>1 DEF EndpointInv, KeysHeld
<1>5. SessionsHeld'
  <2>1. Initializing' \subseteq Initializing
    <3>1. Initializing' = {d \in Clients : Opens(posts'[d])}
      BY DEF Initializing, Opens
    <3>2. ~Opens(Idle)
      BY DEF Opens, Idle
    <3> QED
      BY <1>2, <3>1, <3>2, InitializingOpens
  <2>2. /\ Cardinality(Initializing') <= Cardinality(Initializing)
        /\ Cardinality(Initializing') \in Nat
    BY <2>1, InitializingFinite, FS_Subset, FS_CardinalityType
  <2>3. Cardinality(sessions) \in Nat
    BY FS_CardinalityType DEF EndpointInv, SessionsHeld
  <2>4. retained' \in [Piped -> SessionIds]
    BY <1>2 DEF EndpointInv, SessionsHeld, SessionIds
  <2>5. ASSUME NEW j \in Piped PROVE retained'[j] \in {Absent, OwnSession(j)'}
    <3>1. j # i => OwnSession(j)' = OwnSession(j)
      BY <1>4, EndpointAssumption DEF OwnSession
    <3> QED
      BY <1>2, <3>1 DEF EndpointInv, SessionsHeld
  <2> QED
    BY <1>2, <2>2, <2>3, <2>4, <2>5, InitializingFinite, EndpointAssumption
    DEF EndpointInv, SessionsHeld
<1>6. PostsHeld'
  <2>1. ASSUME NEW x, GoodPost(x), x = Idle \/ x.stage = "answered" \/ x.at \in Instances \ {i}
        PROVE  GoodPost(x)'
    <3>1. CASE x = Idle
      BY <3>1 DEF GoodPost
    <3>2. CASE x \in Underway /\ Standing(x) /\ Vouched(x) /\ x.stage # "answered"
      <4>1. x.at \in Instances \ {i} \/ x = Idle
        BY <2>1, <3>2
      <4>2. x.at \in Instances \ {i} => key'[x.at] = key[x.at]
        BY <1>4
      <4> QED
        BY <1>2, <3>1, <3>2, <4>1, <4>2 DEF GoodPost, Vouched, OwnSession
    <3>3. CASE x.stage = "answered" /\ Settled(x)
      BY <3>3 DEF GoodPost
    <3> QED
      BY <2>1, <3>1, <3>2, <3>3 DEF GoodPost, Underway
  <2>2. ASSUME NEW c \in Clients
        PROVE  /\ GoodPost(posts'[c])
               /\ \/ posts'[c] = Idle \/ posts'[c].stage = "answered"
                  \/ posts'[c].at \in Instances \ {i}
    <3>1. CASE posts[c].stage # "idle" /\ posts[c].at = i
      <4>1. posts'[c] = Idle
        BY <1>2, <3>1
      <4> QED
        BY <4>1 DEF GoodPost
    <3>2. CASE posts[c].stage = "idle" \/ posts[c].at # i
      <4>1. posts'[c] = posts[c] /\ GoodPost(posts[c])
        BY <1>2, <3>2 DEF EndpointInv, PostsHeld
      <4>2. posts[c] = Idle \/ posts[c].stage = "answered" \/ posts[c].at \in Instances \ {i}
        BY <3>2, <4>1 DEF GoodPost, Underway
      <4> QED
        BY <4>1, <4>2
    <3> QED
      BY <3>1, <3>2
  <2>3. posts' = [c \in Clients |-> posts'[c]]
    BY <1>2
  <2> QED
    BY <2>1, <2>2, <2>3 DEF PostsHeld
<1> QED
  BY <1>3, <1>5, <1>6 DEF EndpointInv

LEMMA InvNext == EndpointInv /\ [Next]_vars => EndpointInv'
<1> SUFFICES ASSUME EndpointInv, [Next]_vars PROVE EndpointInv'
  OBVIOUS
<1>1. CASE UNCHANGED vars
  BY <1>1 DEF vars, EndpointInv, KeysHeld, KeepsSupplied, SessionsHeld, Initializing,
     OwnSession, PostsHeld, GoodPost, Vouched
<1>2. ASSUME NEW c \in Clients,
             \/ Post(c) \/ RefuseBody(c) \/ ValidateHeaders(c) \/ WriteLine(c) \/ ReadLine(c)
             \/ Refuse(c) \/ Begin(c)
      PROVE  EndpointInv'
  BY <1>2, InvPost, InvRefuseBody, InvValidateHeaders, InvWriteLine, InvReadLine,
     InvRefuse, InvBegin
<1>3. ASSUME NEW c \in Clients,
             ReportProgress(c) \/ Acknowledge(c) \/ Finish(c) \/ Take(c)
      PROVE  EndpointInv'
  BY <1>3, InvReportProgress, InvAcknowledge, InvFinish, InvTake
<1>4. ASSUME NEW i \in Instances, Restart(i) PROVE EndpointInv'
  BY <1>4, InvRestart
<1> QED
  BY <1>1, <1>2, <1>3, <1>4 DEF Next

\* What is proved of the POSTs and the keys together: each instance holds a key
\* it may tag under, no more sessions are issued than are bounded for, and every
\* POST is where its message, its headers and its reply allow (Post, Restart,
\* Finish and the stages between them).
THEOREM EndpointInvariant == Spec => []EndpointInv
BY InvInit, InvNext, PTL DEF Spec

(* ---------------- what follows ---------------- *)

\* Every variable keeps its type in every state, and no instance tags or verifies
\* session ids under a key too short to sign with or one that is not its own: a
\* supplied key that is too short is refused (WithSessionKey, NewServer).
THEOREM TypeCorrect == Spec => []TypeOK
<1>1. EndpointInv => TypeOK
  <2> SUFFICES ASSUME EndpointInv PROVE TypeOK
    OBVIOUS
  <2>1. ASSUME NEW i \in Instances
        PROVE  key[i] \in (1..drawn \cup {NoKey, Supplied[i]}) \ ShortKeys
    <3>1. CASE KeepsSupplied(i)
      BY <3>1 DEF EndpointInv, KeysHeld, KeepsSupplied
    <3>2. CASE ~KeepsSupplied(i)
      <4>1. key[i] \in 1..drawn \cup {NoKey}
        BY <3>2 DEF EndpointInv, KeysHeld
      <4>2. 1..drawn \subseteq Nat
        BY DEF EndpointInv, KeysHeld
      <4> QED
        BY <4>1, <4>2, KeysAssumption
    <3> QED
      BY <3>1, <3>2
  <2>2. Cardinality(sessions) <= MaxSessions
    BY InitializingFinite, FS_CardinalityType, EndpointAssumption
    DEF EndpointInv, SessionsHeld
  <2>3. \A c \in Clients : posts[c].stage \in
            {"idle", "received", "admitted", "running", "answered"}
    BY DEF EndpointInv, PostsHeld, GoodPost, Idle, Underway
  <2> QED
    BY <2>1, <2>2, <2>3 DEF TypeOK, EndpointInv, KeysHeld, SessionsHeld
<1> QED
  BY <1>1, EndpointInvariant, PTL

\* Whatever a client sends, and however its POSTs interleave with those of others
\* and with restarts, the headers of a POST describe the method, the target and
\* the revision that run for it, so that a proxy which reads the headers alone
\* is not deceived (ValidateHeaders, checkHeader, legacyRequest).
THEOREM HeadersAreTrue == Spec => []HeadersDescribeWhatRuns
<1>1. EndpointInv => HeadersDescribeWhatRuns
  <2> SUFFICES ASSUME EndpointInv, NEW c \in Clients,
                      posts[c].stage = "running", OverHttp(posts[c])
               PROVE  Described(posts[c].h, posts[c].m)
    BY DEF HeadersDescribeWhatRuns, Running, Described
  <2>1. posts[c] \in Underway /\ Standing(posts[c])
    BY Held
  <2>2. posts[c].m \in Messages
    BY <2>1 DEF Underway
  <2> QED
    BY <2>1, <2>2, AdmittedDescribed DEF Standing
<1> QED
  BY <1>1, EndpointInvariant, PTL

\* No request of the discovery revision is handled under a session or opens one,
\* and a session a handler is told of is vouched for by the very key its instance
\* holds now, through restarts and key changes (inboundSessionID, route,
\* IssuedSessionID).
THEOREM SessionsAreKeptApart == Spec => []SessionsStayInTheirRevision
<1>1. EndpointInv => SessionsStayInTheirRevision
  <2> SUFFICES ASSUME EndpointInv, NEW c \in Clients, posts[c].stage # "idle"
               PROVE  LET p == posts[c] IN
                      /\ (p.stage = "running" /\ p.session # Absent) =>
                            /\ p.session.key = key[p.at]
                            /\ IF OverHttp(p) THEN Legacy(p.m) /\ p.session \in sessions
                               ELSE p.session = OwnSession(p.at)
                      /\ p.reply.session # Absent =>
                            OverHttp(p) /\ Legacy(p.m) /\ p.m.method = "initialize"
    BY DEF SessionsStayInTheirRevision
  <2> DEFINE p == posts[c]
  <2>1. CASE p \in Underway /\ Standing(p) /\ Vouched(p)
    <3>1. p.reply.session = Absent
      BY <2>1 DEF Underway, NoReply
    <3>2. p.stage = "running" => Inspected(p.m)
      BY <2>1, Refused, Parsed DEF Underway, Standing
    <3> HIDE DEF p
    <3>3. (p.stage = "running" /\ p.session # Absent) =>
            /\ p.session.key = key[p.at]
            /\ IF OverHttp(p) THEN Legacy(p.m) /\ p.session \in sessions
               ELSE p.session = OwnSession(p.at)
      BY <2>1, <3>2 DEF Vouched, Modern
    <3> QED
      BY <3>1, <3>3 DEF p
  <2>2. CASE p.stage = "answered" /\ Settled(p)
    BY <2>2 DEF Settled
  <2> QED
    BY <2>1, <2>2 DEF EndpointInv, PostsHeld, GoodPost, Idle
<1> QED
  BY <1>1, EndpointInvariant, PTL

\* Every reply is one its client can correlate and read: the id it stated, a
\* status it may read the body of, 200 and the stream once a frame went out, and
\* an acknowledgement ahead of the end of a subscription (replyStatus,
\* serveStream, Listen, dispatch).
THEOREM RepliesCanBeRead == Spec => []RepliesAreReadable
<1>1. EndpointInv => RepliesAreReadable
  <2> SUFFICES ASSUME EndpointInv, NEW c \in Clients, posts[c].stage = "answered"
               PROVE  Readable(posts[c])
    BY DEF RepliesAreReadable, Readable
  <2> QED
    BY DEF EndpointInv, PostsHeld, GoodPost, Idle, Underway, Settled
<1> QED
  BY <1>1, EndpointInvariant, PTL

\* Under any configured advice, a failure or an answer to a retried request leaves
\* without a lifetime and private, and a result is public only where the advice
\* for it says so (ReadResource, cacheHintFor, applyCacheHints).
THEOREM FailuresStayPrivate == Spec => []FailuresAreNotCached
<1>1. EndpointInv => FailuresAreNotCached
  <2> SUFFICES ASSUME EndpointInv, NEW c \in Clients, posts[c].stage = "answered",
                      posts[c].reply.result
               PROVE  Priceless(posts[c].m, posts[c].reply.hint, posts[c].reply.failed)
    BY DEF FailuresAreNotCached, Priceless
  <2> QED
    BY DEF EndpointInv, PostsHeld, GoodPost, Idle, Underway, Settled
<1> QED
  BY <1>1, EndpointInvariant, PTL
================================================================================
