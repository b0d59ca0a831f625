------------------------- MODULE Authorization_proofs -------------------------
(***************************************************************************)
(* The safety properties of Authorization, for any number of flows,        *)
(* browsers and servers.                                                   *)
(*                                                                         *)
(* The inductive invariant says what is known of a flow at each step       *)
(* (GoodFlow), who holds the gate of a client (GatesHeld), where a cookie  *)
(* or a pending authorization comes from (Stands, GoodEntry), and what a   *)
(* visit has in hand (GoodVisit).  A flow that was redirected is not       *)
(* touched again: entries, cookies and visits refer to such flows only, so *)
(* that what is said of them outlives every other step.                    *)
(***************************************************************************)
EXTENDS Authorization, FiniteSetTheorems, TLAPS

(* ---------------- the invariant ---------------- *)

Behind == {"ask named", "ask inserted", "ask root", "ask server", "register"}
Discovered == {"ask server", "discovered", "wait to register", "register", "token"}
Busy == {"discover", "wait to discover"} \cup Behind \cup Discovered

Flow == [step : {"idle", "redirected", "ended"} \cup Busy, kind : Kinds \cup {"authorize"},
         browser : Browsers \cup {NoFlow}, client : Flows \cup {NoFlow}, named : BOOLEAN,
         found : Servers \cup {NoServer}, savedAt : Nat, lost : BOOLEAN,
         request : Requests, cookie : Flows \cup {NoFlow}]
Record == [of : Servers \cup {NoServer}, at : Nat, expires : Nat]
Client == [discovered : Servers \cup {NoServer}, discoveredAt : Nat, record : Record,
           gate : Flows \cup {NoFlow}]
Entry == [by : Flows, place : Browsers \cup Flows \cup {NoFlow}, expires : Nat,
          issuer : Servers, id : Credentials, secret : Credentials, promised : BOOLEAN]
Visit == [step : {"idle", "remove", "token", "saved", "refused"},
          browser : Browsers \cup {NoFlow}, place : Browsers \cup Flows \cup {NoFlow},
          state : Flows \cup {NoFlow}, code : Servers \cup {NoServer},
          iss : Servers \cup {NoServer}, entry : Entry \cup {NoEntry}, took : BOOLEAN,
          at : Nat, request : Requests]

\* A credential that may go to s.
Owned(credential, s) == credential.of \in {NoServer, s}
OwnRequest(r) == r \in Requests /\ r.to \in Servers /\ Owned(r.id, r.to) /\ Owned(r.secret, r.to)

\* The servers a flow may turn to.
Trusted == declared \cup (IF resource.at \in {"nowhere", "named"} THEN {Origin} ELSE {})
                    \cup {NoServer}

SettingHeld ==
    /\ config \in Configurations /\ offers \in Offers
    /\ resource \in [at : {"named", "inserted", "root", "nowhere"}, declares : Servers]
    /\ now \in Nat
    /\ resource.declares \in declared /\ declared \subseteq Servers

SetsHeld == \A t \in sets : OwnRequest(t)

GoodClient(k) ==
    /\ k \in Client /\ k.discovered \in Trusted
    /\ k.record.of = NoServer => k.record = NoRecord
ClientsHeld ==
    /\ clients = [c \in Flows |-> clients[c]]
    /\ \A c \in Flows : GoodClient(clients[c])
    /\ shared.client \in Flows \cup {NoFlow}

GoodFlow(f, x) ==
    /\ x \in Flow /\ x.found \in Trusted
    /\ x.step \in Busy => x.client \in Flows /\ (~config.pinned => x.client = f)
    /\ x.step \in Discovered => x.found \in Servers
    /\ x.step = "ask root" => resource.at # "inserted"
    /\ x.step \in Busy \ {"token"} /\ x.kind = "refresh" => x.request \in sets
    /\ x.step = "token" => OwnRequest(x.request) /\ x.request.grant = x.request.to
    /\ x.step = "redirected" => x.savedAt <= now
FlowsHeld ==
    /\ flow = [f \in Flows |-> flow[f]]
    /\ \A f \in Flows : GoodFlow(f, flow[f])

\* A flow behind the gate of its client holds it, and registers only when it must.
Gated(f, x, k) ==
    /\ x.step \in Behind => k.gate = f
    /\ x.step = "register" => ~Usable(k, x.found)
GatesHeld == \A f \in Flows : Gated(f, flow[f], ClientOf(f))

\* The flow p was redirected, in the browser b.
Stands(p, b) == p \in Flows /\ flow[p].step = "redirected" /\ flow[p].browser = b

CookiesHeld ==
    /\ cookie = [b \in Browsers |-> cookie[b]]
    /\ \A b \in Browsers : cookie[b] = NoFlow \/ Stands(cookie[b], b)
    /\ \A f \in Flows : flow[f].cookie = NoFlow \/ Stands(flow[f].cookie, flow[f].browser)

GoodEntry(e) ==
    /\ e \in Entry /\ Owned(e.id, e.issuer) /\ Owned(e.secret, e.issuer)
    /\ e.promised <=> offers[e.issuer].iss
    /\ flow[e.by].step = "redirected" /\ e.expires = flow[e.by].savedAt + PendingLifetime
    /\ IF config.store = "session" THEN e.place = flow[e.by].browser
                                   ELSE Stands(e.place, flow[e.by].browser)
PendingHeld ==
    /\ IsFiniteSet(pending)
    /\ \A e \in pending : GoodEntry(e)
    /\ \A e, o \in pending : e.by = o.by => e = o

\* The token request of a visit: a code of another server goes out only where
\* neither server states its iss.
Posted(r) ==
    /\ OwnRequest(r)
    /\ r.grant # r.to => r.grant \in Servers /\ ~offers[r.grant].iss /\ ~offers[r.to].iss

\* What the callback was sent says of the server that sent the browser.
Stated(x) == x.iss = IF x.code # NoServer /\ offers[x.code].iss THEN x.code ELSE NoServer

GoodVisit(x) ==
    /\ x \in Visit
    /\ x.step = "idle" => x = Away
    /\ x.step = "token" => Posted(x.request)
    /\ x.step = "remove" =>
        /\ config.store = "session" /\ GoodEntry(x.entry) /\ Stated(x) /\ x.entry.by = x.state
        /\ Stands(x.state, x.browser)
    /\ x.took =>
        /\ Stands(x.state, x.browser)
        /\ config.store = "memory" => x.at < flow[x.state].savedAt + PendingLifetime
VisitsHeld ==
    /\ visit = [v \in Visits |-> visit[v]]
    /\ \A v \in Visits : GoodVisit(visit[v])

\* With MemoryStore what a visit took is gone, and was taken once.
TakenOnce ==
    config.store = "memory" =>
        /\ \A v \in Completing, e \in pending : e.by # visit[v].state
        /\ \A v, w \in Completing : visit[v].state = visit[w].state => v = w

AuthorizationInv ==
    /\ SettingHeld /\ SetsHeld /\ ClientsHeld /\ FlowsHeld /\ GatesHeld
    /\ CookiesHeld /\ PendingHeld /\ VisitsHeld /\ TakenOnce /\ NoFlowIsLost

\* The parts that flows and their clients alone decide.
FlowPart == SettingHeld /\ SetsHeld /\ ClientsHeld /\ FlowsHeld /\ GatesHeld

\* The parts about what a redirected flow leaves.
Rest == CookiesHeld /\ PendingHeld /\ VisitsHeld /\ TakenOnce /\ NoFlowIsLost

LEMMA Parts == AuthorizationInv <=> FlowPart /\ Rest
BY DEF AuthorizationInv, FlowPart, Rest

LEMMA Constants ==
    /\ NoFlow \notin Flows /\ NoServer \notin Servers /\ Origin \in Servers /\ Home \in Servers
    /\ PendingLifetime \in Nat /\ DiscoveryTTL \in Nat /\ RegistrationTTL \in Nat
    /\ IsFiniteSet(Flows) /\ MaxNow \in Nat
BY AuthorizationAssumption

LEMMA Published ==
    ASSUME SettingHeld
    PROVE  /\ config \in [id : BOOLEAN, secret : BOOLEAN, bound : BOOLEAN, pinned : BOOLEAN,
                          store : {"memory", "session"}, capacity : Nat \ {0}]
           /\ offers \in [Servers -> [pkce : BOOLEAN, document : BOOLEAN, registers : BOOLEAN,
                                      iss : BOOLEAN]]
BY SettingAssumption DEF SettingHeld

(* ---------------- steps of a flow ---------------- *)

\* What stays of the setting.
Settled == UNCHANGED <<config, offers, resource, declared, now>>

\* A step of the flow f, which becomes q, with the client c, which becomes k: no
\* other flow that stands behind the gate of c notices.
Unnoticed(f, c, k) ==
    \A g \in Flows \ {f} : flow[g].step \in Behind /\ flow[g].client = c =>
        k.gate = clients[c].gate /\ k.record = clients[c].record

LEMMA GoodFlowStays ==
    ASSUME NEW f, NEW x, GoodFlow(f, x), Settled, sets \subseteq sets'
    PROVE  GoodFlow(f, x)'
BY DEF GoodFlow, Settled, Trusted

LEMMA GoodClientStays ==
    ASSUME NEW k, GoodClient(k), Settled
    PROVE  GoodClient(k)'
BY DEF GoodClient, Settled, Trusted

LEMMA FlowPartStep ==
    ASSUME FlowPart, NEW f \in Flows, NEW q, GoodFlow(f, q),
           NEW c \in Flows, NEW k, GoodClient(k),
           flow' = [flow EXCEPT ![f] = q], clients' = [clients EXCEPT ![c] = k],
           q.step \in Busy => q.client = c /\ Gated(f, q, k), Unnoticed(f, c, k),
           Settled, shared'.client \in Flows \cup {NoFlow},
           sets \subseteq sets', \A t \in sets' : OwnRequest(t)
    PROVE  FlowPart'
<1>1. SettingHeld'
  BY DEF FlowPart, SettingHeld, Settled
<1>2. SetsHeld'
  BY DEF SetsHeld, OwnRequest, Owned
<1>3. ClientsHeld'
  <2>1. \A d \in Flows : GoodClient(clients'[d])
    BY DEF FlowPart, ClientsHeld
  <2> QED
    BY <2>1, GoodClientStays DEF FlowPart, ClientsHeld
<1>4. FlowsHeld'
  <2>1. \A g \in Flows : GoodFlow(g, flow'[g])
    BY DEF FlowPart, FlowsHeld
  <2> QED
    BY <2>1, GoodFlowStays DEF FlowPart, FlowsHeld
<1>5. GatesHeld'
  <2>1. ASSUME NEW g, NEW y, NEW l, Gated(g, y, l) PROVE Gated(g, y, l)'
    BY <2>1 DEF Gated, Usable, Settled
  <2>2. ASSUME NEW g \in Flows PROVE Gated(g, flow'[g], clients'[flow'[g].client])
    <3>1. CASE g = f
      <4>1. flow'[g] = q
        BY <3>1 DEF FlowPart, FlowsHeld
      <4>2. q.step \notin Busy => \A l : Gated(f, q, l)
        BY DEF Gated, Busy, Behind
      <4>3. clients'[c] = k
        BY DEF FlowPart, ClientsHeld
      <4> QED
        BY <3>1, <4>1, <4>2, <4>3
    <3>2. CASE g # f
      <4>1. flow'[g] = flow[g] /\ Gated(g, flow[g], clients[flow[g].client])
        BY <3>2 DEF FlowPart, FlowsHeld, GatesHeld, ClientOf
      <4>2. CASE flow[g].step \notin Behind
        BY <4>1, <4>2 DEF Gated, Behind
      <4>3. CASE flow[g].step \in Behind /\ flow[g].client # c
        BY <4>1, <4>3 DEF FlowPart, ClientsHeld
      <4>4. CASE flow[g].step \in Behind /\ flow[g].client = c
        <5>1. k.gate = clients[c].gate /\ k.record = clients[c].record
          BY <3>2, <4>4 DEF Unnoticed
        <5>2. clients'[c] = k
          BY DEF FlowPart, ClientsHeld
        <5> QED
          BY <4>1, <4>4, <5>1, <5>2 DEF Gated, Usable
      <4> QED
        BY <4>2, <4>3, <4>4
    <3> QED
      BY <3>1, <3>2
  <2> QED
    BY <2>1, <2>2 DEF GatesHeld, ClientOf
<1> QED
  BY <1>1, <1>2, <1>3, <1>4, <1>5 DEF FlowPart

\* A flow that was redirected stays as it is, and no other comes to be.
Fixed ==
    \A g \in Flows :
        /\ flow'[g].step = "redirected" => flow[g].step = "redirected"
        /\ flow[g].step = "redirected" => flow'[g] = flow[g]

LEMMA StandsStill ==
    ASSUME NEW p, NEW b, Stands(p, b), p \in Flows => flow'[p] = flow[p]
    PROVE  Stands(p, b)'
BY DEF Stands

LEMMA EntryStays ==
    ASSUME NEW e, GoodEntry(e), UNCHANGED <<config, offers>>,
           \A g \in Flows : flow[g].step = "redirected" => flow'[g] = flow[g]
    PROVE  GoodEntry(e)'
<1>1. e.by \in Flows
  BY DEF GoodEntry, Entry
<1>2. flow'[e.by] = flow[e.by]
  BY <1>1 DEF GoodEntry
<1>3. ASSUME NEW b, Stands(e.place, b) PROVE Stands(e.place, b)'
  BY <1>3 DEF Stands
<1> QED
  BY <1>2, <1>3 DEF GoodEntry

LEMMA VisitStays ==
    ASSUME NEW x, GoodVisit(x), UNCHANGED <<config, offers>>,
           \A g \in Flows : flow[g].step = "redirected" => flow'[g] = flow[g]
    PROVE  GoodVisit(x)'
<1>1. GoodEntry(x.entry) => GoodEntry(x.entry)'
  BY EntryStays
<1>2. Stands(x.state, x.browser) => Stands(x.state, x.browser)' /\ flow'[x.state] = flow[x.state]
  BY DEF Stands
<1> QED
  BY <1>1, <1>2 DEF GoodVisit, Posted, Stated

LEMMA RestStays ==
    ASSUME Rest, Fixed, UNCHANGED <<config, offers, pending, cookie, visit>>,
           now \in Nat, now' \in Nat, now <= now', FlowsHeld,
           \A f \in Flows : flow'[f].cookie = NoFlow \/ flow'[f].step = "redirected"
                              \/ Stands(flow'[f].cookie, flow'[f].browser)
    PROVE  Rest'
<1>0. \A p, b : Stands(p, b) => Stands(p, b)'
  BY DEF Fixed, Stands
<1>1. CookiesHeld'
  <2>1. ASSUME NEW f \in Flows
        PROVE  flow'[f].cookie = NoFlow \/ Stands(flow'[f].cookie, flow'[f].browser)
    BY DEF Fixed, Rest, CookiesHeld
  <2>2. ASSUME NEW b \in Browsers PROVE cookie[b] = NoFlow \/ Stands(cookie[b], b)
    BY DEF Rest, CookiesHeld
  <2>3. cookie' = [b \in Browsers |-> cookie'[b]]
    BY DEF Rest, CookiesHeld
  <2> QED
    BY <1>0, <2>1, <2>2, <2>3 DEF CookiesHeld
<1>2. PendingHeld'
  BY EntryStays DEF Rest, PendingHeld, Fixed
<1>3. VisitsHeld'
  BY VisitStays DEF Rest, VisitsHeld, Fixed
<1>4. TakenOnce'
  BY DEF Rest, TakenOnce, Completing
<1>5. NoFlowIsLost'
  <2> SUFFICES ASSUME NEW f \in Flows, flow'[f].step = "redirected", config.store = "memory",
                      ~\E e \in pending : e.by = f,
                      ~\E v \in Visits : visit[v].state = f,
                      ~(now' >= flow'[f].savedAt + PendingLifetime)
               PROVE  Cardinality({g \in Flows \ {f} : flow'[g].step = "redirected"
                            /\ flow'[g].savedAt >= flow'[f].savedAt}) >= config.capacity
    BY DEF NoFlowIsLost, At
  <2>1. flow[f].step = "redirected" /\ flow'[f] = flow[f]
    BY DEF Fixed
  <2>2. flow[f].savedAt \in Nat
    BY DEF FlowsHeld, GoodFlow, Flow
  <2>3. ~(now >= flow[f].savedAt + PendingLifetime)
    BY <2>1, <2>2, Constants
  <2>4. {g \in Flows \ {f} : flow'[g].step = "redirected"
                            /\ flow'[g].savedAt >= flow'[f].savedAt}
        = {g \in Flows \ {f} : flow[g].step = "redirected"
                            /\ flow[g].savedAt >= flow[f].savedAt}
    BY <2>1 DEF Fixed
  <2> QED
    BY <2>1, <2>3, <2>4 DEF Rest, NoFlowIsLost, At
<1> QED
  BY <1>1, <1>2, <1>3, <1>4, <1>5 DEF Rest

\* A step of a flow that has not been redirected, and is not by it.
LEMMA FlowStep ==
    ASSUME AuthorizationInv, NEW f \in Flows, flow[f].step # "redirected",
           NEW q, GoodFlow(f, q), q.step # "redirected",
           q.cookie = NoFlow \/ Stands(q.cookie, q.browser),
           NEW c \in Flows, NEW k, GoodClient(k),
           flow' = [flow EXCEPT ![f] = q], clients' = [clients EXCEPT ![c] = k],
           q.step \in Busy => q.client = c /\ Gated(f, q, k), Unnoticed(f, c, k),
           Settled, shared'.client \in Flows \cup {NoFlow},
           sets \subseteq sets', \A t \in sets' : OwnRequest(t),
           UNCHANGED <<pending, cookie, visit>>
    PROVE  AuthorizationInv'
<1>1. FlowPart'
  BY FlowPartStep, Parts
<1>2. Fixed
  BY DEF Fixed, AuthorizationInv, FlowsHeld
<1>3. now \in Nat
  BY DEF AuthorizationInv, SettingHeld
<1>4. \A g \in Flows : flow'[g].cookie = NoFlow \/ flow'[g].step = "redirected"
                          \/ Stands(flow'[g].cookie, flow'[g].browser)
  BY DEF AuthorizationInv, FlowsHeld, CookiesHeld
<1>5. Rest'
  <2>1. Rest /\ FlowsHeld /\ now <= now' /\ now' \in Nat
    BY <1>3, Parts DEF Settled, AuthorizationInv
  <2> QED
    BY <1>2, <1>3, <1>4, <2>1, RestStays DEF Settled
<1> QED
  BY <1>1, <1>5 DEF AuthorizationInv, FlowPart, Rest

LEMMA Held ==
    ASSUME AuthorizationInv, NEW f \in Flows, flow[f].step \in Busy
    PROVE  /\ GoodFlow(f, flow[f]) /\ flow[f] \in Flow /\ flow[f].client \in Flows
           /\ GoodClient(ClientOf(f)) /\ Gated(f, flow[f], ClientOf(f))
           /\ clients = [clients EXCEPT ![flow[f].client] = ClientOf(f)]
BY DEF AuthorizationInv, FlowsHeld, GoodFlow, ClientsHeld, GatesHeld, ClientOf

\* The holder of a gate, and a flow that finds it free, are alone behind it.
LEMMA AloneBehind ==
    ASSUME AuthorizationInv, NEW f \in Flows, flow[f].step \in Busy,
           ClientOf(f).gate \in {NoFlow, f}, NEW k
    PROVE  Unnoticed(f, flow[f].client, k)
BY Constants DEF AuthorizationInv, GatesHeld, Gated, ClientOf, Unnoticed

LEMMA KeptUnnoticed ==
    ASSUME NEW f, NEW c, NEW k, k.gate = clients[c].gate, k.record = clients[c].record
    PROVE  Unnoticed(f, c, k)
BY DEF Unnoticed

LEMMA LeftUnnoticed ==
    ASSUME AuthorizationInv, NEW f \in Flows, flow[f].step \in Busy,
           NEW k, GoodClient(k), Unnoticed(f, flow[f].client, k)
    PROVE  Unnoticed(f, flow[f].client, Left(k)) /\ GoodClient(Left(k))
<1>1. CASE config.pinned
  BY <1>1 DEF Left
<1>2. CASE ~config.pinned
  <2>1. \A g \in Flows : flow[g].step \in Behind => flow[g].client = g
    BY <1>2 DEF AuthorizationInv, FlowsHeld, GoodFlow, Busy
  <2>2. flow[f].client = f
    BY <1>2 DEF AuthorizationInv, FlowsHeld, GoodFlow
  <2>3. GoodClient(NewClient)
    BY DEF GoodClient, NewClient, NoRecord, Client, Record, Trusted
  <2> QED
    BY <1>2, <2>1, <2>2, <2>3 DEF Left, Unnoticed
<1> QED
  BY <1>1, <1>2

LEMMA NothingRequested == NoRequest \in Requests /\ Nothing \in Credentials
BY DEF NoRequest, Requests, Credentials

\* What a step of a flow leaves to the others.
Aside == Settled /\ UNCHANGED <<shared, pending, cookie, visit>>

LEMMA InvFail ==
    ASSUME AuthorizationInv, NEW f \in Flows, flow[f].step \in Busy,
           NEW k, GoodClient(k), Unnoticed(f, flow[f].client, k), Fail(f, k), Aside,
           sets \subseteq sets', \A t \in sets' : OwnRequest(t)
    PROVE  AuthorizationInv'
<1>1. flow[f].step # "redirected" /\ flow[f].client \in Flows
  BY Held DEF Busy, Behind, Discovered
<1>2. /\ Ended \in Flow /\ Ended.found = NoServer /\ Ended.step = "ended"
      /\ Ended.cookie = NoFlow
  BY NothingRequested DEF Ended, Idle, Flow
<1>3. GoodFlow(f, Ended)
  BY <1>2 DEF GoodFlow, Trusted, Busy, Behind, Discovered
<1>4. Ended.step \notin Busy
  BY <1>2 DEF Busy, Behind, Discovered
<1>5. shared'.client \in Flows \cup {NoFlow}
  BY DEF AuthorizationInv, ClientsHeld, Aside
<1>6. /\ flow' = [flow EXCEPT ![f] = Ended]
      /\ clients' = [clients EXCEPT ![flow[f].client] = Left(k)]
  BY DEF Fail
<1>7. Unnoticed(f, flow[f].client, Left(k)) /\ GoodClient(Left(k))
  BY LeftUnnoticed
<1> QED
  BY <1>1, <1>2, <1>3, <1>4, <1>5, <1>6, <1>7, FlowStep DEF Aside

\* A flow gives up, or fails behind the gate it holds.
LEMMA InvGiveUp ==
    ASSUME AuthorizationInv, NEW f \in Flows, flow[f].step \in Busy, Fail(f, ClientOf(f)),
           Aside, sets \subseteq sets', \A t \in sets' : OwnRequest(t)
    PROVE  AuthorizationInv'
BY Held, KeptUnnoticed, InvFail DEF ClientOf

LEMMA InvFailBehindGate ==
    ASSUME AuthorizationInv, NEW f \in Flows, flow[f].step \in Behind, FailBehindGate(f),
           Aside, sets' = sets
    PROVE  AuthorizationInv'
<1>1. flow[f].step \in Busy
  BY DEF Busy
<1>2. ClientOf(f).gate = f /\ GoodClient(ClientOf(f))
  BY <1>1, Held DEF Gated
<1>3. GoodClient(Released(ClientOf(f)))
  BY <1>2 DEF GoodClient, Released, Client
<1>4. Unnoticed(f, flow[f].client, Released(ClientOf(f)))
  BY <1>1, <1>2, AloneBehind
<1>5. \A t \in sets' : OwnRequest(t)
  BY DEF AuthorizationInv, SetsHeld
<1> QED
  BY <1>1, <1>3, <1>4, <1>5, InvFail DEF FailBehindGate

\* A flow that is not done goes on to another step, having found a server.
LEMMA InvGoOn ==
    ASSUME AuthorizationInv, NEW f \in Flows, flow[f].step \in Busy \ {"token"},
           NEW step \in Busy \ {"token"}, NEW found \in Trusted,
           step \in Discovered => found \in Servers,
           step = "ask root" => resource.at # "inserted",
           NEW k, GoodClient(k), Unnoticed(f, flow[f].client, k),
           step \in Behind => k.gate = f, step = "register" => ~Usable(k, found),
           flow' = [flow EXCEPT ![f] = [flow[f] EXCEPT !.step = step, !.found = found]],
           clients' = [clients EXCEPT ![flow[f].client] = k],
           Aside, sets' = sets
    PROVE  AuthorizationInv'
<1> DEFINE x == flow[f]
           q == [x EXCEPT !.step = step, !.found = found]
<1>1. GoodFlow(f, x) /\ x \in Flow /\ x.client \in Flows
  BY Held
<1>2. found \in Servers \cup {NoServer}
  BY Constants DEF Trusted, AuthorizationInv, SettingHeld
<1>3. x.step \in Busy \ {"token"} /\ flow' = [flow EXCEPT ![f] = q]
  OBVIOUS
<1>4. x.cookie = NoFlow \/ Stands(x.cookie, x.browser)
  BY DEF AuthorizationInv, CookiesHeld
<1>5. clients' = [clients EXCEPT ![x.client] = k] /\ Unnoticed(f, x.client, k)
  OBVIOUS
<1> HIDE DEF x
<1>6. /\ q \in Flow /\ q.step = step /\ q.found = found /\ q.client = x.client
      /\ q.kind = x.kind /\ q.request = x.request /\ q.cookie = x.cookie
      /\ q.browser = x.browser
  BY <1>1, <1>2 DEF Flow
<1> HIDE DEF q
<1>7. GoodFlow(f, q)
  BY <1>1, <1>3, <1>6 DEF GoodFlow, Busy, Behind, Discovered
<1>8. Gated(f, q, k)
  BY <1>6 DEF Gated
<1>9. /\ x.step # "redirected" /\ q.step # "redirected"
      /\ q.cookie = NoFlow \/ Stands(q.cookie, q.browser)
  BY <1>3, <1>4, <1>6 DEF Busy, Behind, Discovered
<1>10. shared'.client \in Flows \cup {NoFlow} /\ \A t \in sets' : OwnRequest(t)
  BY DEF AuthorizationInv, ClientsHeld, Aside, SetsHeld
<1> QED
  BY <1>1, <1>3, <1>5, <1>6, <1>7, <1>8, <1>9, <1>10, FlowStep DEF Aside, x

\* The same, having found what it had.
LEMMA InvGoOnWith ==
    ASSUME AuthorizationInv, NEW f \in Flows, flow[f].step \in Busy \ {"token"},
           NEW step \in Busy \ {"token"}, step \in Discovered => flow[f].found \in Servers,
           step = "ask root" => resource.at # "inserted",
           NEW k, GoodClient(k), Unnoticed(f, flow[f].client, k),
           step \in Behind => k.gate = f, step = "register" => ~Usable(k, flow[f].found),
           GoOn(f, step, k), Aside, sets' = sets
    PROVE  AuthorizationInv'
<1>1. flow[f] \in Flow /\ flow[f].found \in Trusted
  BY Held DEF GoodFlow
<1>2. [flow[f] EXCEPT !.step = step, !.found = flow[f].found] = [flow[f] EXCEPT !.step = step]
  BY <1>1 DEF Flow
<1>3. /\ flow' = [flow EXCEPT ![f] = [flow[f] EXCEPT !.step = step]]
      /\ clients' = [clients EXCEPT ![flow[f].client] = k]
  BY DEF GoOn
<1>4. flow' = [flow EXCEPT ![f] = [flow[f] EXCEPT !.step = step, !.found = flow[f].found]]
  BY <1>2, <1>3
<1> QED
  BY <1>1, <1>3, <1>4, InvGoOn

LEMMA FreshFound ==
    ASSUME NEW k, GoodClient(k), Fresh(k)
    PROVE  k.discovered \in Servers /\ k.discovered \in Trusted
BY DEF GoodClient, Client, Fresh

LEMMA InvDiscover ==
    ASSUME AuthorizationInv, NEW f \in Flows, Discover(f)
    PROVE  AuthorizationInv'
<1>1. flow[f].step = "discover" /\ flow[f].step \in Busy \ {"token"} /\ Aside /\ sets' = sets
  BY DEF Discover, At, Busy, Aside, Settled, setting, world, stored
<1>2. /\ GoodClient(ClientOf(f)) /\ Unnoticed(f, flow[f].client, ClientOf(f))
      /\ clients' = [clients EXCEPT ![flow[f].client] = ClientOf(f)]
  BY <1>1, Held, KeptUnnoticed DEF Discover, ClientOf
<1>3. CASE Fresh(ClientOf(f))
  <2>1. flow' = [flow EXCEPT ![f] = [flow[f] EXCEPT !.step = "discovered",
                                                    !.found = ClientOf(f).discovered]]
    BY <1>3 DEF Discover
  <2>2. ClientOf(f).discovered \in Servers /\ ClientOf(f).discovered \in Trusted
    BY <1>2, <1>3, FreshFound
  <2>3. "discovered" \in Busy \ {"token"} /\ "discovered" \notin Behind
    BY DEF Busy, Discovered, Behind
  <2> QED
    BY <1>1, <1>2, <2>1, <2>2, <2>3, InvGoOn
<1>4. CASE ~Fresh(ClientOf(f))
  <2>1. GoOn(f, "wait to discover", ClientOf(f))
    BY <1>2, <1>4 DEF Discover, GoOn
  <2>2. "wait to discover" \in Busy \ {"token"} /\ "wait to discover" \notin Behind \cup Discovered
    BY DEF Busy, Discovered, Behind
  <2> QED
    BY <1>1, <1>2, <2>1, <2>2, InvGoOnWith
<1> QED
  BY <1>3, <1>4

\* A flow that finds the gate of its client free takes it.
LEMMA Takes ==
    ASSUME AuthorizationInv, NEW f \in Flows, flow[f].step \in Busy, ClientOf(f).gate = NoFlow
    PROVE  LET k == [ClientOf(f) EXCEPT !.gate = f] IN
           /\ GoodClient(k) /\ k.gate = f /\ Unnoticed(f, flow[f].client, k)
           /\ k.record = ClientOf(f).record
<1> DEFINE k == [ClientOf(f) EXCEPT !.gate = f]
<1>1. GoodClient(ClientOf(f))
  BY Held
<1>2. GoodClient(k) /\ k.gate = f /\ k.record = ClientOf(f).record
  BY <1>1 DEF GoodClient, Client
<1> HIDE DEF k
<1>3. Unnoticed(f, flow[f].client, k)
  BY AloneBehind
<1> QED
  BY <1>2, <1>3 DEF k

LEMMA InvAcquireToDiscover ==
    ASSUME AuthorizationInv, NEW f \in Flows, AcquireToDiscover(f)
    PROVE  AuthorizationInv'
<1>1. /\ flow[f].step = "wait to discover" /\ flow[f].step \in Busy \ {"token"}
      /\ Aside /\ sets' = sets
  BY DEF AcquireToDiscover, At, Busy, Aside, Settled, setting, world, stored
<1>2. GoodClient(ClientOf(f)) /\ Unnoticed(f, flow[f].client, ClientOf(f))
  BY <1>1, Held, KeptUnnoticed DEF ClientOf
<1>3. CASE Fresh(ClientOf(f))
  <2>1. /\ flow' = [flow EXCEPT ![f] = [flow[f] EXCEPT !.step = "discovered",
                                                       !.found = ClientOf(f).discovered]]
        /\ clients' = [clients EXCEPT ![flow[f].client] = ClientOf(f)]
    BY <1>1, <1>3, Held DEF AcquireToDiscover
  <2>2. ClientOf(f).discovered \in Servers /\ ClientOf(f).discovered \in Trusted
    BY <1>2, <1>3, FreshFound
  <2>3. "discovered" \in Busy \ {"token"} /\ "discovered" \notin Behind
    BY DEF Busy, Discovered, Behind
  <2> QED
    BY <1>1, <1>2, <2>1, <2>2, <2>3, InvGoOn
<1>4. CASE ~Fresh(ClientOf(f))
  <2> DEFINE step == IF flow[f].named THEN "ask named" ELSE "ask inserted"
             k == [ClientOf(f) EXCEPT !.gate = f]
  <2>1. GoOn(f, step, k) /\ ClientOf(f).gate = NoFlow
    BY <1>4 DEF AcquireToDiscover
  <2>2. /\ step \in Busy \ {"token"} /\ step \notin Discovered
        /\ step \notin {"ask root", "register"}
    BY DEF Busy, Discovered, Behind
  <2>3. GoodClient(k) /\ k.gate = f /\ Unnoticed(f, flow[f].client, k)
    BY <1>1, <2>1, Takes
  <2> HIDE DEF step, k
  <2> QED
    BY <1>1, <2>1, <2>2, <2>3, InvGoOnWith
<1> QED
  BY <1>3, <1>4

LEMMA InvGiveUpWaiting ==
    ASSUME AuthorizationInv, NEW f \in Flows, GiveUpWaiting(f)
    PROVE  AuthorizationInv'
<1>1. flow[f].step \in Busy /\ Aside /\ sets' = sets /\ Fail(f, ClientOf(f))
  BY DEF GiveUpWaiting, Busy, Discovered, Aside, Settled, setting, world, stored
<1>2. \A t \in sets' : OwnRequest(t)
  BY <1>1 DEF AuthorizationInv, SetsHeld
<1> QED
  BY <1>1, <1>2, InvGiveUp

LEMMA InvAskResource ==
    ASSUME AuthorizationInv, NEW f \in Flows, AskResource(f)
    PROVE  AuthorizationInv'
<1>1. /\ flow[f].step \in {"ask named", "ask inserted", "ask root"}
      /\ flow[f].step \in Behind /\ flow[f].step \in Busy \ {"token"}
      /\ Aside /\ sets' = sets
  BY DEF AskResource, Asking, Busy, Behind, Aside, Settled, setting, world, stored
<1>2. /\ GoodClient(ClientOf(f)) /\ Unnoticed(f, flow[f].client, ClientOf(f))
      /\ ClientOf(f).gate = f
      /\ clients = [clients EXCEPT ![flow[f].client] = ClientOf(f)]
  BY <1>1, Held, KeptUnnoticed DEF ClientOf, Gated
<1>3. "ask server" \in Busy \ {"token"} /\ "ask root" \in Busy \ {"token"}
        /\ "ask root" \notin Discovered
  BY DEF Busy, Behind, Discovered
<1>4. ASSUME NEW s \in Servers, s \in Trusted,
             flow' = [flow EXCEPT ![f] = [flow[f] EXCEPT !.step = "ask server", !.found = s]],
             UNCHANGED clients
      PROVE  AuthorizationInv'
  BY <1>1, <1>2, <1>3, <1>4, InvGoOn
<1>5. CASE FailBehindGate(f)
  BY <1>1, <1>5, InvFailBehindGate
<1>6. PICK answer \in Answers(flow[f].step) :
        \/ /\ answer = "document"
           /\ flow' = [flow EXCEPT ![f].step = "ask server", ![f].found = resource.declares]
           /\ UNCHANGED clients
        \/ /\ answer \in SaysNone
           /\ \/ FailBehindGate(f)
              \/ At(f, "ask inserted") /\ GoOn(f, "ask root", ClientOf(f))
              \/ /\ At(f, "ask root")
                 /\ flow' = [flow EXCEPT ![f].step = "ask server", ![f].found = Origin]
                 /\ UNCHANGED clients
        \/ FailBehindGate(f)
  BY DEF AskResource
<1>7. CASE answer = "document"
  <2>1. resource.declares \in Servers /\ resource.declares \in Trusted
    BY DEF AuthorizationInv, SettingHeld, Trusted
  <2> QED
    BY <1>4, <1>5, <1>6, <1>7, <2>1 DEF SaysNone
<1>8. CASE answer = "none"
  <2>1. Asking[flow[f].step] # resource.at
    BY <1>8 DEF Answers, AnswerOf
  <2>2. ASSUME At(f, "ask inserted"), GoOn(f, "ask root", ClientOf(f))
        PROVE  AuthorizationInv'
    <3>1. resource.at # "inserted"
      BY <2>1, <2>2 DEF Asking, At
    <3> QED
      BY <1>1, <1>2, <1>3, <2>2, <3>1, InvGoOnWith
  <2>3. ASSUME At(f, "ask root"),
               flow' = [flow EXCEPT ![f].step = "ask server", ![f].found = Origin],
               UNCHANGED clients
        PROVE  AuthorizationInv'
    <3>1. resource.at # "inserted"
      BY <1>1, <2>3, Held DEF At, GoodFlow
    <3>2. resource.at # "root"
      BY <2>1, <2>3 DEF Asking, At
    <3>3. Origin \in Servers /\ Origin \in Trusted
      BY <3>1, <3>2, Constants DEF AuthorizationInv, SettingHeld, Trusted
    <3> QED
      BY <1>4, <2>3, <3>3
  <2> QED
    BY <1>5, <1>6, <1>8, <2>2, <2>3
<1>9. CASE answer \notin {"document", "none"}
  BY <1>5, <1>6, <1>9 DEF SaysNone
<1> QED
  BY <1>7, <1>8, <1>9

LEMMA InvAskServer ==
    ASSUME AuthorizationInv, NEW f \in Flows, AskServer(f)
    PROVE  AuthorizationInv'
<1>1. /\ flow[f].step = "ask server" /\ flow[f].step \in Behind /\ flow[f].step \in Busy \ {"token"}
      /\ flow[f].step \in Discovered /\ Aside /\ sets' = sets
  BY DEF AskServer, At, Busy, Behind, Discovered, Aside, Settled, setting, world, stored
<1>2. CASE FailBehindGate(f)
  BY <1>1, <1>2, InvFailBehindGate
<1> DEFINE k == Released([ClientOf(f) EXCEPT !.discovered = flow[f].found, !.discoveredAt = now])
<1>3. CASE GoOn(f, "discovered", k)
  <2>1. /\ GoodClient(ClientOf(f)) /\ ClientOf(f).gate = f /\ flow[f].found \in Servers
        /\ flow[f].found \in Trusted /\ now \in Nat
    BY <1>1, Held DEF Gated, GoodFlow, AuthorizationInv, SettingHeld
  <2>2. GoodClient(k)
    BY <2>1 DEF GoodClient, Client, Released
  <2> HIDE DEF k
  <2>3. Unnoticed(f, flow[f].client, k)
    BY <1>1, <2>1, AloneBehind
  <2>4. "discovered" \in Busy \ {"token"} /\ "discovered" \notin Behind
    BY DEF Busy, Discovered, Behind
  <2> QED
    BY <1>1, <1>3, <2>1, <2>2, <2>3, <2>4, InvGoOnWith
<1> QED
  BY <1>2, <1>3 DEF AskServer

(* ---------------- the redirect ---------------- *)

\* Those that keep a flow in the store from being found again: redirected since.
Later(f) == {g \in Flows \ {f} : At(g, "redirected") /\ flow[g].savedAt >= flow[f].savedAt}

LEMMA LaterFinite == ASSUME NEW f PROVE IsFiniteSet(Later(f)) /\ Cardinality(Later(f)) \in Nat
<1>1. Later(f) \subseteq Flows
  BY DEF Later
<1> QED
  BY <1>1, Constants, FS_Subset, FS_CardinalityType

\* What a save keeps is what was there, but for what lapsed and for one entry
\* that lapses no later than the rest of a full store.
LEMMA Kept ==
    ASSUME PendingHeld, now \in Nat, NEW capacity \in Nat,
           NEW kept \in RoomMade(pending, now, capacity)
    PROVE  /\ kept \subseteq pending /\ IsFiniteSet(kept)
           /\ \A e \in pending \ kept :
                \/ now >= e.expires
                \/ /\ Cardinality(Unlapsed(pending, now)) >= capacity
                   /\ e \in Unlapsed(pending, now)
                   /\ \A o \in Unlapsed(pending, now) : e.expires <= o.expires
<1> DEFINE left == Unlapsed(pending, now)
<1>1. left \subseteq pending /\ IsFiniteSet(left) /\ Cardinality(left) \in Nat
  <2>1. left \subseteq pending
    BY DEF Unlapsed
  <2> QED
    BY <2>1, FS_Subset, FS_CardinalityType DEF PendingHeld
<1>2. \A e \in pending \ left : now >= e.expires
  <2>1. \A e \in pending : e.expires \in Nat
    BY DEF PendingHeld, GoodEntry, Entry
  <2> QED
    BY <2>1 DEF Unlapsed, Honoured
<1> HIDE DEF left
<1>3. CASE Cardinality(left) < capacity
  <2>1. kept = left
    BY <1>3 DEF RoomMade, left
  <2> QED
    BY <1>1, <1>2, <2>1
<1>4. CASE ~(Cardinality(left) < capacity)
  <2>1. PICK e \in left : kept = left \ {e} /\ \A o \in left : e.expires <= o.expires
    BY <1>4 DEF RoomMade, LapsesFirst, left
  <2>2. Cardinality(left) >= capacity
    BY <1>1, <1>4
  <2>3. kept \subseteq pending /\ IsFiniteSet(kept)
    BY <1>1, <2>1, FS_Subset DEF PendingHeld
  <2>4. \A o \in pending \ kept : o = e \/ o \in pending \ left
    BY <2>1
  <2> QED
    BY <1>2, <2>1, <2>2, <2>3, <2>4 DEF left
<1> QED
  BY <1>3, <1>4

\* The flow f is redirected, whose browser is sent on.
Redirected(f) == [Idle EXCEPT !.step = "redirected", !.browser = flow[f].browser, !.savedAt = now]

\* An entry evicted from a full store made room for as many as the store holds.
LEMMA Crowded ==
    ASSUME AuthorizationInv, NEW f \in Flows, flow[f].step # "redirected",
           flow' = [flow EXCEPT ![f] = Redirected(f)],
           NEW e \in Unlapsed(pending, now), NEW capacity \in Nat,
           Cardinality(Unlapsed(pending, now)) >= capacity,
           \A o \in Unlapsed(pending, now) : e.expires <= o.expires
    PROVE  Cardinality(Later(e.by)') >= capacity
<1> DEFINE left == Unlapsed(pending, now)
           D == Later(e.by)'
           M == [o \in left |-> IF o = e THEN f ELSE o.by]
<1>1. /\ left \subseteq pending /\ IsFiniteSet(left)
      /\ \A o \in left : o.by \in Flows \ {f} /\ flow[o.by].step = "redirected"
                         /\ flow[o.by].savedAt \in Nat /\ flow[o.by].savedAt <= now
                         /\ o.expires = flow[o.by].savedAt + PendingLifetime
  <2>1. left \subseteq pending
    BY DEF Unlapsed
  <2>2. \A o \in left : o.by \in Flows \ {f} /\ flow[o.by].step = "redirected"
                        /\ o.expires = flow[o.by].savedAt + PendingLifetime
    BY <2>1 DEF AuthorizationInv, PendingHeld, GoodEntry, Entry
  <2>3. \A g \in Flows : flow[g].step = "redirected" =>
                            flow[g].savedAt \in Nat /\ flow[g].savedAt <= now
    BY DEF AuthorizationInv, FlowsHeld, GoodFlow, Flow
  <2> QED
    BY <2>1, <2>2, <2>3, FS_Subset DEF AuthorizationInv, PendingHeld
<1>2. /\ flow'[f].step = "redirected" /\ flow'[f].savedAt = now
      /\ \A g \in Flows \ {f} : flow'[g] = flow[g]
  BY DEF AuthorizationInv, FlowsHeld, Redirected, Idle
<1>3. D = {g \in Flows \ {e.by} : flow'[g].step = "redirected"
                                    /\ flow'[g].savedAt >= flow'[e.by].savedAt}
  BY DEF Later, At
<1>4. IsFiniteSet(D) /\ Cardinality(D) \in Nat /\ Cardinality(left) \in Nat
  <2>1. D \subseteq Flows
    BY <1>3
  <2> QED
    BY <1>1, <2>1, Constants, FS_Subset, FS_CardinalityType
<1>5. e \in left /\ \A o \in left : e.expires <= o.expires
  OBVIOUS
<1>6. \A o, p \in left : o.by = p.by => o = p
  BY <1>1 DEF AuthorizationInv, PendingHeld
<1> HIDE DEF left, D
<1>7. M \in [left -> D]
  <2> SUFFICES ASSUME NEW o \in left PROVE M[o] \in D
    OBVIOUS
  <2>1. CASE o = e
    BY <1>1, <1>2, <1>3, <1>5, <2>1
  <2>2. CASE o # e
    <3>1. o.by \in Flows \ {e.by, f} /\ e.by \in Flows \ {f}
      BY <1>1, <1>5, <1>6, <2>2
    <3>2. flow[o.by].savedAt >= flow[e.by].savedAt
      BY <1>1, <1>5, Constants
    <3> QED
      BY <1>1, <1>2, <1>3, <2>2, <3>1, <3>2
  <2> QED
    BY <2>1, <2>2
<1>8. \A o, p \in left : M[o] = M[p] => o = p
  BY <1>1, <1>5, <1>6
<1> HIDE DEF M
<1>9. ~(Cardinality(D) < Cardinality(left))
  BY <1>1, <1>4, <1>7, <1>8, FS_PigeonHole
<1> QED
  BY <1>4, <1>9 DEF D, left

\* The pending authorization a redirect leaves.
Handover(f, id, secret) ==
    [by |-> f, place |-> Place(f), expires |-> now + PendingLifetime, issuer |-> flow[f].found,
     id |-> id, secret |-> secret, promised |-> offers[flow[f].found].iss]

\* The step of a flow to the redirect, as the invariant sees it.
Redirecting(f, id, secret, k) ==
    /\ id \in Credentials /\ secret \in Credentials
    /\ Owned(id, flow[f].found) /\ Owned(secret, flow[f].found)
    /\ flow' = [flow EXCEPT ![f] = Redirected(f)]
    /\ clients' = [clients EXCEPT ![flow[f].client] = Left(k)]
    /\ SavePending(f, Handover(f, id, secret))
    /\ Settled /\ UNCHANGED <<shared, visit, sets>>

LEMMA RedirectedFlow ==
    ASSUME AuthorizationInv, NEW f \in Flows
    PROVE  /\ GoodFlow(f, Redirected(f)) /\ Redirected(f).step = "redirected"
           /\ Redirected(f).browser = flow[f].browser /\ Redirected(f).savedAt = now
           /\ Redirected(f).cookie = NoFlow
<1>1. now \in Nat /\ flow[f].browser \in Browsers \cup {NoFlow}
  BY DEF AuthorizationInv, SettingHeld, FlowsHeld, GoodFlow, Flow
<1>2. /\ Redirected(f) \in Flow /\ Redirected(f).step = "redirected"
      /\ Redirected(f).browser = flow[f].browser /\ Redirected(f).savedAt = now
      /\ Redirected(f).cookie = NoFlow /\ Redirected(f).found = NoServer
  BY <1>1, NothingRequested DEF Redirected, Idle, Flow
<1>3. GoodFlow(f, Redirected(f))
  BY <1>1, <1>2 DEF GoodFlow, Trusted, Busy, Behind, Discovered
<1> QED
  BY <1>2, <1>3

LEMMA RedirectFlowPart ==
    ASSUME AuthorizationInv, NEW f \in Flows, flow[f].step \in Busy,
           NEW id, NEW secret, NEW k, GoodClient(k), Unnoticed(f, flow[f].client, k),
           Redirecting(f, id, secret, k)
    PROVE  FlowPart'
<1>1. Unnoticed(f, flow[f].client, Left(k)) /\ GoodClient(Left(k))
  BY LeftUnnoticed
<1>2. GoodFlow(f, Redirected(f)) /\ Redirected(f).step \notin Busy
  BY RedirectedFlow DEF Busy, Behind, Discovered
<1>3. /\ flow[f].client \in Flows /\ FlowPart
      /\ shared'.client \in Flows \cup {NoFlow} /\ \A t \in sets' : OwnRequest(t)
  BY Held, Parts DEF Redirecting, AuthorizationInv, ClientsHeld, SetsHeld
<1>4. /\ flow' = [flow EXCEPT ![f] = Redirected(f)] /\ Settled /\ sets' = sets
      /\ clients' = [clients EXCEPT ![flow[f].client] = Left(k)]
  BY DEF Redirecting
<1> QED
  BY <1>1, <1>2, <1>3, <1>4, FlowPartStep

LEMMA RedirectRest ==
    ASSUME AuthorizationInv, NEW f \in Flows, flow[f].step \in Discovered,
           NEW id, NEW secret, NEW k, Redirecting(f, id, secret, k)
    PROVE  Rest'
<1> DEFINE e == Handover(f, id, secret)
<1>1. /\ flow[f].step # "redirected" /\ flow[f].found \in Servers /\ now \in Nat
      /\ flow[f].browser \in Browsers \cup {NoFlow} /\ flow[f].cookie \in Flows \cup {NoFlow}
  BY Held DEF Discovered, Busy, Behind, GoodFlow, Flow, AuthorizationInv, SettingHeld
<1>2. /\ flow'[f] = Redirected(f) /\ Stands(f, flow[f].browser)'
      /\ flow'[f].savedAt = now
      /\ \A g \in Flows \ {f} : flow'[g] = flow[g]
  BY RedirectedFlow DEF Redirecting, Stands, AuthorizationInv, FlowsHeld
<1>3. \A g \in Flows : flow[g].step = "redirected" => flow'[g] = flow[g]
  BY <1>1, <1>2
<1>4. \A p, b : Stands(p, b) => Stands(p, b)'
  BY <1>3 DEF Stands
<1>5. /\ e.by = f /\ e.issuer = flow[f].found /\ e.id = id /\ e.secret = secret
      /\ e.expires = now + PendingLifetime /\ e.promised = offers[flow[f].found].iss
      /\ e.place = Place(f)
  BY DEF Handover
<1>6. SavePending(f, e) /\ UNCHANGED <<config, offers, now, visit>>
  BY DEF Redirecting, Settled
<1> HIDE DEF e
<1>7. \/ config.store = "session" /\ pending' = pending \cup {e} /\ cookie' = cookie
      \/ /\ config.store = "memory"
         /\ \E kept \in RoomMade(pending, now, config.capacity) : pending' = kept \cup {e}
         /\ cookie' = IF flow[f].cookie # NoFlow THEN cookie
                      ELSE [cookie EXCEPT ![flow[f].browser] = e.place]
  BY <1>6, Published DEF SavePending, AuthorizationInv
<1>8. PICK kept : /\ pending' = kept \cup {e} /\ kept \subseteq pending /\ IsFiniteSet(kept)
                  /\ config.store = "memory" => kept \in RoomMade(pending, now, config.capacity)
  <2>1. config.capacity \in Nat
    BY Published DEF AuthorizationInv
  <2> QED
    BY <1>1, <1>7, <2>1, Kept DEF AuthorizationInv, PendingHeld
<1>9. IF config.store = "session" THEN e.place = flow[f].browser
      ELSE \A p, b : p = e.place /\ b = flow[f].browser => Stands(p, b)'
  <2>1. flow[f].cookie = NoFlow \/ Stands(flow[f].cookie, flow[f].browser)
    BY DEF AuthorizationInv, CookiesHeld
  <2>2. \A p, b : p = f /\ b = flow[f].browser => Stands(p, b)'
    BY <1>2, RedirectedFlow DEF Stands
  <2> QED
    BY <1>4, <1>5, <2>1, <2>2 DEF Place
<1>10. CookiesHeld'
  <2>1. cookie' = [b \in Browsers |-> cookie'[b]]
    BY <1>7 DEF AuthorizationInv, CookiesHeld
  <2>2. ASSUME NEW b \in Browsers, NEW p, cookie'[b] = p PROVE p = NoFlow \/ Stands(p, b)'
    <3>1. cookie[b] = p => p = NoFlow \/ Stands(p, b)'
      BY <1>4 DEF AuthorizationInv, CookiesHeld
    <3>2. \/ cookie'[b] = cookie[b]
          \/ config.store = "memory" /\ cookie'[b] = e.place /\ b = flow[f].browser
      BY <1>7 DEF AuthorizationInv, CookiesHeld
    <3> QED
      BY <1>9, <2>2, <3>1, <3>2
  <2>3. ASSUME NEW g \in Flows, NEW p, NEW b, flow'[g].cookie = p, flow'[g].browser = b
        PROVE  p = NoFlow \/ Stands(p, b)'
    <3>1. CASE g = f
      BY <1>2, <2>3, <3>1, RedirectedFlow
    <3>2. CASE g # f
      BY <1>2, <1>4, <2>3, <3>2 DEF AuthorizationInv, CookiesHeld
    <3> QED
      BY <3>1, <3>2
  <2> QED
    BY <2>1, <2>2, <2>3 DEF CookiesHeld
<1>11. PendingHeld'
  <2>1. IsFiniteSet(pending')
    BY <1>8, FS_AddElement
  <2>2. ASSUME NEW o \in pending PROVE o.by \in Flows \ {f} /\ GoodEntry(o)'
    <3>1. GoodEntry(o)
      BY DEF AuthorizationInv, PendingHeld
    <3>2. GoodEntry(o)'
      BY <1>3, <1>6, <3>1, EntryStays
    <3> QED
      BY <1>1, <3>1, <3>2 DEF GoodEntry, Entry
  <2>3. ASSUME NEW o, o = e PROVE GoodEntry(o)'
    <3>1. o \in Entry
      <4>1. o = [by |-> f, place |-> Place(f), expires |-> now + PendingLifetime,
                 issuer |-> flow[f].found, id |-> id, secret |-> secret,
                 promised |-> offers[flow[f].found].iss]
        BY <2>3 DEF e, Handover
      <4>2. Place(f) \in Browsers \cup Flows \cup {NoFlow}
        BY <1>1 DEF Place
      <4>3. offers[flow[f].found].iss \in BOOLEAN
        BY <1>1, Published DEF AuthorizationInv
      <4>4. id \in Credentials /\ secret \in Credentials
        BY DEF Redirecting
      <4> QED
        BY <1>1, <4>1, <4>2, <4>3, <4>4, Constants DEF Entry
    <3>2. /\ Owned(o.id, o.issuer) /\ Owned(o.secret, o.issuer)
          /\ o.promised <=> offers[o.issuer].iss
      BY <1>5, <2>3 DEF Redirecting
    <3>3. /\ flow'[f].step = "redirected" /\ flow'[f].browser = flow[f].browser
          /\ o.expires = flow'[f].savedAt + PendingLifetime /\ o.by = f
      BY <1>2, <1>5, <2>3, RedirectedFlow
    <3>4. IF config.store = "session" THEN o.place = flow[f].browser
          ELSE \A b : b = flow[f].browser => Stands(o.place, b)'
      BY <1>9, <2>3
    <3> QED
      BY <1>6, <3>1, <3>2, <3>3, <3>4 DEF GoodEntry, Owned
  <2>4. \A o \in pending' : o \in pending \/ o = e
    BY <1>8
  <2>5. \A o, p \in pending' : o.by = p.by => o = p
    BY <1>5, <2>2, <2>4 DEF AuthorizationInv, PendingHeld
  <2> QED
    BY <2>1, <2>2, <2>3, <2>4, <2>5 DEF PendingHeld
<1>12. VisitsHeld'
  <2>1. \A x : GoodVisit(x) => GoodVisit(x)'
    BY <1>3, <1>6, VisitStays
  <2> QED
    BY <1>6, <2>1 DEF AuthorizationInv, VisitsHeld
<1>13. TakenOnce'
  <2>1. \A v \in Completing : visit[v].state \in Flows \ {f}
    BY <1>1 DEF AuthorizationInv, VisitsHeld, GoodVisit, Completing, Stands
  <2>2. \A o \in pending' : o \in pending \/ o.by = f
    BY <1>5, <1>8
  <2> QED
    BY <1>6, <2>1, <2>2 DEF AuthorizationInv, TakenOnce, Completing
<1>14. NoFlowIsLost'
  <2> SUFFICES ASSUME NEW g \in Flows, flow'[g].step = "redirected", config.store = "memory",
                      ~\E o \in pending' : o.by = g,
                      ~\E v \in Visits : visit[v].state = g,
                      ~(now >= flow'[g].savedAt + PendingLifetime)
               PROVE  Cardinality(Later(g)') >= config.capacity
    BY <1>6 DEF NoFlowIsLost, At, Later
  <2>1. g # f /\ flow[g].step = "redirected" /\ flow'[g] = flow[g]
    BY <1>2, <1>5, <1>8
  <2>2. Later(g) \subseteq Later(g)'
    BY <1>1, <1>2, <2>1 DEF Later, At
  <2>3. config.capacity \in Nat
    BY Published DEF AuthorizationInv
  <2>4. CASE \E o \in pending : o.by = g
    <3>1. PICK o \in pending : o.by = g
      BY <2>4
    <3>2. o \in pending \ kept /\ o.expires = flow[g].savedAt + PendingLifetime
      BY <1>8, <3>1 DEF AuthorizationInv, PendingHeld, GoodEntry
    <3>3. /\ Cardinality(Unlapsed(pending, now)) >= config.capacity
          /\ o \in Unlapsed(pending, now)
          /\ \A p \in Unlapsed(pending, now) : o.expires <= p.expires
      BY <1>1, <1>8, <2>1, <2>3, <3>2, Kept DEF AuthorizationInv
    <3>4. flow' = [flow EXCEPT ![f] = Redirected(f)]
      BY DEF Redirecting
    <3>5. Cardinality(Later(o.by)') >= config.capacity
      BY <1>1, <2>3, <3>3, <3>4, Crowded
    <3> QED
      BY <3>1, <3>5
  <2>5. CASE ~\E o \in pending : o.by = g
    <3>1. Cardinality(Later(g)) >= config.capacity
      BY <2>1, <2>5 DEF AuthorizationInv, NoFlowIsLost, At, Later
    <3>2. IsFiniteSet(Later(g)') /\ Cardinality(Later(g)') \in Nat
      <4>1. Later(g)' \subseteq Flows
        BY DEF Later
      <4> QED
        BY <4>1, Constants, FS_Subset, FS_CardinalityType
    <3> QED
      BY <2>2, <2>3, <3>1, <3>2, LaterFinite, FS_Subset
  <2> QED
    BY <2>4, <2>5
<1> QED
  BY <1>10, <1>11, <1>12, <1>13, <1>14 DEF Rest

LEMMA InvRedirect ==
    ASSUME AuthorizationInv, NEW f \in Flows, flow[f].step \in Discovered,
           NEW id \in Credentials, NEW secret \in Credentials,
           RequireCredentialsBelongTo(flow[f].found, id, secret) =>
                Owned(id, flow[f].found) /\ Owned(secret, flow[f].found),
           NEW k, GoodClient(k), Unnoticed(f, flow[f].client, k),
           Redirect(f, id, secret, k), Settled, UNCHANGED <<shared, visit, sets>>
    PROVE  AuthorizationInv'
<1>1. flow[f].step \in Busy
  BY DEF Busy
<1>2. CASE RequireCredentialsBelongTo(flow[f].found, id, secret)
  <2>1. Redirecting(f, id, secret, k)
    BY <1>2 DEF Redirect, Redirecting, Redirected, Handover
  <2>2. FlowPart' /\ Rest'
    BY <1>1, <2>1, RedirectFlowPart, RedirectRest
  <2> QED
    BY <2>2 DEF AuthorizationInv, FlowPart, Rest
<1>3. CASE ~RequireCredentialsBelongTo(flow[f].found, id, secret)
  <2>1. Fail(f, k) /\ Aside
    BY <1>3 DEF Redirect, Aside
  <2>2. sets \subseteq sets' /\ \A t \in sets' : OwnRequest(t)
    BY DEF AuthorizationInv, SetsHeld
  <2> QED
    BY <1>1, <2>1, <2>2, InvFail
<1> QED
  BY <1>2, <1>3

\* The configured credentials go where they belong, or nowhere; those that were
\* registered with a server belong to it.
LEMMA ConfiguredBelong ==
    ASSUME NEW s, NEW id, NEW secret, RequireCredentialsBelongTo(s, id, secret)
    PROVE  /\ id = Configured => Owned(id, s)
           /\ secret = Configured => Owned(secret, s)
BY DEF RequireCredentialsBelongTo, RequireConfiguredIssuer, Configured, Owned

LEMMA Belong ==
    /\ {Nothing, Configured, Document} \subseteq Credentials
    /\ \A s \in Servers : Registered(s) \in Credentials
    /\ \A s : Owned(Registered(s), s) /\ Owned(Nothing, s) /\ Owned(Document, s)
    /\ ConfiguredId \in {Nothing, Configured} /\ ConfiguredSecret \in {Nothing, Configured}
BY DEF Credentials, Owned, Registered, Nothing, Document, ConfiguredId, ConfiguredSecret

LEMMA InvAuthorize ==
    ASSUME AuthorizationInv, NEW f \in Flows, Authorize(f)
    PROVE  AuthorizationInv'
<1> DEFINE s == flow[f].found
           k == ClientOf(f)
<1>1. /\ flow[f].step = "discovered" /\ flow[f].step \in Discovered
      /\ flow[f].step \in Busy \ {"token"}
      /\ Settled /\ UNCHANGED <<shared, visit, sets>>
  BY DEF Authorize, At, Busy, Discovered, Settled, setting, world
<1>2. /\ GoodClient(k) /\ Unnoticed(f, flow[f].client, k) /\ s \in Servers
  BY <1>1, Held, KeptUnnoticed DEF ClientOf, GoodFlow
<1>3. CASE Fail(f, k) /\ UNCHANGED <<pending, cookie>>
  <2>1. Aside /\ sets \subseteq sets' /\ \A t \in sets' : OwnRequest(t)
    BY <1>1, <1>3 DEF AuthorizationInv, SetsHeld, Aside
  <2> QED
    BY <1>1, <1>3, <2>1, InvGiveUp
<1>4. CASE Redirect(f, Configured, ConfiguredSecret, k)
  BY <1>1, <1>2, <1>4, InvRedirect, Belong, ConfiguredBelong
<1>5. CASE Redirect(f, Document, Nothing, k)
  BY <1>1, <1>2, <1>5, InvRedirect, Belong
<1>6. CASE Usable(k, s) /\ Redirect(f, Registered(k.record.of), Registered(k.record.of), k)
  <2>1. Redirect(f, Registered(s), Registered(s), k)
    BY <1>6 DEF Usable
  <2> QED
    BY <1>1, <1>2, <2>1, InvRedirect, Belong
<1>7. CASE GoOn(f, "wait to register", k) /\ UNCHANGED <<pending, cookie>>
  <2>1. /\ "wait to register" \in Busy \ {"token"} /\ "wait to register" \notin Behind
        /\ Aside
    BY <1>1, <1>7 DEF Busy, Behind, Discovered, Aside
  <2> QED
    BY <1>1, <1>2, <1>7, <2>1, InvGoOnWith
<1> QED
  BY <1>3, <1>4, <1>5, <1>6, <1>7 DEF Authorize

LEMMA InvAcquireToRegister ==
    ASSUME AuthorizationInv, NEW f \in Flows, AcquireToRegister(f)
    PROVE  AuthorizationInv'
<1> DEFINE s == flow[f].found
           k == ClientOf(f)
<1>1. /\ flow[f].step = "wait to register" /\ flow[f].step \in Discovered
      /\ flow[f].step \in Busy \ {"token"}
      /\ Settled /\ UNCHANGED <<shared, visit, sets>>
  BY DEF AcquireToRegister, At, Busy, Discovered, Settled, setting, world
<1>2. /\ GoodClient(k) /\ Unnoticed(f, flow[f].client, k) /\ s \in Servers
  BY <1>1, Held, KeptUnnoticed DEF ClientOf, GoodFlow
<1>3. CASE Fail(f, k) /\ UNCHANGED <<pending, cookie>>
  <2>1. Aside /\ sets \subseteq sets' /\ \A t \in sets' : OwnRequest(t)
    BY <1>1, <1>3 DEF AuthorizationInv, SetsHeld, Aside
  <2> QED
    BY <1>1, <1>3, <2>1, InvGiveUp
<1>4. CASE Usable(k, s) /\ Redirect(f, Registered(k.record.of), Registered(k.record.of), k)
  <2>1. Redirect(f, Registered(s), Registered(s), k)
    BY <1>4 DEF Usable
  <2> QED
    BY <1>1, <1>2, <2>1, InvRedirect, Belong
<1>5. CASE /\ ~Usable(k, s) /\ k.gate = NoFlow
           /\ GoOn(f, "register", [k EXCEPT !.gate = f]) /\ UNCHANGED <<pending, cookie>>
  <2> DEFINE l == [k EXCEPT !.gate = f]
  <2>1. GoodClient(l) /\ l.gate = f /\ Unnoticed(f, flow[f].client, l) /\ l.record = k.record
    BY <1>1, <1>5, Takes
  <2>2. ~Usable(l, s)
    BY <1>5, <2>1 DEF Usable
  <2>3. "register" \in Busy \ {"token"} /\ Aside
    BY <1>1, <1>5 DEF Busy, Behind, Aside
  <2>4. GoOn(f, "register", l)
    BY <1>5
  <2> HIDE DEF l, k
  <2> QED
    BY <1>1, <1>2, <2>1, <2>2, <2>3, <2>4, InvGoOnWith
<1> QED
  BY <1>3, <1>4, <1>5 DEF AcquireToRegister, NeedsRecord

LEMMA InvRegister ==
    ASSUME AuthorizationInv, NEW f \in Flows, Register(f)
    PROVE  AuthorizationInv'
<1> DEFINE s == flow[f].found
<1>1. /\ flow[f].step = "register" /\ flow[f].step \in Discovered
      /\ flow[f].step \in Behind /\ flow[f].step \in Busy
      /\ Settled /\ UNCHANGED <<shared, visit, sets>>
  BY DEF Register, At, Busy, Behind, Discovered, Settled, setting, world
<1>2. /\ GoodClient(ClientOf(f)) /\ ClientOf(f).gate = f /\ s \in Servers /\ now \in Nat
  BY <1>1, Held DEF Gated, GoodFlow, AuthorizationInv, SettingHeld
<1>3. CASE FailBehindGate(f) /\ UNCHANGED <<pending, cookie>>
  <2>1. Aside
    BY <1>1, <1>3 DEF Aside
  <2> QED
    BY <1>1, <1>3, <2>1, InvFailBehindGate
<1>4. ASSUME NEW expires \in {0, now + 1},
             Redirect(f, Registered(s), Registered(s),
                      Released([ClientOf(f) EXCEPT !.record =
                                    [of |-> s, at |-> now, expires |-> expires]]))
      PROVE  AuthorizationInv'
  <2> DEFINE k == Released([ClientOf(f) EXCEPT !.record =
                                [of |-> s, at |-> now, expires |-> expires]])
  <2>1. GoodClient(k)
    <3>1. [of |-> s, at |-> now, expires |-> expires] \in Record
      BY <1>2 DEF Record
    <3> QED
      BY <1>2, <3>1, Constants DEF GoodClient, Client, Released
  <2>2. Redirect(f, Registered(s), Registered(s), k)
    BY <1>4
  <2> HIDE DEF k
  <2>3. Unnoticed(f, flow[f].client, k)
    BY <1>1, <1>2, AloneBehind
  <2> QED
    BY <1>1, <1>2, <2>1, <2>2, <2>3, InvRedirect, Belong
<1> QED
  BY <1>3, <1>4 DEF Register

(* ---------------- tokens ---------------- *)

LEMMA InvRequestToken ==
    ASSUME AuthorizationInv, NEW f \in Flows, RequestToken(f)
    PROVE  AuthorizationInv'
<1> DEFINE s == flow[f].found
           set == flow[f].request
           again == flow[f].kind = "refresh"
           id == IF again THEN RefreshId(set) ELSE ConfiguredId
           secret == IF again THEN RefreshSecret(set) ELSE ConfiguredSecret
           allowed == /\ RequireConfiguredIssuer(s)
                      /\ again => RequireSameIssuer(IF flow[f].lost THEN NoServer ELSE set.to, s)
                      /\ RequireCredentialsBelongTo(s, id, secret)
           request == [to |-> s, id |-> id, secret |-> secret,
                       grant |-> IF again THEN set.to ELSE s]
           q == [flow[f] EXCEPT !.step = "token", !.request = request]
<1>1. /\ flow[f].step = "discovered" /\ flow[f].step \in Discovered
      /\ flow[f].step \in Busy \ {"token"} /\ flow[f].step # "redirected" /\ Aside /\ sets' = sets
  BY DEF RequestToken, At, Busy, Discovered, Aside, Settled, setting, world, stored
<1>2. /\ GoodFlow(f, flow[f]) /\ flow[f] \in Flow /\ flow[f].client \in Flows
      /\ GoodClient(ClientOf(f)) /\ Unnoticed(f, flow[f].client, ClientOf(f)) /\ s \in Servers
      /\ clients = [clients EXCEPT ![flow[f].client] = ClientOf(f)]
  BY <1>1, Held, KeptUnnoticed DEF ClientOf, GoodFlow
<1>3. \A t \in sets' : OwnRequest(t)
  BY <1>1 DEF AuthorizationInv, SetsHeld
<1>4. CASE ~allowed /\ Fail(f, ClientOf(f))
  BY <1>1, <1>3, <1>4, InvGiveUp
<1>5. CASE allowed /\ flow' = [flow EXCEPT ![f] = q] /\ UNCHANGED clients
  <2>1. again => set.to = s /\ OwnRequest(set)
    <3>1. again => set \in sets
      BY <1>1, <1>2 DEF GoodFlow
    <3> QED
      BY <1>5, <3>1 DEF RequireSameIssuer, AuthorizationInv, SetsHeld
  <2>2. ASSUME again
        PROVE  /\ id \in {set.id, Nothing, Configured}
               /\ secret \in {set.secret, Nothing, Configured}
    BY <2>2, Belong DEF RefreshId, RefreshSecret
  <2>3. ASSUME ~again PROVE id \in {Nothing, Configured} /\ secret \in {Nothing, Configured}
    BY <2>3, Belong
  <2>4. again => /\ set.id \in Credentials /\ set.secret \in Credentials
                 /\ Owned(set.id, s) /\ Owned(set.secret, s)
    BY <2>1 DEF OwnRequest, Requests
  <2>5. RequireCredentialsBelongTo(s, id, secret) /\ (again => set.to = s)
    BY <1>5, <2>1
  <2> HIDE DEF id, secret, set, again, allowed
  <2>6. id \in Credentials /\ secret \in Credentials
    BY <2>2, <2>3, <2>4, Belong
  <2>7. Owned(id, s) /\ Owned(secret, s)
    BY <2>2, <2>3, <2>4, <2>5, Belong, ConfiguredBelong
  <2>8. /\ OwnRequest(request) /\ request \in Requests /\ request.grant = request.to
    BY <1>2, <2>5, <2>6, <2>7 DEF OwnRequest, Requests, Owned
  <2> HIDE DEF request
  <2>9. /\ q \in Flow /\ q.step = "token" /\ q.request = request /\ q.found = s
        /\ q.client = flow[f].client /\ q.cookie = flow[f].cookie
        /\ q.browser = flow[f].browser
    BY <1>2, <2>8 DEF Flow, Busy, Discovered
  <2>10. flow' = [flow EXCEPT ![f] = q]
    BY <1>5
  <2> HIDE DEF q
  <2>11. GoodFlow(f, q) /\ Gated(f, q, ClientOf(f))
    BY <1>1, <1>2, <2>8, <2>9 DEF GoodFlow, Gated, Behind
  <2>12. q.cookie = NoFlow \/ Stands(q.cookie, q.browser)
    BY <2>9 DEF AuthorizationInv, CookiesHeld
  <2>13. shared'.client \in Flows \cup {NoFlow}
    BY <1>1 DEF AuthorizationInv, ClientsHeld, Aside
  <2> QED
    BY <1>1, <1>2, <1>3, <1>5, <2>9, <2>10, <2>11, <2>12, <2>13, FlowStep DEF Aside
<1> QED
  BY <1>4, <1>5 DEF RequestToken

LEMMA InvTokenAnswered ==
    ASSUME AuthorizationInv, NEW f \in Flows, TokenAnswered(f)
    PROVE  AuthorizationInv'
<1>1. /\ flow[f].step = "token" /\ flow[f].step \in Busy /\ Aside /\ Fail(f, ClientOf(f))
      /\ sets' = sets \/ sets' = sets \cup {[flow[f].request EXCEPT !.grant = flow[f].request.to]}
  BY DEF TokenAnswered, At, Busy, Discovered, Aside, Settled, setting, world, stored
<1>2. OwnRequest(flow[f].request)
  BY <1>1, Held DEF GoodFlow
<1>3. ASSUME NEW r, OwnRequest(r) PROVE OwnRequest([r EXCEPT !.grant = r.to])
  BY <1>3 DEF OwnRequest, Requests, Owned
<1>4. sets \subseteq sets' /\ \A t \in sets' : OwnRequest(t)
  BY <1>1, <1>2, <1>3 DEF AuthorizationInv, SetsHeld
<1> QED
  BY <1>1, <1>4, InvGiveUp

(* ---------------- the start of a flow ---------------- *)

LEMMA ClientTaken ==
    ASSUME AuthorizationInv, NEW f \in Flows, NEW named
    PROVE  /\ ClientFor(f, named) \in Flows
           /\ ~config.pinned => ClientFor(f, named) = f
           /\ SharedAfter(f, named).client \in Flows \cup {NoFlow}
BY DEF ClientFor, SharedAfter, AuthorizationInv, ClientsHeld

\* A flow that was idle starts over some client.
LEMMA InvStart ==
    ASSUME AuthorizationInv, NEW f \in Flows, flow[f].step = "idle",
           NEW q \in Flow, q.step = "discover", q.found = NoServer, q.client \in Flows,
           ~config.pinned => q.client = f, q.kind = "refresh" => q.request \in sets,
           q.cookie = NoFlow \/ Stands(q.cookie, q.browser),
           flow' = [flow EXCEPT ![f] = q], UNCHANGED clients, Settled,
           shared'.client \in Flows \cup {NoFlow}, UNCHANGED <<sets, pending, cookie, visit>>
    PROVE  AuthorizationInv'
<1>1. /\ flow[f].step # "redirected" /\ q.step # "redirected"
      /\ q.step \notin Behind \cup Discovered /\ q.step # "ask root"
  BY DEF Behind, Discovered
<1>2. GoodFlow(f, q) /\ Gated(f, q, clients[q.client])
  BY <1>1 DEF GoodFlow, Gated, Trusted, Behind, Discovered
<1>3. /\ GoodClient(clients[q.client])
      /\ clients' = [clients EXCEPT ![q.client] = clients[q.client]]
      /\ \A t \in sets' : OwnRequest(t)
  BY DEF AuthorizationInv, ClientsHeld, SetsHeld
<1>4. Unnoticed(f, q.client, clients[q.client])
  BY DEF Unnoticed
<1> QED
  BY <1>1, <1>2, <1>3, <1>4, FlowStep

LEMMA InvStartAuthorization ==
    ASSUME AuthorizationInv, NEW f \in Flows, NEW b \in Browsers, StartAuthorization(f, b)
    PROVE  AuthorizationInv'
<1>1. PICK named \in BOOLEAN :
        /\ flow' = [flow EXCEPT ![f] =
                [Idle EXCEPT !.step = "discover", !.browser = b, !.named = named,
                             !.client = ClientFor(f, named), !.cookie = cookie[b]]]
        /\ shared' = SharedAfter(f, named)
  BY DEF StartAuthorization
<1>2. /\ flow[f].step = "idle" /\ Settled
      /\ UNCHANGED <<clients, sets, pending, cookie, visit>>
  BY DEF StartAuthorization, At, Settled, setting, world, stored
<1> DEFINE c == ClientFor(f, named)
           q == [Idle EXCEPT !.step = "discover", !.browser = b, !.named = named,
                             !.client = c, !.cookie = cookie[b]]
<1>3. c \in Flows /\ (~config.pinned => c = f) /\ shared'.client \in Flows \cup {NoFlow}
  BY <1>1, ClientTaken
<1>4. cookie[b] = NoFlow \/ Stands(cookie[b], b)
  BY DEF AuthorizationInv, CookiesHeld
<1>5. flow' = [flow EXCEPT ![f] = q]
  BY <1>1
<1> HIDE DEF c
<1>6. /\ q \in Flow /\ q.step = "discover" /\ q.found = NoServer /\ q.client = c
      /\ q.kind = "authorize" /\ q.cookie = cookie[b] /\ q.browser = b
  <2>1. cookie[b] \in Flows \cup {NoFlow}
    BY <1>4 DEF Stands
  <2> QED
    BY <1>3, <2>1, NothingRequested DEF Idle, Flow, Busy
<1> HIDE DEF q
<1> QED
  BY <1>2, <1>3, <1>4, <1>5, <1>6, InvStart

LEMMA InvStartOther ==
    ASSUME AuthorizationInv, NEW f \in Flows, NEW kind \in Kinds \ {"authorize"},
           StartOther(f, kind)
    PROVE  AuthorizationInv'
<1>1. PICK named \in {resource.at = "named"}, set \in sets \cup {NoRequest}, lost \in BOOLEAN :
        /\ IF kind = "refresh" THEN set \in sets ELSE set = NoRequest /\ ~lost
        /\ flow' = [flow EXCEPT ![f] =
                [Idle EXCEPT !.step = "discover", !.kind = kind, !.named = named,
                             !.client = ClientFor(f, named), !.lost = lost, !.request = set]]
  BY DEF StartOther
<1>2. /\ flow[f].step = "idle" /\ Settled
      /\ UNCHANGED <<clients, shared, sets, pending, cookie, visit>>
  BY DEF StartOther, At, Settled, setting, world, stored
<1> DEFINE c == ClientFor(f, named)
           q == [Idle EXCEPT !.step = "discover", !.kind = kind, !.named = named,
                             !.client = c, !.lost = lost, !.request = set]
<1>3. c \in Flows /\ (~config.pinned => c = f) /\ shared'.client \in Flows \cup {NoFlow}
  BY <1>2, ClientTaken DEF AuthorizationInv, ClientsHeld
<1>4. flow' = [flow EXCEPT ![f] = q]
  BY <1>1
<1>5. set \in Requests /\ (kind = "refresh" => set \in sets) /\ named \in BOOLEAN
  BY <1>1, NothingRequested DEF AuthorizationInv, SetsHeld, OwnRequest
<1> HIDE DEF c
<1>6. /\ q \in Flow /\ q.step = "discover" /\ q.found = NoServer /\ q.client = c
      /\ q.kind = kind /\ q.cookie = NoFlow /\ q.request = set
  BY <1>3, <1>5 DEF Idle, Flow, Busy
<1> HIDE DEF q
<1> QED
  BY <1>2, <1>3, <1>4, <1>5, <1>6, InvStart

(* ---------------- the callback ---------------- *)

\* A step of the visit v, which becomes x: it keeps the state it came with, and
\* the entries it takes are those of that state.
LEMMA VisitStep ==
    ASSUME AuthorizationInv, NEW v \in Visits, NEW x, GoodVisit(x),
           visit[v].state \in {NoFlow, x.state}, visit' = [visit EXCEPT ![v] = x],
           pending' \subseteq pending, \A e \in pending \ pending' : e.by = x.state,
           config.store = "memory" /\ x.took =>
                /\ \A e \in pending' : e.by # x.state
                /\ \A w \in Completing \ {v} : visit[w].state # x.state,
           sets \subseteq sets', \A t \in sets' : OwnRequest(t),
           Settled, UNCHANGED <<clients, shared, flow, cookie>>
    PROVE  AuthorizationInv'
<1>1. FlowPart'
  <2>1. SettingHeld' /\ SetsHeld'
    BY DEF AuthorizationInv, SettingHeld, SetsHeld, Settled, OwnRequest, Owned
  <2>2. ClientsHeld'
    BY GoodClientStays DEF AuthorizationInv, ClientsHeld
  <2>3. FlowsHeld'
    BY GoodFlowStays DEF AuthorizationInv, FlowsHeld
  <2>4. GatesHeld'
    BY DEF AuthorizationInv, GatesHeld, Gated, ClientOf, Usable, Settled
  <2> QED
    BY <2>1, <2>2, <2>3, <2>4 DEF FlowPart
<1>2. CookiesHeld'
  BY DEF AuthorizationInv, CookiesHeld, Stands
<1>3. PendingHeld'
  <2>1. \A e : GoodEntry(e) => GoodEntry(e)'
    BY EntryStays DEF Settled
  <2>2. IsFiniteSet(pending')
    BY FS_Subset DEF AuthorizationInv, PendingHeld
  <2> QED
    BY <2>1, <2>2 DEF AuthorizationInv, PendingHeld
<1>4. \A w \in Visits : visit'[w] = IF w = v THEN x ELSE visit[w]
  BY DEF AuthorizationInv, VisitsHeld
<1>5. VisitsHeld'
  <2>1. \A y : GoodVisit(y) => GoodVisit(y)'
    BY VisitStays DEF Settled
  <2>2. \A w \in Visits : GoodVisit(visit'[w])
    BY <1>4 DEF AuthorizationInv, VisitsHeld
  <2> QED
    BY <2>1, <2>2 DEF AuthorizationInv, VisitsHeld
<1>6. TakenOnce'
  <2> SUFFICES ASSUME config.store = "memory" PROVE TakenOnce'
    BY DEF TakenOnce, Settled
  <2>1. \A w \in Completing' : w \in Completing \ {v} \/ (w = v /\ x.took)
    BY <1>4 DEF Completing
  <2>2. \A w \in Completing', e \in pending' : e.by # visit'[w].state
    BY <1>4, <2>1 DEF AuthorizationInv, TakenOnce, Completing
  <2>3. \A w, u \in Completing' : visit'[w].state = visit'[u].state => w = u
    BY <1>4, <2>1 DEF AuthorizationInv, TakenOnce, Completing
  <2> QED
    BY <2>2, <2>3 DEF TakenOnce
<1>7. NoFlowIsLost'
  <2> SUFFICES ASSUME NEW f \in Flows, At(f, "redirected"), config.store = "memory",
                      ~\E e \in pending' : e.by = f,
                      ~\E w \in Visits : visit'[w].state = f,
                      ~(now >= flow[f].savedAt + PendingLifetime)
               PROVE  Cardinality({g \in Flows \ {f} : At(g, "redirected")
                            /\ flow[g].savedAt >= flow[f].savedAt}) >= config.capacity
    BY DEF NoFlowIsLost, At, Settled
  <2>1. ~\E w \in Visits : visit[w].state = f
    BY <1>4, Constants
  <2>2. ~\E e \in pending : e.by = f
    BY <1>4
  <2> QED
    BY <2>1, <2>2 DEF AuthorizationInv, NoFlowIsLost
<1> QED
  BY <1>1, <1>2, <1>3, <1>5, <1>6, <1>7 DEF AuthorizationInv, FlowPart

\* What the exchange makes of a visit with its entry in hand.
LEMMA Exchanged ==
    ASSUME AuthorizationInv, NEW r \in Visit, NEW e, GoodEntry(e), Stated(r), r.state = e.by,
           Stands(r.state, r.browser), r.step \in {"idle", "remove"},
           config.store = "memory" => Honoured(e, now)
    PROVE  /\ GoodVisit(Exchange(r, e)) /\ Exchange(r, e).state = r.state
           /\ Exchange(r, e).took
<1> DEFINE allowed == /\ e.by = r.state
                      /\ ValidIssuer(e, r.iss)
                      /\ r.code # NoServer
                      /\ RequireConfiguredIssuer(e.issuer)
                      /\ RequireCredentialsBelongTo(e.issuer, e.id, e.secret)
           request == [to |-> e.issuer, id |-> e.id, secret |-> e.secret, grant |-> r.code]
           taken == [r EXCEPT !.entry = NoEntry, !.took = TRUE, !.at = now]
           sent == [taken EXCEPT !.step = "token", !.request = request]
<1>1. /\ e \in Entry /\ Owned(e.id, e.issuer) /\ Owned(e.secret, e.issuer)
      /\ e.promised <=> offers[e.issuer].iss
      /\ e.expires = flow[e.by].savedAt + PendingLifetime /\ now \in Nat
      /\ config.store = "memory" => now < flow[r.state].savedAt + PendingLifetime
  BY DEF GoodEntry, Honoured, AuthorizationInv, SettingHeld
<1>2. Exchange(r, e) = IF allowed THEN sent ELSE Over(taken, "refused")
  BY DEF Exchange
<1>3. CASE allowed
  <2>1. request \in Requests /\ OwnRequest(request) /\ request.to = e.issuer
        /\ request.grant = r.code
    BY <1>1, <1>3 DEF Requests, OwnRequest, Entry, Visit, Owned
  <2>2. r.code # e.issuer => r.code \in Servers /\ ~offers[r.code].iss /\ ~offers[e.issuer].iss
    BY <1>1, <1>3, Constants DEF Visit, Entry, ValidIssuer, Stated
  <2>3. Posted(request)
    BY <2>1, <2>2 DEF Posted
  <2> HIDE DEF request
  <2>4. /\ sent \in Visit /\ sent.step = "token" /\ sent.request = request /\ sent.took
        /\ sent.state = r.state /\ sent.browser = r.browser /\ sent.at = now
    BY <1>1, <2>1 DEF Visit
  <2> HIDE DEF sent, taken, allowed
  <2>5. GoodVisit(sent)
    BY <1>1, <2>3, <2>4 DEF GoodVisit
  <2> QED
    BY <1>2, <1>3, <2>4, <2>5
<1>4. CASE ~allowed
  <2> DEFINE x == Over(taken, "refused")
  <2>1. /\ x \in Visit /\ x.step = "refused" /\ x.took /\ x.state = r.state
        /\ x.browser = r.browser /\ x.at = now
    BY <1>1, NothingRequested, ZenonT(60) DEF Visit, Over, Away
  <2> HIDE DEF x
  <2>2. GoodVisit(x)
    BY <1>1, <2>1 DEF GoodVisit
  <2> QED
    BY <1>2, <1>4, <2>1, <2>2 DEF x
<1> QED
  BY <1>3, <1>4

LEMMA Requested ==
    ASSUME AuthorizationInv, NEW b \in Browsers, NEW f \in Flows,
           NEW code \in Servers \cup {NoServer}
    PROVE  LET r == Request(b, f, code) IN
           /\ r \in Visit /\ r.step = "idle" /\ r.browser = b /\ r.state = f /\ ~r.took
           /\ r.place = (IF config.store = "session" THEN b ELSE cookie[b]) /\ Stated(r)
<1> DEFINE iss == IF code # NoServer /\ offers[code].iss THEN code ELSE NoServer
           place == IF config.store = "session" THEN b ELSE cookie[b]
           r == Request(b, f, code)
<1>1. iss \in Servers \cup {NoServer} /\ place \in Browsers \cup Flows \cup {NoFlow}
  BY DEF AuthorizationInv, CookiesHeld, Stands
<1>2. r = [Away EXCEPT !.browser = b, !.state = f, !.code = code, !.iss = iss, !.place = place]
  BY DEF Request
<1> HIDE DEF iss, place, r
<1>3. /\ r \in Visit /\ r.step = "idle" /\ r.browser = b /\ r.state = f /\ ~r.took
      /\ r.place = place /\ r.iss = iss /\ r.code = code
  BY <1>1, <1>2, NothingRequested DEF Away, Visit
<1>4. Stated(r)
  BY <1>3 DEF Stated, iss
<1> QED
  BY <1>3, <1>4 DEF r, place

\* An entry found is one its own browser left.
LEMMA FoundByItsBrowser ==
    ASSUME AuthorizationInv, NEW b \in Browsers, NEW f \in Flows,
           NEW code \in Servers \cup {NoServer}, NEW e \in Found(Request(b, f, code))
    PROVE  GoodEntry(e) /\ e \in pending /\ e.by = f /\ Stands(f, b)
<1> DEFINE r == Request(b, f, code)
<1>1. e \in pending /\ e.place = r.place /\ e.by = r.state
  BY DEF Found
<1>2. r.state = f /\ r.place = (IF config.store = "session" THEN b ELSE cookie[b])
  BY Requested
<1> HIDE DEF r
<1>3. GoodEntry(e)
  BY <1>1 DEF AuthorizationInv, PendingHeld
<1>4. flow[f].browser = b
  <2>1. CASE config.store = "session"
    BY <1>1, <1>2, <1>3, <2>1 DEF GoodEntry
  <2>2. CASE config.store # "session"
    <3>1. Stands(cookie[b], flow[f].browser)
      BY <1>1, <1>2, <1>3, <2>2 DEF GoodEntry
    <3>2. Stands(cookie[b], b)
      BY <3>1, Constants DEF AuthorizationInv, CookiesHeld, Stands
    <3> QED
      BY <3>1, <3>2 DEF Stands
  <2> QED
    BY <2>1, <2>2
<1> QED
  BY <1>1, <1>2, <1>3, <1>4 DEF Stands, GoodEntry

LEMMA InvArrive ==
    ASSUME AuthorizationInv, NEW v \in Visits, NEW b \in Browsers, NEW f \in Flows,
           NEW code \in Servers \cup {NoServer}, Arrive(v, b, f, code)
    PROVE  AuthorizationInv'
<1> DEFINE r == Request(b, f, code)
<1>1. /\ visit[v].step = "idle" /\ visit[v].state = NoFlow
      /\ Settled /\ UNCHANGED <<clients, shared, flow, cookie, sets>>
      /\ sets \subseteq sets' /\ \A t \in sets' : OwnRequest(t)
  BY DEF Arrive, AuthorizationInv, VisitsHeld, GoodVisit, Away, SetsHeld, Settled,
     setting, world
<1>2. /\ r \in Visit /\ r.step = "idle" /\ r.browser = b /\ r.state = f /\ ~r.took /\ Stated(r)
  BY Requested
<1>3. \A e \in Found(r) : GoodEntry(e) /\ e \in pending /\ e.by = f /\ Stands(f, b)
  BY FoundByItsBrowser
<1>4. TakeFromMemory(v, r) \/ GetFromSession(v, r)
  BY DEF Arrive
<1> HIDE DEF r
<1>5. LET x == Over([r EXCEPT !.browser = NoFlow], "refused") IN
      GoodVisit(x) /\ x.state = f /\ ~x.took
  <2> DEFINE x == Over([r EXCEPT !.browser = NoFlow], "refused")
  <2>1. x \in Visit /\ x.step = "refused" /\ x.state = f /\ ~x.took
    BY <1>2, NothingRequested DEF Over, Away, Visit
  <2> HIDE DEF x
  <2>2. GoodVisit(x)
    BY <2>1 DEF GoodVisit
  <2> QED
    BY <2>1, <2>2 DEF x
<1>6. ASSUME visit' = [visit EXCEPT ![v] = Over([r EXCEPT !.browser = NoFlow], "refused")],
             pending' \subseteq pending, \A e \in pending \ pending' : e.by = f
      PROVE  AuthorizationInv'
  BY <1>1, <1>5, <1>6, VisitStep
<1>7. CASE TakeFromMemory(v, r)
  <2>1. /\ config.store = "memory" /\ pending' = pending \ Found(r)
        /\ pending' \subseteq pending /\ \A e \in pending \ pending' : e.by = f
    BY <1>3, <1>7 DEF TakeFromMemory, LeftAfterTake
  <2>2. ASSUME NEW e \in Found(r), Honoured(e, now),
               visit' = [visit EXCEPT ![v] = Exchange(r, e)]
        PROVE  AuthorizationInv'
    <3>1. GoodEntry(e) /\ e \in pending /\ e.by = f /\ Stands(f, b)
      BY <1>3, <2>2
    <3> DEFINE x == Exchange(r, e)
    <3>2. GoodVisit(x) /\ x.state = f /\ x.took
      BY <1>2, <2>2, <3>1, Exchanged
    <3>3. \A o \in pending' : o.by # f
      BY <2>1, <2>2, <3>1 DEF AuthorizationInv, PendingHeld
    <3>4. \A w \in Completing \ {v} : visit[w].state # f
      BY <2>1, <3>1 DEF AuthorizationInv, TakenOnce
    <3>5. visit' = [visit EXCEPT ![v] = x]
      BY <2>2
    <3> HIDE DEF x
    <3> QED
      BY <1>1, <2>1, <3>2, <3>3, <3>4, <3>5, VisitStep
  <2> QED
    BY <1>6, <1>7, <2>1, <2>2 DEF TakeFromMemory
<1>8. CASE GetFromSession(v, r)
  <2>1. config.store = "session" /\ pending' = pending
    BY <1>8 DEF GetFromSession
  <2>2. ASSUME NEW e \in Found(r), visit' = [visit EXCEPT ![v] = [r EXCEPT !.step = "remove",
                                                                       !.entry = e]]
        PROVE  AuthorizationInv'
    <3> DEFINE x == [r EXCEPT !.step = "remove", !.entry = e]
    <3>1. GoodEntry(e) /\ e.by = f /\ Stands(f, b) /\ e \in Entry
      BY <1>3, <2>2 DEF GoodEntry
    <3>2. /\ x \in Visit /\ x.step = "remove" /\ x.entry = e /\ x.state = f /\ ~x.took
          /\ x.browser = b /\ x.code = r.code /\ x.iss = r.iss
      BY <1>2, <3>1 DEF Visit
    <3>3. visit' = [visit EXCEPT ![v] = x]
      BY <2>2
    <3> HIDE DEF x
    <3>4. Stated(x)
      BY <1>2, <3>2 DEF Stated
    <3>5. GoodVisit(x)
      BY <2>1, <3>1, <3>2, <3>4 DEF GoodVisit
    <3> QED
      BY <1>1, <2>1, <3>2, <3>3, <3>5, VisitStep
  <2> QED
    BY <1>6, <1>8, <2>1, <2>2 DEF GetFromSession
<1> QED
  BY <1>4, <1>7, <1>8

LEMMA InvRemoveFromSession ==
    ASSUME AuthorizationInv, NEW v \in Visits, RemoveFromSession(v)
    PROVE  AuthorizationInv'
<1> DEFINE r == visit[v]
           x == Exchange(r, r.entry)
<1>1. /\ r.step = "remove" /\ pending' = pending \ Found(r) /\ visit' = [visit EXCEPT ![v] = x]
      /\ Settled /\ UNCHANGED <<clients, shared, flow, cookie, sets>>
      /\ sets \subseteq sets' /\ \A t \in sets' : OwnRequest(t)
  BY DEF RemoveFromSession, AuthorizationInv, SetsHeld, Settled, setting, world
<1>2. GoodVisit(r)
  BY DEF AuthorizationInv, VisitsHeld
<1> HIDE DEF r
<1>3. /\ r \in Visit /\ config.store = "session" /\ GoodEntry(r.entry) /\ Stated(r)
      /\ r.entry.by = r.state /\ Stands(r.state, r.browser)
  BY <1>1, <1>2 DEF GoodVisit
<1>4. GoodVisit(x) /\ x.state = r.state
  BY <1>1, <1>3, Exchanged
<1>5. pending' \subseteq pending /\ \A e \in pending \ pending' : e.by = r.state
  BY <1>1 DEF Found
<1> HIDE DEF x
<1> QED
  BY <1>1, <1>3, <1>4, <1>5, VisitStep DEF r

LEMMA InvCodeExchanged ==
    ASSUME AuthorizationInv, NEW v \in Visits, CodeExchanged(v)
    PROVE  AuthorizationInv'
<1> DEFINE r == visit[v]
<1>1. /\ r.step = "token" /\ pending' = pending
      /\ Settled /\ UNCHANGED <<clients, shared, flow, cookie>>
  BY DEF CodeExchanged, Settled, setting, world
<1>2. PICK step \in {"saved", "refused"} :
        /\ visit' = [visit EXCEPT ![v] = Over(r, step)]
        /\ sets' = sets \/ sets' = sets \cup {r.request}
  BY DEF CodeExchanged
<1>3. GoodVisit(r) /\ OwnRequest(r.request)
  BY <1>1 DEF AuthorizationInv, VisitsHeld, GoodVisit, Posted
<1>4. sets \subseteq sets' /\ \A t \in sets' : OwnRequest(t)
  BY <1>2, <1>3 DEF AuthorizationInv, SetsHeld
<1> DEFINE x == Over(r, step)
<1>5. v \in Completing <=> r.took
  BY DEF Completing
<1>6. visit' = [visit EXCEPT ![v] = x] /\ visit[v].state = r.state
  BY <1>2
<1>7. r.took /\ config.store = "memory" =>
        /\ \A e \in pending' : e.by # r.state
        /\ \A w \in Completing \ {v} : visit[w].state # r.state
  BY <1>1, <1>5 DEF AuthorizationInv, TakenOnce
<1> HIDE DEF r
<1>8. /\ x \in Visit /\ x.step = step /\ x.state = r.state /\ x.browser = r.browser
      /\ x.at = r.at /\ (x.took <=> r.took)
  BY <1>3, NothingRequested, ZenonT(60) DEF Over, Away, Visit, GoodVisit
<1> HIDE DEF x
<1>9. GoodVisit(x)
  BY <1>3, <1>8 DEF GoodVisit
<1> QED
  BY <1>1, <1>4, <1>6, <1>7, <1>8, <1>9, VisitStep

(* ---------------- the world around ---------------- *)

LEMMA InvRedeclare == ASSUME AuthorizationInv, Redeclare PROVE AuthorizationInv'
<1>1. PICK s \in Servers \ {resource.declares} : resource' = [resource EXCEPT !.declares = s]
  BY DEF Redeclare
<1>2. /\ declared' = declared \cup {resource'.declares}
      /\ UNCHANGED <<config, offers, clients, shared, flow, visit, pending, cookie, sets, now>>
  BY DEF Redeclare, setting, stored
<1>3. /\ resource'.declares = s /\ resource'.at = resource.at
      /\ resource' \in [at : {"named", "inserted", "root", "nowhere"}, declares : Servers]
  BY <1>1 DEF AuthorizationInv, SettingHeld
<1>4. Trusted \subseteq Trusted'
  BY <1>2, <1>3 DEF Trusted
<1>5. SettingHeld' /\ SetsHeld' /\ CookiesHeld'
  BY <1>2, <1>3 DEF AuthorizationInv, SettingHeld, SetsHeld, CookiesHeld, Stands
<1>6. ClientsHeld'
  BY <1>2, <1>4 DEF AuthorizationInv, ClientsHeld, GoodClient
<1>7. FlowsHeld'
  <2>1. ASSUME NEW f, NEW x, GoodFlow(f, x) PROVE GoodFlow(f, x)'
    BY <1>2, <1>3, <1>4, <2>1 DEF GoodFlow
  <2> QED
    BY <1>2, <2>1 DEF AuthorizationInv, FlowsHeld
<1>8. GatesHeld' /\ TakenOnce' /\ NoFlowIsLost'
  BY <1>2 DEF AuthorizationInv, GatesHeld, Gated, ClientOf, Usable, TakenOnce, Completing,
     NoFlowIsLost, At
<1>9. PendingHeld'
  BY <1>2, EntryStays DEF AuthorizationInv, PendingHeld
<1>10. VisitsHeld'
  BY <1>2, VisitStays DEF AuthorizationInv, VisitsHeld
<1> QED
  BY <1>5, <1>6, <1>7, <1>8, <1>9, <1>10 DEF AuthorizationInv

LEMMA InvTick == ASSUME AuthorizationInv, Tick PROVE AuthorizationInv'
<1>1. /\ now' = now + 1 /\ now \in Nat
      /\ UNCHANGED <<config, offers, resource, declared, clients, shared, flow, visit, pending,
                     cookie, sets>>
  BY DEF Tick, setting, stored, AuthorizationInv, SettingHeld
<1>2. SettingHeld' /\ SetsHeld' /\ ClientsHeld'
  BY <1>1 DEF AuthorizationInv, SettingHeld, SetsHeld, ClientsHeld, GoodClient, Trusted
<1>3. FlowsHeld'
  <2>1. ASSUME NEW f, NEW x, GoodFlow(f, x) PROVE GoodFlow(f, x)'
    <3>1. x.savedAt \in Nat
      BY <2>1 DEF GoodFlow, Flow
    <3>2. x.savedAt <= now => x.savedAt <= now'
      BY <1>1, <3>1
    <3>3. Trusted' = Trusted
      BY <1>1 DEF Trusted
    <3> QED
      BY <1>1, <2>1, <3>2, <3>3 DEF GoodFlow
  <2> QED
    BY <1>1, <2>1 DEF AuthorizationInv, FlowsHeld
<1>4. GatesHeld'
  <2>1. ASSUME NEW k, GoodClient(k), NEW s, ~Usable(k, s) PROVE ~Usable(k, s)'
    BY <1>1, <2>1, Constants DEF Usable, GoodClient, Client, Record
  <2>2. ASSUME NEW f \in Flows, flow[f].step \in Busy PROVE GoodClient(ClientOf(f))
    BY <2>2, Held
  <2>3. ASSUME NEW f \in Flows PROVE Gated(f, flow[f], ClientOf(f))'
    BY <1>1, <2>1, <2>2 DEF AuthorizationInv, GatesHeld, Gated, ClientOf, Busy, Behind
  <2> QED
    BY <2>3 DEF GatesHeld
<1>5. Rest'
  BY <1>1, Parts, RestStays DEF AuthorizationInv, Fixed, CookiesHeld
<1> QED
  BY <1>2, <1>3, <1>4, <1>5 DEF AuthorizationInv, Rest

(* ---------------- the specification ---------------- *)

LEMMA InvInit == Init => AuthorizationInv
<1> SUFFICES ASSUME Init PROVE AuthorizationInv
  OBVIOUS
<1>1. resource \in [at : {"named", "inserted", "root", "nowhere"}, declares : Servers]
  BY SettingAssumption DEF Init
<1>2. SettingHeld /\ SetsHeld
  BY <1>1 DEF Init, SettingHeld, SetsHeld
<1>3. ClientsHeld
  BY DEF Init, ClientsHeld, GoodClient, NewClient, NoRecord, Client, Record, Trusted
<1>4. /\ Idle \in Flow /\ Idle.found = NoServer /\ Idle.step = "idle" /\ Idle.cookie = NoFlow
      /\ "idle" \notin Busy
  BY NothingRequested DEF Idle, Flow, Busy, Behind, Discovered
<1>5. FlowsHeld /\ GatesHeld
  <2>1. \A f : GoodFlow(f, Idle)
    BY <1>4 DEF GoodFlow, Trusted, Discovered, Busy
  <2>2. \A f, k : Gated(f, Idle, k)
    BY <1>4 DEF Gated, Behind
  <2> QED
    BY <2>1, <2>2 DEF Init, FlowsHeld, GatesHeld
<1>6. CookiesHeld
  BY <1>4 DEF Init, CookiesHeld
<1>7. PendingHeld
  BY FS_EmptySet DEF Init, PendingHeld
<1>8. VisitsHeld
  <2>1. GoodVisit(Away)
    BY NothingRequested DEF GoodVisit, Away, Visit
  <2> QED
    BY <2>1 DEF Init, VisitsHeld
<1>9. TakenOnce
  BY DEF Init, TakenOnce, Completing, Away
<1>10. NoFlowIsLost
  BY <1>4 DEF Init, NoFlowIsLost, At
<1> QED
  BY <1>2, <1>3, <1>5, <1>6, <1>7, <1>8, <1>9, <1>10 DEF AuthorizationInv

LEMMA InvUnchanged == ASSUME AuthorizationInv, UNCHANGED vars PROVE AuthorizationInv'
<1>1. UNCHANGED <<config, offers, resource, declared, clients, shared, flow, visit, pending,
                  cookie, sets, now>>
  BY DEF vars
<1>2. SettingHeld' /\ SetsHeld' /\ CookiesHeld' /\ GatesHeld'
  BY <1>1 DEF AuthorizationInv, SettingHeld, SetsHeld, CookiesHeld, Stands, GatesHeld,
     Gated,
     ClientOf, Usable
<1>3. ClientsHeld' /\ FlowsHeld'
  BY <1>1, GoodClientStays, GoodFlowStays
  DEF AuthorizationInv, ClientsHeld, FlowsHeld, Settled
<1>4. PendingHeld' /\ VisitsHeld'
  BY <1>1, EntryStays, VisitStays DEF AuthorizationInv, PendingHeld, VisitsHeld
<1>5. TakenOnce' /\ NoFlowIsLost'
  BY <1>1 DEF AuthorizationInv, TakenOnce, Completing, NoFlowIsLost, At
<1> QED
  BY <1>2, <1>3, <1>4, <1>5 DEF AuthorizationInv

LEMMA InvNext == AuthorizationInv /\ [Next]_vars => AuthorizationInv'
<1> SUFFICES ASSUME AuthorizationInv, [Next]_vars PROVE AuthorizationInv'
  OBVIOUS
<1>1. ASSUME NEW f \in Flows, Start(f) PROVE AuthorizationInv'
  BY <1>1, InvStartAuthorization, InvStartOther DEF Start
<1>2. ASSUME NEW f \in Flows, GoesOn(f) PROVE AuthorizationInv'
  BY <1>2, InvDiscover, InvAcquireToDiscover, InvAskResource, InvAskServer, InvAuthorize,
     InvAcquireToRegister, InvRegister, InvRequestToken, InvTokenAnswered, InvGiveUpWaiting
  DEF GoesOn
<1>3. ASSUME NEW v \in Visits, Return(v) PROVE AuthorizationInv'
  BY <1>3, InvArrive, InvRemoveFromSession, InvCodeExchanged DEF Return
<1> QED
  BY <1>1, <1>2, <1>3, InvRedeclare, InvTick, InvUnchanged DEF Next

\* What is known of flows, clients, cookies, entries and visits holds however
\* flows interleave over a shared client, fail, and are called back (discover,
\* resolveRegistration, handleRedirect, handleCallback and the stores).
THEOREM AuthorizationInvariant == Spec => []AuthorizationInv
BY InvInit, InvNext, PTL DEF Spec

\* Credentials, refresh tokens and the codes of servers that state their iss go
\* to the server they belong to, for any number of servers and however often the
\* resource changes its mind between the steps (RequireConfiguredIssuer,
\* RequireSameIssuer, validateIssuer).
THEOREM CredentialsStay == Spec => []CredentialsStayWithTheirServer
<1>1. AuthorizationInv => CredentialsStayWithTheirServer
  <2> SUFFICES ASSUME AuthorizationInv, NEW r \in Sent
               PROVE  Posted(r)
    BY DEF CredentialsStayWithTheirServer, Posted, OwnRequest, Owned
  <2>1. CASE \E f \in Flows : At(f, "token") /\ r = flow[f].request
    BY <2>1 DEF At, AuthorizationInv, FlowsHeld, GoodFlow, Posted
  <2>2. CASE \E v \in Visits : visit[v].step = "token" /\ r = visit[v].request
    BY <2>2 DEF AuthorizationInv, VisitsHeld, GoodVisit
  <2> QED
    BY <2>1, <2>2 DEF Sent
<1> QED
  BY <1>1, AuthorizationInvariant, PTL

\* A pending authorization completes for the browser that began it, once and in
\* time where the store can tell, and is never lost but to age or to as many
\* younger ones as the store holds (TakePending, SavePending, dropLapsed).
THEOREM CallbacksComplete == Spec => []CallbackCompletesItsOwnFlow
<1>1. AuthorizationInv => HandedToItsBrowser
  <2> SUFFICES ASSUME AuthorizationInv, NEW v \in Completing
               PROVE  /\ visit[v].browser = flow[visit[v].state].browser
                      /\ config.store = "memory" =>
                            /\ visit[v].at < flow[visit[v].state].savedAt + PendingLifetime
                            /\ \A w \in Completing \ {v} : visit[w].state # visit[v].state
    BY DEF HandedToItsBrowser
  <2>1. GoodVisit(visit[v]) /\ visit[v].took
    BY DEF AuthorizationInv, VisitsHeld, Completing
  <2> QED
    BY <2>1 DEF GoodVisit, Stands, AuthorizationInv, TakenOnce
<1>2. AuthorizationInv => CallbackCompletesItsOwnFlow
  BY <1>1 DEF AuthorizationInv, CallbackCompletesItsOwnFlow
<1> QED
  BY <1>2, AuthorizationInvariant, PTL

\* No failure of the network sends a flow to another server than the resource
\* declared, and its origin stands in only where there is no document to find
\* (resourceMetadata).
THEOREM ResourceIsAsked == Spec => []ResourceDecides
<1>1. AuthorizationInv => ResourceDecides
  BY DEF AuthorizationInv, FlowsHeld, GoodFlow, ResourceDecides, Trusted
<1> QED
  BY <1>1, AuthorizationInvariant, PTL

(* ---------------- the records ---------------- *)

RecordKept ==
    \A c \in Flows : clients'[c].record # clients[c].record
                        => ~Usable(clients[c], clients'[c].record.of)

\* A client that becomes k keeps its record, loses it with itself, or gets one
\* that the old one could not stand in for.
LEMMA RecordStep ==
    ASSUME AuthorizationInv, NEW c \in Flows, NEW k,
           \/ k.record = clients[c].record
           \/ k.record = NoRecord
           \/ ~Usable(clients[c], k.record.of),
           clients' = [clients EXCEPT ![c] = k]
    PROVE  RecordKept
<1>1. GoodClient(clients[c]) /\ clients = [g \in Flows |-> clients[g]]
  BY DEF AuthorizationInv, ClientsHeld
<1>2. k.record # clients[c].record => ~Usable(clients[c], k.record.of)
  BY <1>1 DEF GoodClient, Usable, NoRecord
<1>3. /\ clients'[c] = k
      /\ \A g \in Flows \ {c} : clients'[g] = clients[g]
  BY <1>1
<1> QED
  BY <1>2, <1>3 DEF RecordKept

LEMMA RecordLeft ==
    ASSUME AuthorizationInv, NEW c \in Flows, NEW k,
           k.record = clients[c].record \/ ~Usable(clients[c], k.record.of),
           clients' = [clients EXCEPT ![c] = Left(k)]
    PROVE  RecordKept
<1>1. Left(k) = k \/ Left(k).record = NoRecord
  BY DEF Left, NewClient
<1> QED
  BY <1>1, RecordStep

LEMMA RecordSame == UNCHANGED clients => RecordKept
BY DEF RecordKept

\* What a flow does with its client: as before, with the gate taken or released,
\* or rid of its gate and left.
LEMMA RecordOf ==
    ASSUME AuthorizationInv, NEW f \in Flows, flow[f].step \in Busy
    PROVE  LET k == ClientOf(f)
               Becomes(x) == clients' = [clients EXCEPT ![flow[f].client] = x]
           IN  /\ Becomes(k) \/ Becomes(Left(k)) => RecordKept
               /\ Becomes([k EXCEPT !.gate = f]) => RecordKept
               /\ Becomes(Left(Released(k))) => RecordKept
<1>1. GoodClient(ClientOf(f)) /\ flow[f].client \in Flows
  BY Held
<1>2. [ClientOf(f) EXCEPT !.gate = f].record = ClientOf(f).record
  BY <1>1 DEF GoodClient, Client
<1>3. Released(ClientOf(f)).record = ClientOf(f).record
  BY <1>1 DEF GoodClient, Client, Released
<1> QED
  BY <1>1, <1>2, <1>3, RecordStep, RecordLeft DEF ClientOf

LEMMA RecordRedirect ==
    ASSUME NEW f, NEW id, NEW secret, NEW k, Redirect(f, id, secret, k)
    PROVE  clients' = [clients EXCEPT ![flow[f].client] = Left(k)]
BY DEF Redirect, Fail

LEMMA RecordRegister ==
    ASSUME AuthorizationInv, NEW f \in Flows, Register(f)
    PROVE  RecordKept
<1>1. flow[f].step = "register" /\ flow[f].step \in Busy
  BY DEF Register, At, Busy, Behind
<1>2. /\ GoodClient(ClientOf(f)) /\ flow[f].client \in Flows
      /\ ~Usable(ClientOf(f), flow[f].found)
  BY <1>1, Held DEF Gated
<1>3. ASSUME NEW expires,
             clients' = [clients EXCEPT ![flow[f].client] =
                Left(Released([ClientOf(f) EXCEPT !.record =
                        [of |-> flow[f].found, at |-> now, expires |-> expires]]))]
      PROVE  RecordKept
  <2> DEFINE k == Released([ClientOf(f) EXCEPT !.record =
                        [of |-> flow[f].found, at |-> now, expires |-> expires]])
  <2>1. k.record.of = flow[f].found
    BY <1>2 DEF GoodClient, Client, Released
  <2>2. clients' = [clients EXCEPT ![flow[f].client] = Left(k)]
    BY <1>3
  <2> HIDE DEF k
  <2> QED
    BY <1>2, <2>1, <2>2, RecordLeft DEF ClientOf
<1>4. CASE FailBehindGate(f)
  BY <1>1, <1>4, RecordOf DEF FailBehindGate, Fail
<1>5. CASE \E expires \in {0, now + 1} :
              Redirect(f, Registered(flow[f].found), Registered(flow[f].found),
                       Released([ClientOf(f) EXCEPT !.record =
                          [of |-> flow[f].found, at |-> now, expires |-> expires]]))
  BY <1>3, <1>5, RecordRedirect
<1> QED
  BY <1>4, <1>5 DEF Register

LEMMA RecordGoesOn ==
    ASSUME AuthorizationInv, NEW f \in Flows, GoesOn(f)
    PROVE  RecordKept
<1>1. ASSUME flow[f].step \in Busy, Fail(f, ClientOf(f)) \/ FailBehindGate(f) PROVE RecordKept
  BY <1>1, RecordOf DEF FailBehindGate, Fail
<1>2. CASE Discover(f)
  BY <1>2, RecordSame DEF Discover
<1>3. CASE AcquireToDiscover(f)
  <2>1. flow[f].step \in Busy
    BY <1>3 DEF AcquireToDiscover, At, Busy
  <2> QED
    BY <1>3, <2>1, RecordSame, RecordOf DEF AcquireToDiscover, GoOn
<1>4. CASE AskResource(f)
  <2>1. flow[f].step \in Busy
    BY <1>4 DEF AskResource, Asking, Busy, Behind
  <2> QED
    BY <1>1, <1>4, <2>1, RecordSame, RecordOf DEF AskResource, GoOn
<1>5. CASE AskServer(f)
  <2>1. flow[f].step \in Busy
    BY <1>5 DEF AskServer, At, Busy, Behind
  <2>2. ASSUME GoOn(f, "discovered", Released([ClientOf(f) EXCEPT !.discovered = flow[f].found,
                                                                !.discoveredAt = now]))
        PROVE  RecordKept
    <3> DEFINE k == Released([ClientOf(f) EXCEPT !.discovered = flow[f].found,
                                                 !.discoveredAt = now])
    <3>1. GoodClient(ClientOf(f)) /\ flow[f].client \in Flows
      BY <2>1, Held
    <3>2. k.record = ClientOf(f).record
      BY <3>1 DEF GoodClient, Client, Released
    <3>3. clients' = [clients EXCEPT ![flow[f].client] = k]
      BY <2>2 DEF GoOn
    <3> HIDE DEF k
    <3> QED
      BY <3>1, <3>2, <3>3, RecordStep DEF ClientOf
  <2> QED
    BY <1>1, <1>5, <2>1, <2>2 DEF AskServer
<1>6. CASE Authorize(f)
  <2>1. flow[f].step \in Busy
    BY <1>6 DEF Authorize, At, Busy, Discovered
  <2>2. ASSUME NEW id, NEW secret, Redirect(f, id, secret, ClientOf(f)) PROVE RecordKept
    <3>1. clients' = [clients EXCEPT ![flow[f].client] = Left(ClientOf(f))]
      BY <2>2, RecordRedirect
    <3> QED
      BY <2>1, <3>1, RecordOf
  <2>3. ASSUME GoOn(f, "wait to register", ClientOf(f)) PROVE RecordKept
    BY <2>1, <2>3, RecordOf DEF GoOn
  <2> QED
    BY <1>1, <1>6, <2>1, <2>2, <2>3 DEF Authorize
<1>7. CASE AcquireToRegister(f)
  <2>1. flow[f].step \in Busy
    BY <1>7 DEF AcquireToRegister, At, Busy, Discovered
  <2>2. ASSUME NEW id, NEW secret, Redirect(f, id, secret, ClientOf(f)) PROVE RecordKept
    <3>1. clients' = [clients EXCEPT ![flow[f].client] = Left(ClientOf(f))]
      BY <2>2, RecordRedirect
    <3> QED
      BY <2>1, <3>1, RecordOf
  <2>3. ASSUME GoOn(f, "register", [ClientOf(f) EXCEPT !.gate = f]) PROVE RecordKept
    BY <2>1, <2>3, RecordOf DEF GoOn
  <2> QED
    BY <1>1, <1>7, <2>1, <2>2, <2>3 DEF AcquireToRegister
<1>8. CASE RequestToken(f)
  <2>1. flow[f].step \in Busy
    BY <1>8 DEF RequestToken, At, Busy, Discovered
  <2> QED
    BY <1>1, <1>8, <2>1, RecordSame DEF RequestToken
<1>9. CASE TokenAnswered(f)
  <2>1. flow[f].step \in Busy
    BY <1>9 DEF TokenAnswered, At, Busy, Discovered
  <2> QED
    BY <1>1, <1>9, <2>1 DEF TokenAnswered
<1>10. CASE GiveUpWaiting(f)
  <2>1. flow[f].step \in Busy
    BY <1>10 DEF GiveUpWaiting, Busy, Discovered
  <2> QED
    BY <1>1, <1>10, <2>1 DEF GiveUpWaiting
<1> QED
  BY <1>2, <1>3, <1>4, <1>5, <1>6, <1>7, <1>8, <1>9, <1>10, RecordRegister DEF GoesOn

LEMMA RecordNext == AuthorizationInv /\ [Next]_vars => RecordKept
<1> SUFFICES ASSUME AuthorizationInv, [Next]_vars PROVE RecordKept
  OBVIOUS
<1>1. ASSUME NEW f \in Flows, Start(f) PROVE UNCHANGED clients
  BY <1>1 DEF Start, StartAuthorization, StartOther
<1>2. ASSUME NEW v \in Visits, Return(v) PROVE UNCHANGED clients
  BY <1>2 DEF Return, Arrive, RemoveFromSession, CodeExchanged
<1>3. Redeclare \/ Tick \/ UNCHANGED vars => UNCHANGED clients
  BY DEF Redeclare, Tick, vars
<1> QED
  BY <1>1, <1>2, <1>3, RecordSame, RecordGoesOn DEF Next

\* A usable record is never replaced, whichever flows share the client and
\* however they fail or give up: the gate that resolveRegistration acquires
\* makes the second look at the record decide (registration, acquire).
THEOREM RecordsAreKept == Spec => RecordKeptWhileUsable
<1>1. AuthorizationInv /\ [Next]_vars
        => [\A c \in Flows : clients'[c].record # clients[c].record
                => ~Usable(clients[c], clients'[c].record.of)]_vars
  BY RecordNext DEF RecordKept
<1> QED
  BY <1>1, AuthorizationInvariant, PTL DEF Spec, RecordKeptWhileUsable
===============================================================================
