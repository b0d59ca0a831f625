----------------------------- MODULE Exchanges -----------------------------
(***************************************************************************)
(* What the client's protocol engine promises to everything built on it:   *)
(* requests are carried one at a time, each over one connection, under the *)
(* one credential that was settled for it, and a reply is stamped with the *)
(* connection it travelled over and the authorization context it was asked *)
(* in.  How a connection comes to stand (handshakes, retries, versions,    *)
(* expired sessions) is not described here: ClientProtocol does, and       *)
(* implements this module.  ToolCatalogue is built on top of it.           *)
(***************************************************************************)
EXTENDS Naturals

CONSTANTS
    Callers,            \* goroutines making requests
    Credentials,        \* values the token callback may resolve to
    Transport,          \* "http" presents a credential, "stdio" has none
    NoCaller,
    NoCredential,
    MaxGeneration,      \* bound: handshakes settled
    MaxAuthorization    \* bound: authorization contexts handed out

ASSUME CallersAssumption == NoCaller \notin Callers
ASSUME CredentialsAssumption == NoCredential \notin Credentials
ASSUME TransportAssumption == Transport \in {"http", "stdio"}
ASSUME BoundsAssumption == MaxGeneration \in Nat /\ MaxAuthorization \in Nat \ {0}

VARIABLES
    cred,               \* what the token callback would resolve now
    bearer,             \* the credential settled for the exchange in progress
    authorization,      \* the number of the context it belongs to
    holder,             \* who holds the exchange gate
    ready,              \* it has settled the credential its frames present
    last,               \* the link the last completed handshake settled
    under,              \* the link the exchange in progress travels over
    reply               \* the link each caller's last exchange reported, if any

exchangeVars == <<cred, bearer, authorization, holder, ready, last, under, reply>>

Link == [generation    : 0..MaxGeneration,
         authorization : 0..MaxAuthorization,
         cred          : Credentials \cup {NoCredential}]

NoLink == [generation |-> 0, authorization |-> 0, cred |-> NoCredential]

ExchangesTypeOK ==
    /\ cred \in Credentials
    /\ bearer \in Credentials \cup {NoCredential}
    /\ authorization \in 0..MaxAuthorization
    /\ holder \in Callers \cup {NoCaller}
    /\ ready \in BOOLEAN
    /\ last \in Link
    /\ under \in Link
    /\ reply \in [Callers -> Link]

ExchangesInit ==
    /\ cred \in Credentials
    /\ bearer = NoCredential
    /\ authorization = 0
    /\ holder = NoCaller
    /\ ready = FALSE
    /\ last = NoLink
    /\ under = NoLink
    /\ reply = [c \in Callers |-> NoLink]

\* The context of the credential resolved now: what settling it would return.
ContextNow ==
    IF Transport = "stdio" \/ bearer = cred THEN authorization ELSE authorization + 1

SettleCredential ==
    /\ authorization' = ContextNow
    /\ bearer' = IF Transport = "stdio" THEN bearer ELSE cred

\* The token callback starts resolving to another credential.
Present(k) ==
    /\ authorization < MaxAuthorization
    /\ k # cred
    /\ cred' = k
    /\ UNCHANGED <<bearer, authorization, holder, ready, last, under, reply>>

Take(c) ==
    /\ holder = NoCaller
    /\ holder' = c
    /\ ready' = FALSE
    /\ reply' = [reply EXCEPT ![c] = NoLink]
    /\ UNCHANGED <<cred, bearer, authorization, last, under>>

\* The exchange settles its credential.  It may go on over the link that
\* stands only when that link belongs to the context it settled.
Authorize(c) ==
    /\ holder = c
    /\ ~ready
    /\ under = NoLink
    /\ ready' = TRUE
    /\ SettleCredential
    /\ under' \in {NoLink} \cup {l \in {last} : l.authorization = authorization'}
    /\ UNCHANGED <<cred, holder, last, reply>>

\* A handshake completes, presenting the credential already settled.
Settle(c) ==
    /\ holder = c
    /\ ready
    /\ under = NoLink
    /\ last.generation < MaxGeneration
    /\ last' = [generation    |-> last.generation + 1,
                authorization |-> authorization,
                cred          |-> bearer]
    /\ under' = last'
    /\ UNCHANGED <<cred, bearer, authorization, holder, ready, reply>>

\* The connection turns out to be no good: nothing was done over it.  It is
\* settled again under the credential in hand, or the exchange starts over.
Lose(c) ==
    /\ holder = c
    /\ under # NoLink
    /\ under' = NoLink
    /\ ready' \in {ready, FALSE}
    /\ UNCHANGED <<cred, bearer, authorization, holder, last, reply>>

Reply(c) ==
    /\ holder = c
    /\ under # NoLink
    /\ reply' = [reply EXCEPT ![c] = under]
    /\ under' = NoLink
    /\ holder' = NoCaller
    /\ ready' = FALSE
    /\ UNCHANGED <<cred, bearer, authorization, last>>

\* The exchange ends with an error; its credential may just have been settled.
Fail(c) ==
    /\ holder = c
    /\ \/ UNCHANGED <<authorization, bearer>>
       \/ SettleCredential
    /\ under' = NoLink
    /\ holder' = NoCaller
    /\ ready' = FALSE
    /\ UNCHANGED <<cred, last, reply>>

ExchangesNext ==
    \/ \E k \in Credentials : Present(k)
    \/ \E c \in Callers :
          \/ Take(c) \/ Authorize(c) \/ Settle(c)
          \/ Lose(c) \/ Reply(c) \/ Fail(c)

ExchangesSpec == ExchangesInit /\ [][ExchangesNext]_exchangeVars

=============================================================================
