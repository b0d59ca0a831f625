--------------------------- MODULE ToolCatalogue ---------------------------
(***************************************************************************)
(* What a client keeps of the tools a server states, and the calls it      *)
(* mirrors from it: client/client.go and the paginated reading of          *)
(* client/methods.go, over the promises of Exchanges.                      *)
(*                                                                         *)
(* A listing is read a page at a time, each page in an exchange of its own *)
(* or all of them over the connection a call already holds, and recorded   *)
(* once the last has arrived.  The record races handshakes, other          *)
(* listings, the announcement that the catalogue changed, and time.        *)
(*                                                                         *)
(* Tool n is stated by page n; tool 0 is advertised by none.  A definition *)
(* is who stated it and when: its link, the server's revision, and the     *)
(* moment it goes stale.  Two such statements mirror the same headers only *)
(* if they are the same revision stated over the same link.                *)
(***************************************************************************)
EXTENDS Exchanges, Sequences, FiniteSets

CONSTANTS
    Readers,            \* goroutines calling ExcludedTools
    Pages,              \* pages in the server's catalogue
    Kinds,              \* subset of {"whole", "capped", "empty", "call"}
    Lifetimes,          \* lifetimes a page may state
    MaxRevision,        \* bound: changes of the server's catalogue
    MaxNow              \* bound: the clock

ASSUME CatalogueAssumption ==
    /\ Pages \in Nat \ {0}
    /\ Kinds \subseteq {"whole", "capped", "empty", "call"}
    /\ Lifetimes \subseteq Nat
    /\ MaxRevision \in Nat /\ MaxNow \in Nat

VARIABLES
    now,                \* the client's clock
    revision,           \* the revision of the catalogue the server would state
    pending,            \* revisions announced by notifications still in flight
    announced,          \* the latest revision whose announcement was read
    changes,            \* Client.changes
    catalogue,          \* Client.catalogue, whole being the pages it rests on
    excluded,           \* Client.excluded by who asked for it, and excludedFor
    work,               \* the locals of each caller's Tools or CallTool
    asking              \* the locals of each reader's ExcludedTools

serverVars == <<now, revision, pending, announced>>
clientVars == <<changes, catalogue, excluded>>
vars == <<exchangeVars, serverVars, clientVars, work, asking>>

Statement == [link     : Link,
              revision : 0..MaxRevision,
              until    : Nat]

NoStatement == [link |-> NoLink, revision |-> 0, until |-> 0]

\* A catalogue that states nothing.
Nothing(g) == [generation |-> g, tools |-> [n \in 1..Pages |-> NoStatement],
               whole |-> <<>>]

Idle == [kind |-> "none", step |-> "none", name |-> 0, changes |-> 0, tries |-> 1,
         generation |-> 0, pages |-> <<>>, composed |-> NoStatement,
         basis |-> {}, renders |-> TRUE, repeats |-> FALSE, rejected |-> {}]

NotAsking == [step |-> "none", authorization |-> 0, cred |-> NoCredential,
              settled |-> FALSE]

Init ==
    /\ ExchangesInit
    /\ now = 0
    /\ revision = 0
    /\ pending = {}
    /\ announced = 0
    /\ changes = 0
    /\ catalogue = Nothing(0)
    /\ excluded = [authorization |-> 0, cred |-> NoCredential]
    /\ work = [c \in Callers |-> Idle]
    /\ asking = [r \in Readers |-> NotAsking]

Listing(c) == work[c].kind \in {"whole", "capped", "empty"}
Calling(c) == work[c].kind = "call"

At(c, step) == work[c].step = step

\* The exchange of c has a connection to send over.
Standing(c) == holder = c /\ under # NoLink

-----------------------------------------------------------------------------
(* The catalogue, guarded by Client.mu: each of these is one critical       *)
(* section.                                                                 *)

\* Mutant: what was read over another connection is kept.
KeptAcrossConnections(cat, g) == [cat EXCEPT !.generation = g]

\* forgetOtherConnection.
Forget(cat, g) == IF cat.generation = g THEN cat ELSE Nothing(g)

\* Mutant: the whole of a listing stands for as long as its first page.
UntilFirst(pages) == pages[1].until

\* listing.staleAfter: the first of its pages to go stale.
WholeUntil(pages) ==
    CHOOSE t \in {pages[i].until : i \in DOMAIN pages} :
        \A i \in DOMAIN pages : t <= pages[i].until

\* listing.readOn: the connection of every page, or none of them.
ReadOn(pages) ==
    {g \in 1..MaxGeneration :
        pages # <<>> /\ \A i \in DOMAIN pages : pages[i].link.generation = g}

\* Mutant: a change announced while the listing was read is not noticed.
NeverOutdated(before) == FALSE

Outdated(before) == changes # before

\* What recordListing makes of the catalogue, for a listing of pages, of which it
\* carries those shown, set out at the count before and recorded while generation
\* g was read as standing.
Recorded(pages, shown, whole, g, before) ==
    LET kept == Forget(catalogue, g)
    IN  IF g \notin ReadOn(pages) \/ Outdated(before)
        THEN kept
        ELSE [kept EXCEPT
                !.tools = [n \in 1..Pages |->
                              IF n \in DOMAIN pages /\ n <= shown THEN pages[n]
                              ELSE IF whole THEN NoStatement ELSE @[n]],
                !.whole = IF whole THEN pages ELSE @]

\* Mutant: the names are filed under the credential presented by now.
ExcludedNow(pages) ==
    [authorization |-> ContextNow,
     cred          |-> IF pages = <<>> THEN NoCredential ELSE pages[1].link.cred]

\* excluded and excludedFor, after a listing of pages.
ExcludedOf(pages) ==
    LET asked == IF pages = <<>> THEN NoLink ELSE pages[1].link
    IN  [authorization |-> asked.authorization, cred |-> asked.cred]

\* What the catalogue states of a tool, as the statements it rests on.
Stated(cat, n) ==
    IF n # 0 /\ cat.tools[n] # NoStatement THEN {cat.tools[n]}
    ELSE {cat.whole[i] : i \in DOMAIN cat.whole}

\* statedFor: what is stated, and whether it still stands.
Known(cat, n) ==
    IF n # 0 /\ cat.tools[n] # NoStatement THEN now < cat.tools[n].until
    ELSE cat.whole # <<>> /\ now < WholeUntil(cat.whole)

-----------------------------------------------------------------------------
(* The world around the client.                                             *)

Tick ==
    /\ now < MaxNow
    /\ now' = now + 1
    /\ UNCHANGED <<exchangeVars, revision, pending, announced, clientVars, work, asking>>

ServerChanges ==
    /\ revision < MaxRevision
    /\ revision' = revision + 1
    /\ pending' = pending \cup {revision'}
    /\ UNCHANGED <<exchangeVars, now, announced, clientVars, work, asking>>

\* The holder of the exchange reads the announcement of revision r: every
\* definition kept is dropped (serverNotified).
Announced(r) ==
    /\ ready
    /\ r \in pending
    /\ pending' = pending \ {r}
    /\ announced' = IF r > announced THEN r ELSE announced
    /\ catalogue' = Nothing(catalogue.generation)
    /\ changes' = changes + 1
    /\ UNCHANGED <<exchangeVars, now, revision, excluded, work, asking>>

-----------------------------------------------------------------------------
(* Exchanges, as every caller drives them.                                  *)

Start(c) ==
    /\ work[c] = Idle
    /\ \E k \in Kinds, n \in 0..Pages :
          /\ k # "call" => n = 0
          /\ work' = [work EXCEPT ![c] =
                      [Idle EXCEPT !.kind = k, !.name = n,
                                   !.step = IF k = "empty" THEN "record" ELSE "ask",
                                   !.changes = IF k = "call" THEN 0 ELSE changes]]
    /\ UNCHANGED <<exchangeVars, serverVars, clientVars, asking>>

TakeGate(c) ==
    /\ At(c, "ask")
    /\ Take(c)
    /\ UNCHANGED <<serverVars, clientVars, work, asking>>

\* The caller's context is done while it waits for the gate.
Abandon(c) ==
    /\ At(c, "ask")
    /\ holder # c
    /\ work' = [work EXCEPT ![c] = Idle]
    /\ UNCHANGED <<exchangeVars, serverVars, clientVars, asking>>

\* A connection stands for the exchange: one that did, or a new one.
Connect(c) ==
    /\ At(c, "ask")
    /\ Authorize(c) \/ Settle(c)
    /\ UNCHANGED <<serverVars, clientVars, work, asking>>

\* The session expired or the version was refused: the attempt starts over.
StartOver(c) ==
    /\ Lose(c)
    /\ work' = [work EXCEPT ![c].step = "ask", ![c].composed = NoStatement,
                            ![c].basis = {}, ![c].renders = TRUE,
                            ![c].pages = IF Calling(c) THEN <<>> ELSE @]
    /\ UNCHANGED <<serverVars, clientVars, asking>>

\* The exchange fails, and the operation with it.
GiveUp(c) ==
    /\ Fail(c)
    /\ work' = [work EXCEPT ![c] = Idle]
    /\ UNCHANGED <<serverVars, clientVars, asking>>

Compose(c, step) ==
    /\ Standing(c)
    /\ work[c].composed = NoStatement
    /\ \E l \in Lifetimes :
          work' = [work EXCEPT
              ![c].step = step,
              ![c].composed = [link |-> under, revision |-> revision, until |-> now + l]]

Ends(c) == Fail(c) /\ UNCHANGED <<authorization, bearer>>

-----------------------------------------------------------------------------
(* Tools: listOn, readPages, recordListing.                                 *)

\* Mutant: a page after the first is asked for whoever is asking.
AnyTermsHold(c) == TRUE

\* Every page is asked for in the context the first one was.
TermsHold(c) ==
    work[c].pages # <<>> =>
        LET first == work[c].pages[1].link.authorization
        IN  first # 0 => under.authorization = first

\* The page is asked for, and the server puts it together.  Announcements may
\* still be read ahead of it.
AskPage(c) ==
    /\ Listing(c) /\ At(c, "ask")
    /\ TermsHold(c)
    /\ Compose(c, "asked")
    /\ UNCHANGED <<exchangeVars, serverVars, clientVars, asking>>

\* The page is refused before it is sent: the listing is read once more from
\* the start, under the credential now presented.
CredentialChanged(c) ==
    /\ Standing(c)
    /\ Listing(c) /\ At(c, "ask")
    /\ ~TermsHold(c)
    /\ Ends(c)
    /\ work' = [work EXCEPT ![c] = IF @.tries = 1 THEN [@ EXCEPT !.pages = <<>>, !.tries = 2]
                                   ELSE Idle]
    /\ UNCHANGED <<serverVars, clientVars, asking>>

\* A cap ends the listing at any page, the last one or not.
PageArrives(c) ==
    /\ Listing(c) /\ At(c, "asked")
    /\ work[c].composed # NoStatement
    /\ Reply(c)
    /\ LET read == Append(work[c].pages, work[c].composed)
       IN  \E step \in IF Len(read) = Pages THEN {"record"}
                      ELSE IF work[c].kind = "capped" THEN {"record", "ask"} ELSE {"ask"} :
               work' = [work EXCEPT ![c].pages = read, ![c].composed = NoStatement,
                                    ![c].step = step]
    /\ UNCHANGED <<serverVars, clientVars, asking>>

\* The page cannot be read, or the listing followed any further.
BadPage(c) ==
    /\ Listing(c) /\ At(c, "asked")
    /\ Reply(c)
    /\ work' = [work EXCEPT ![c] = Idle]
    /\ UNCHANGED <<serverVars, clientVars, asking>>

\* recordListing reads the connection that stands, under the engine's mutex,
ReadGeneration(c) ==
    /\ At(c, "record")
    /\ work' = [work EXCEPT ![c].step = "write", ![c].generation = last.generation]
    /\ UNCHANGED <<exchangeVars, serverVars, clientVars, asking>>

\* The pages a listing carries: a cap may be met ahead of what its last page holds.
Shown(c) ==
    LET read == Len(work[c].pages)
    IN  IF work[c].kind = "capped" THEN {read - 1, read} ELSE {read}

\* and records the listing under the client's.
Record(c) ==
    /\ At(c, "write")
    /\ \E shown \in Shown(c) :
          catalogue' = Recorded(work[c].pages, shown, work[c].kind = "whole",
                                work[c].generation, work[c].changes)
    /\ excluded' = ExcludedOf(work[c].pages)
    /\ work' = [work EXCEPT ![c] = Idle]
    /\ UNCHANGED <<exchangeVars, serverVars, changes, asking>>

-----------------------------------------------------------------------------
(* CallTool: mirroring, readDefinition.                                     *)

\* The call goes out, with the headers rendered from basis or with none at all.
Send(c, basis, renders) ==
    work' = [work EXCEPT ![c].step = "sent", ![c].basis = basis,
                         ![c].composed = NoStatement, ![c].pages = <<>>,
                         ![c].changes = 0, ![c].renders = renders]

BeginReading(c, renders) ==
    work' = [work EXCEPT ![c].step = "reading", ![c].changes = changes,
                         ![c].renders = renders]

\* The revision settled carries no headers, or the transport does not.
SendBare(c) ==
    /\ Standing(c)
    /\ Calling(c) /\ At(c, "ask")
    /\ Send(c, {}, FALSE)
    /\ UNCHANGED <<exchangeVars, serverVars, clientVars, asking>>

\* What the catalogue keeps of this connection states the tool.  A definition
\* the call cannot be rendered from is read again first.
SendFromCatalogue(c) ==
    /\ Standing(c)
    /\ Calling(c) /\ At(c, "ask")
    /\ ~work[c].repeats
    /\ catalogue' = Forget(catalogue, under.generation)
    /\ Known(catalogue', work[c].name)
    /\ \/ Send(c, Stated(catalogue', work[c].name), TRUE)
       \/ work[c].name # 0 /\ BeginReading(c, FALSE)
    /\ UNCHANGED <<exchangeVars, serverVars, changes, excluded, asking>>

\* Nothing stands that states it, or what did was refused by the server.
ReadFirst(c) ==
    /\ Standing(c)
    /\ Calling(c) /\ At(c, "ask")
    /\ \/ /\ ~work[c].repeats
          /\ catalogue' = Forget(catalogue, under.generation)
          /\ ~Known(catalogue', work[c].name)
       \/ /\ work[c].repeats
          /\ catalogue' = catalogue
    /\ BeginReading(c, TRUE)
    /\ UNCHANGED <<exchangeVars, serverVars, changes, excluded, asking>>

AskHeldPage(c) ==
    /\ At(c, "reading")
    /\ Compose(c, "reading")
    /\ UNCHANGED <<exchangeVars, serverVars, clientVars, asking>>

HeldPageArrives(c) ==
    /\ Standing(c)
    /\ At(c, "reading")
    /\ work[c].composed # NoStatement
    /\ Len(work[c].pages) + 1 < Pages
    /\ work' = [work EXCEPT ![c].pages = Append(@, work[c].composed),
                            ![c].composed = NoStatement]
    /\ UNCHANGED <<exchangeVars, serverVars, clientVars, asking>>

\* The definition among the pages read, or all of them when none carries it.
Found(n, pages) == IF n = 0 THEN {pages[i] : i \in DOMAIN pages} ELSE {pages[n]}

\* The last page arrives: the listing is recorded over the connection held, and
\* the call is sent, unless it repeats a refused one and nothing new was read.
LastHeldPageArrives(c) ==
    /\ Standing(c)
    /\ At(c, "reading")
    /\ work[c].composed # NoStatement
    /\ Len(work[c].pages) + 1 = Pages
    /\ LET pages == Append(work[c].pages, work[c].composed)
           found == Found(work[c].name, pages)
       IN  /\ catalogue' = Recorded(pages, Pages, TRUE, under.generation, work[c].changes)
           /\ excluded' = ExcludedOf(pages)
           /\ \/ /\ work[c].repeats =>
                       /\ work[c].name # 0
                       /\ \A s \in found, t \in work[c].rejected :
                             <<s.link, s.revision>> # <<t.link, t.revision>>
                 /\ Send(c, found, TRUE)
                 /\ UNCHANGED exchangeVars
              \/ /\ work[c].repeats
                 /\ Ends(c)
                 /\ work' = [work EXCEPT ![c] = Idle]
    /\ UNCHANGED <<serverVars, changes, asking>>

\* The server refuses the listing on protocol terms: the call goes out with
\* what the caller stated.
ListingRefused(c) ==
    /\ Standing(c)
    /\ At(c, "reading")
    /\ ~work[c].repeats /\ work[c].renders
    /\ Send(c, {}, TRUE)
    /\ UNCHANGED <<exchangeVars, serverVars, clientVars, asking>>

CallAnswered(c) ==
    /\ At(c, "sent")
    /\ Reply(c)
    /\ work' = [work EXCEPT ![c] = Idle]
    /\ UNCHANGED <<serverVars, clientVars, asking>>

\* The server refuses the headers the call was rendered with, were they none: the
\* call is repeated once, in an exchange of its own.
HeaderMismatch(c) ==
    /\ Standing(c)
    /\ At(c, "sent")
    /\ work[c].renders /\ ~work[c].repeats
    /\ Ends(c)
    /\ work' = [work EXCEPT ![c] = [Idle EXCEPT !.kind = "call", !.step = "ask",
                                                !.name = work[c].name, !.repeats = TRUE,
                                                !.rejected = work[c].basis]]
    /\ UNCHANGED <<serverVars, clientVars, asking>>

-----------------------------------------------------------------------------
(* ExcludedTools: the context is resolved before the record is looked at.   *)

ResolveContext(r) ==
    /\ asking[r] = NotAsking
    /\ asking' = [asking EXCEPT ![r] =
                     [step |-> "resolved", authorization |-> ContextNow, cred |-> cred,
                      settled |-> ContextNow = authorization]]
    /\ UNCHANGED <<exchangeVars, serverVars, clientVars, work>>

\* The names about to be shown to r.
ShownTo(r) ==
    asking[r].step = "resolved" /\ excluded.authorization = asking[r].authorization

ShowExcluded(r) ==
    /\ asking[r].step = "resolved"
    /\ asking' = [asking EXCEPT ![r] = NotAsking]
    /\ UNCHANGED <<exchangeVars, serverVars, clientVars, work>>

CallerStep(c) ==
    \/ Start(c) \/ TakeGate(c) \/ Abandon(c) \/ Connect(c) \/ StartOver(c) \/ GiveUp(c)
    \/ AskPage(c) \/ AskHeldPage(c) \/ CredentialChanged(c) \/ PageArrives(c)
    \/ BadPage(c) \/ ReadGeneration(c) \/ Record(c)
    \/ SendBare(c) \/ SendFromCatalogue(c) \/ ReadFirst(c) \/ HeldPageArrives(c)
    \/ LastHeldPageArrives(c) \/ ListingRefused(c) \/ CallAnswered(c) \/ HeaderMismatch(c)

Next ==
    \/ \E c \in Callers : CallerStep(c)
    \/ \E r \in Readers : ResolveContext(r) \/ ShowExcluded(r)
    \/ \E r \in 1..MaxRevision : Announced(r)
    \/ Tick
    \/ ServerChanges
    \/ \E k \in Credentials : Present(k) /\ UNCHANGED <<serverVars, clientVars, work, asking>>

Spec == Init /\ [][Next]_vars

-----------------------------------------------------------------------------
(* Properties.                                                              *)

CatalogueTypeOK ==
    /\ ExchangesTypeOK
    /\ now \in 0..MaxNow
    /\ revision \in 0..MaxRevision
    /\ announced \in 0..MaxRevision
    /\ pending \subseteq 1..MaxRevision
    /\ changes \in 0..MaxRevision
    /\ catalogue.generation \in 0..MaxGeneration
    /\ \A n \in 1..Pages : catalogue.tools[n] \in Statement
    /\ catalogue.whole = <<>> \/ Len(catalogue.whole) = Pages
    /\ \A i \in DOMAIN catalogue.whole : catalogue.whole[i] \in Statement
    /\ \A c \in Callers :
          /\ work[c].kind \in Kinds \cup {"none"}
          /\ work[c].step \in {"none", "ask", "asked", "reading", "sent", "record", "write"}
          /\ work[c].name \in 0..Pages
          /\ work[c].tries \in 1..2
          /\ work[c].composed \in Statement
          /\ Len(work[c].pages) \in 0..Pages
          /\ \A i \in DOMAIN work[c].pages : work[c].pages[i] \in Statement

\* A call is never mirrored from what another server, or the same server
\* answering another caller, stated (mirroring): whatever it was rendered from,
\* kept or just read, was stated over the very connection it travels on.
MirroredOverItsConnection ==
    \A c \in Callers :
        At(c, "sent") => holder = c /\ \A s \in work[c].basis : s.link = under

\* A call mirrored from what the catalogue keeps rests only on pages the server
\* still lets it keep: the absence of a tool, on every page of the listing
\* (statedFor, wholeUntil).
KeptWhileFresh ==
    [][\A c \in Callers :
          work[c].step = "ask" /\ work'[c].step = "sent"
          => \A s \in work'[c].basis : now < s.until]_vars

\* An announced change outdates every definition read before it, those of a
\* listing still being read included (serverNotified, recordListing): nothing
\* the catalogue keeps is older than the last announcement read.
AnnouncedOutdates ==
    /\ \A n \in 1..Pages :
          catalogue.tools[n] # NoStatement => catalogue.tools[n].revision >= announced
    /\ \A i \in DOMAIN catalogue.whole : catalogue.whole[i].revision >= announced

\* A cursor is the server's to one caller: the pages of a listing were all
\* answers to one credential, however often it changed and reconnected while
\* they were read (listOn).
ListingOfOneCaller ==
    \A c \in Callers : \A i, j \in DOMAIN work[c].pages :
        work[c].pages[i].link.cred = work[c].pages[j].link.cred

\* The names a listing refused are shown to a caller whose credential was the
\* one in use when it asked only if they were an answer to that credential
\* (ExcludedTools), whichever listings are recorded in between.
ExcludedShownInItsContext ==
    \A r \in Readers :
        ShownTo(r) /\ asking[r].settled /\ Transport = "http"
            /\ excluded.cred # NoCredential
        => excluded.cred = asking[r].cred

\* ExcludedTools "returns none once the credential presented to the server is no
\* longer the one that listing was asked for with": the names shown were an
\* answer to the credential resolved when they were asked for, or at least to the
\* one resolved as they are shown.
ExcludedShownToItsAsker ==
    \A r \in Readers :
        ShownTo(r) /\ Transport = "http" /\ excluded.cred # NoCredential
        => excluded.cred \in {asking[r].cred, cred}

\* A notification that the list of tools changed "outdates every definition read
\* before it" and they are "read again when they are next called": no call goes
\* out mirrored from a definition older than a change announced by then.
CallFollowsAnnouncement ==
    [][\A c \in Callers :
          work[c].step # "sent" /\ work'[c].step = "sent"
          => \A s \in work'[c].basis : s.revision >= announced]_vars

=============================================================================
