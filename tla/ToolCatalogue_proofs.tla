----------------------- MODULE ToolCatalogue_proofs ------------------------
(***************************************************************************)
(* Theorems about ToolCatalogue for every value of its constants.          *)
(*                                                                         *)
(* Two memories that the client does not keep carry the argument: a        *)
(* generation names one link, the one that stands or an older one, and a   *)
(* number of an authorization context names one credential.  The second is *)
(* the function owner, which exists although no variable holds it.         *)
(***************************************************************************)
EXTENDS ToolCatalogue, WellFoundedInduction, TLAPS

AnyCredential == Credentials \cup {NoCredential}
Work == [kind : Kinds \cup {"none"},
         step : {"none", "ask", "asked", "reading", "sent", "record", "write"},
         name : 0..Pages, changes : Nat, tries : 1..2, generation : 0..MaxGeneration,
         pages : Seq(Statement), composed : Statement, basis : SUBSET Statement,
         renders : BOOLEAN, repeats : BOOLEAN, rejected : SUBSET Statement]
Catalogue == [generation : 0..MaxGeneration, tools : [1..Pages -> Statement],
              whole : Seq(Statement)]

\* The exchange in progress goes over the last link, in the context in force.
ExchangeHeld ==
    /\ cred \in Credentials /\ bearer \in AnyCredential
    /\ authorization \in 0..MaxAuthorization /\ ContextNow \in 0..MaxAuthorization
    /\ last \in Link /\ under \in {NoLink, last}
    /\ under # NoLink => holder # NoCaller /\ ready /\ under.authorization = authorization
    /\ last # NoLink => last.generation # 0 /\ (last.authorization = 0 <=> Transport = "stdio")
    /\ Transport = "stdio" => authorization = 0
    /\ authorization = 0 => bearer = NoCredential
    /\ Transport = "http" /\ ready => authorization # 0

\* A link that was settled: an older one, or the last.
Settled(l) ==
    /\ l \in Link /\ l.generation \in 1..last.generation
    /\ l.generation = last.generation => l = last
    /\ l.authorization = 0 <=> Transport = "stdio"

Recent(s) == s.revision >= announced

ServerHeld ==
    /\ now \in Nat /\ revision \in 0..MaxRevision /\ announced \in 0..revision
    /\ pending \subseteq 0..revision

\* What the catalogue keeps was stated over its connection, and not outdated.
Keeps(cat, s) == Settled(s.link) /\ s.link.generation = cat.generation /\ Recent(s)
Sound(cat) ==
    /\ cat \in Catalogue
    /\ \A n \in 1..Pages : cat.tools[n] # NoStatement => Keeps(cat, cat.tools[n])
    /\ \A i \in DOMAIN cat.whole : Keeps(cat, cat.whole[i])
CatalogueHeld == changes \in Nat /\ Sound(catalogue)

\* What a caller has read, and over what it sends.
Read(x) ==
    /\ \A i \in DOMAIN x.pages : Settled(x.pages[i].link)
    /\ \A i, j \in DOMAIN x.pages : x.pages[i].link.authorization = x.pages[j].link.authorization
    /\ x.changes = changes =>
          /\ \A i \in DOMAIN x.pages : Recent(x.pages[i])
          /\ x.composed # NoStatement => Recent(x.composed)
Composed(x) == x.composed # NoStatement => x.step \in {"asked", "reading"} /\ x.composed.link = under
Carried(c, x) == x.step \in {"asked", "reading", "sent"} => holder = c /\ under # NoLink
GoodWork(c, x) ==
    /\ x \in Work /\ x.changes <= changes /\ x.generation <= last.generation
    /\ Read(x) /\ Composed(x) /\ Carried(c, x)
    /\ x.kind = "call" /\ x.step # "reading" => x.pages = <<>>
    /\ x.step = "asked" =>
          /\ x.kind \in {"whole", "capped", "empty"}
          /\ \A i \in DOMAIN x.pages : x.pages[i].link.authorization = under.authorization
    /\ x.step = "reading" =>
          /\ x.kind = "call"
          /\ \A i \in DOMAIN x.pages : x.pages[i].link = under
    /\ x.step = "sent" => x.kind = "call" /\ \A s \in x.basis : s.link = under
WorkHeld ==
    /\ work = [c \in Callers |-> work[c]]
    /\ \A c \in Callers : GoodWork(c, work[c])

\* A context that was handed out, with the credential it was handed out for.
Owned(owner, l) == l.authorization \in 0..authorization /\ l.cred = owner[l.authorization]
OwnersHeld(owner) ==
    /\ owner[0] = NoCredential /\ owner[authorization] = bearer
    /\ Owned(owner, last) /\ Owned(owner, excluded)
    /\ \A c \in Callers : \A i \in DOMAIN work[c].pages : Owned(owner, work[c].pages[i].link)
    /\ \A r \in Readers : asking[r].settled /\ Transport = "http" => Owned(owner, asking[r])
Owners == [0..MaxAuthorization -> AnyCredential]
ContextsHeld ==
    /\ asking = [r \in Readers |-> asking[r]]
    /\ \E owner \in Owners : OwnersHeld(owner)

CatalogueInv == ExchangeHeld /\ ServerHeld /\ CatalogueHeld /\ WorkHeld /\ ContextsHeld

USE CallersAssumption, CredentialsAssumption, TransportAssumption, BoundsAssumption,
    CatalogueAssumption

(* ---------------- what a step leaves standing ---------------- *)

\* A step settles a link at most, in the context it leaves in force.
Grows ==
    \/ last' = last
    \/ /\ last' \in Link /\ last'.generation = last.generation + 1
       /\ last'.authorization = authorization' /\ last'.cred = bearer'

\* It hands out the number of a context at most.
Handed ==
    /\ bearer' \in AnyCredential /\ authorization' \in 0..MaxAuthorization
    /\ \/ authorization' = authorization /\ bearer' = bearer
       \/ authorization' = authorization + 1

LEMMA Linked == NoLink \in Link /\ NoLink.generation = 0 /\ NoLink.authorization = 0
BY DEF NoLink, Link

LEMMA Unstated == NoStatement \in Statement /\ <<>> \in Seq(Statement) /\ {} \in SUBSET Statement
BY Linked DEF NoStatement, Statement

LEMMA SettlesCredential ==
    ASSUME ExchangeHeld, SettleCredential
    PROVE  /\ Handed
           /\ Transport = "stdio" => authorization' = 0
           /\ Transport = "http" => authorization' # 0
           /\ authorization' = 0 => bearer' = NoCredential
           /\ cred' = cred => ContextNow' \in 0..MaxAuthorization
<1>1. authorization' = ContextNow /\ ContextNow \in 0..MaxAuthorization
  BY DEF ExchangeHeld, SettleCredential
<1>2. CASE Transport = "stdio"
  BY <1>1, <1>2 DEF ExchangeHeld, SettleCredential, ContextNow, Handed
<1>3. CASE Transport = "http"
  <2>1. bearer' = cred /\ cred \in Credentials /\ authorization \in 0..MaxAuthorization
    BY <1>3 DEF ExchangeHeld, SettleCredential
  <2>2. \/ authorization' = authorization /\ bearer' = bearer
        \/ authorization' = authorization + 1
    BY <1>1, <1>3, <2>1 DEF ContextNow
  <2>3. authorization' # 0
    BY <1>1, <1>3, <2>1 DEF ContextNow, ExchangeHeld
  <2>4. cred' = cred => ContextNow' = authorization'
    BY <2>1 DEF ContextNow
  <2> QED
    BY <1>1, <1>3, <2>1, <2>2, <2>3, <2>4 DEF Handed, AnyCredential
<1> QED
  BY <1>2, <1>3

ExchangeStep(c) == Take(c) \/ Authorize(c) \/ Settle(c) \/ Lose(c) \/ Reply(c) \/ Fail(c)

LEMMA ExchangeGoesOn ==
    ASSUME ExchangeHeld, NEW c \in Callers, ExchangeStep(c)
    PROVE  ExchangeHeld' /\ Grows /\ Handed
<1>1. CASE Take(c)
  BY <1>1 DEF Take, ExchangeHeld, Grows, Handed, ContextNow
<1>2. CASE Authorize(c)
  <2>1. /\ SettleCredential /\ UNCHANGED <<cred, last>> /\ ready'
        /\ under' \in {NoLink} \cup {l \in {last} : l.authorization = authorization'}
    BY <1>2 DEF Authorize
  <2>2. bearer' \in AnyCredential /\ Handed /\ Grows
    BY <2>1, SettlesCredential DEF Handed, Grows
  <2>3. under' \in {NoLink, last'} /\ (under' # NoLink => under'.authorization = authorization')
    BY <2>1
  <2>4. holder' \in Callers
    BY <1>2 DEF Authorize
  <2>5. /\ cred' \in Credentials /\ last' \in Link /\ authorization' \in 0..MaxAuthorization
        /\ last' # NoLink => last'.generation # 0 /\ (last'.authorization = 0 <=> Transport = "stdio")
    BY <2>1, <2>2 DEF ExchangeHeld, Handed
  <2> QED
    BY <2>1, <2>2, <2>3, <2>4, <2>5, SettlesCredential DEF ExchangeHeld
<1>3. CASE Settle(c)
  <2>1. last' \in Link /\ last'.generation = last.generation + 1
    BY <1>3 DEF Settle, ExchangeHeld, Link, AnyCredential
  <2>2. last'.authorization = authorization /\ last'.cred = bearer
    BY <1>3 DEF Settle
  <2>3. last.generation \in Nat
    BY DEF ExchangeHeld, Link
  <2> QED
    BY <1>3, <2>1, <2>2, <2>3 DEF Settle, ExchangeHeld, Grows, Handed, ContextNow
<1>4. CASE Lose(c)
  BY <1>4 DEF Lose, ExchangeHeld, Grows, Handed, ContextNow
<1>5. CASE Reply(c)
  BY <1>5 DEF Reply, ExchangeHeld, Grows, Handed, ContextNow
<1>6. CASE Fail(c)
  <2>1. CASE SettleCredential
    BY <1>6, <2>1, SettlesCredential DEF Fail, ExchangeHeld, Grows, Handed
  <2>2. CASE UNCHANGED <<authorization, bearer>>
    BY <1>6, <2>2 DEF Fail, ExchangeHeld, Grows, Handed, ContextNow
  <2> QED
    BY <1>6, <2>1, <2>2 DEF Fail
<1> QED
  BY <1>1, <1>2, <1>3, <1>4, <1>5, <1>6 DEF ExchangeStep

LEMMA ExchangeStays ==
    ASSUME ExchangeHeld, UNCHANGED exchangeVars
    PROVE  ExchangeHeld' /\ Grows /\ Handed
BY DEF ExchangeHeld, exchangeVars, Grows, Handed, ContextNow

LEMMA ExchangePresents ==
    ASSUME ExchangeHeld, NEW k \in Credentials, Present(k)
    PROVE  ExchangeHeld' /\ Grows /\ Handed
BY DEF Present, ExchangeHeld, Grows, Handed, ContextNow

LEMMA SettledStays ==
    ASSUME ExchangeHeld, Grows, NEW l, Settled(l)
    PROVE  Settled(l)'
<1>1. last.generation \in Nat /\ l.generation \in Nat
  BY DEF ExchangeHeld, Settled, Link
<1> QED
  BY <1>1 DEF Settled, Grows

LEMMA LastSettled == ASSUME ExchangeHeld, last # NoLink PROVE Settled(last)
BY DEF ExchangeHeld, Settled, Link

LEMMA SoundStays ==
    ASSUME ExchangeHeld, Grows, announced' = announced, NEW cat, Sound(cat)
    PROVE  Sound(cat)'
<1>1. ASSUME NEW s, Keeps(cat, s) PROVE Keeps(cat, s)'
  BY <1>1, SettledStays DEF Keeps, Recent
<1> QED
  BY <1>1 DEF Sound

LEMMA CatalogueBecomes ==
    ASSUME ExchangeHeld, CatalogueHeld, Grows, UNCHANGED <<announced, changes>>,
           NEW cat, Sound(cat), catalogue' = cat
    PROVE  CatalogueHeld'
<1>1. Sound(cat)'
  BY SoundStays
<1> QED
  BY <1>1 DEF CatalogueHeld, Sound, Keeps

LEMMA CatalogueStays ==
    ASSUME ExchangeHeld, CatalogueHeld, Grows, UNCHANGED <<catalogue, announced, changes>>
    PROVE  CatalogueHeld'
<1>1. PICK cat : cat = catalogue
  OBVIOUS
<1> QED
  BY <1>1, CatalogueBecomes DEF CatalogueHeld

LEMMA NothingSound == ASSUME NEW g \in 0..MaxGeneration PROVE Sound(Nothing(g))
<1>1. Nothing(g) \in Catalogue
  BY Unstated DEF Nothing, Catalogue
<1> QED
  BY <1>1 DEF Nothing, Sound

LEMMA ForgetSound ==
    ASSUME NEW cat, Sound(cat), NEW g \in 0..MaxGeneration
    PROVE  Sound(Forget(cat, g)) /\ Forget(cat, g).generation = g
BY NothingSound DEF Forget, Nothing

\* A listing read over the connection that is recorded, and not outdated.
LEMMA RecordedSound ==
    ASSUME CatalogueHeld, NEW pages \in Seq(Statement), NEW shown, NEW whole, NEW before,
           NEW g \in 0..MaxGeneration, \A i \in DOMAIN pages : Settled(pages[i].link),
           before = changes => \A i \in DOMAIN pages : Recent(pages[i])
    PROVE  Sound(Recorded(pages, shown, whole, g, before))
<1> DEFINE kept == Forget(catalogue, g)
<1>1. Sound(kept) /\ kept.generation = g
  BY ForgetSound DEF CatalogueHeld
<1>2. CASE g \notin ReadOn(pages) \/ Outdated(before)
  BY <1>1, <1>2 DEF Recorded
<1>3. CASE g \in ReadOn(pages) /\ ~Outdated(before)
  <2> HIDE DEF kept
  <2> DEFINE tools == [n \in 1..Pages |-> IF n \in DOMAIN pages /\ n <= shown THEN pages[n]
                                          ELSE IF whole THEN NoStatement ELSE kept.tools[n]]
             read == IF whole THEN pages ELSE kept.whole
             cat == [kept EXCEPT !.tools = tools, !.whole = read]
  <2>1. Recorded(pages, shown, whole, g, before) = cat
    BY <1>3 DEF Recorded, kept
  <2>2. \A i \in DOMAIN pages : pages[i] \in Statement /\ Keeps(kept, pages[i])
    BY <1>1, <1>3 DEF ReadOn, Outdated, Keeps
  <2>3. kept \in Catalogue
    BY <1>1 DEF Sound
  <2>4. \A n \in 1..Pages : /\ tools[n] \in Statement
                            /\ tools[n] # NoStatement => Keeps(kept, tools[n])
    BY <1>1, <2>2, <2>3, Unstated DEF Sound, Catalogue
  <2>5. read \in Seq(Statement) /\ \A i \in DOMAIN read : Keeps(kept, read[i])
    BY <1>1, <2>2, <2>3 DEF Sound, Catalogue
  <2>6. tools \in [1..Pages -> Statement]
    BY <2>4
  <2> HIDE DEF tools, read
  <2>7. /\ cat \in Catalogue /\ cat.tools = tools /\ cat.whole = read
        /\ cat.generation = kept.generation
    BY <2>3, <2>5, <2>6 DEF Catalogue
  <2> HIDE DEF cat
  <2>8. \A t : Keeps(kept, t) => Keeps(cat, t)
    BY <2>7 DEF Keeps
  <2>9. Sound(cat)
    BY <2>4, <2>5, <2>7, <2>8 DEF Sound
  <2> QED
    BY <2>1, <2>9
<1> QED
  BY <1>2, <1>3

LEMMA ServerStays == ASSUME ServerHeld, UNCHANGED serverVars PROVE ServerHeld'
BY DEF ServerHeld, serverVars

(* ---------------- callers ---------------- *)

LEMMA ReadStays ==
    ASSUME ExchangeHeld, Grows, UNCHANGED <<announced, changes>>, NEW x, Read(x)
    PROVE  Read(x)'
<1>1. \A i \in DOMAIN x.pages : Settled(x.pages[i].link)'
  BY SettledStays DEF Read
<1> QED
  BY <1>1 DEF Read, Recent

LEMMA WorkStays ==
    ASSUME ExchangeHeld, Grows, UNCHANGED <<announced, changes>>, NEW c, NEW x, GoodWork(c, x),
           holder = c => UNCHANGED <<holder, under>>
    PROVE  GoodWork(c, x)'
<1>1. Read(x)'
  BY ReadStays DEF GoodWork
<1>2. x.generation <= last'.generation
  <2>1. last.generation \in Nat /\ x.generation \in Nat
    BY DEF ExchangeHeld, Link, GoodWork, Work
  <2> QED
    BY <2>1 DEF GoodWork, Grows
<1>3. Composed(x)' /\ Carried(c, x)'
  BY DEF GoodWork, Composed, Carried
<1> QED
  BY <1>1, <1>2, <1>3 DEF GoodWork, Carried

\* Only the holder of the gate is disturbed by what is done with the exchange.
LEMMA OthersUndisturbed ==
    ASSUME NEW c, ExchangeStep(c) \/ UNCHANGED exchangeVars, NEW d \in Callers, d # c
    PROVE  holder = d => UNCHANGED <<holder, under>>
BY DEF ExchangeStep, Take, Authorize, Settle, Lose, Reply, Fail, exchangeVars

(* ---------------- contexts ---------------- *)

\* Whoever the contexts in use belong to, this one is of the same owner.
Attested(l) == \A owner \in Owners : OwnersHeld(owner) => Owned(owner, l)

LEMMA ContextsGoOn ==
    ASSUME ExchangeHeld, ContextsHeld, Handed, Grows, Attested(excluded'),
           \A c \in Callers : \A i \in DOMAIN work'[c].pages : Attested(work'[c].pages[i].link),
           asking' = [r \in Readers |-> asking'[r]],
           \A r \in Readers : asking'[r].settled /\ Transport = "http" => Attested(asking'[r])
    PROVE  ContextsHeld'
<1>1. PICK owner \in Owners : OwnersHeld(owner)
  BY DEF ContextsHeld
<1>2. PICK o \in Owners :
        /\ \A a \in 0..authorization : o[a] = owner[a]
        /\ o[authorization'] = bearer'
  <2>1. CASE authorization' = authorization /\ bearer' = bearer
    BY <1>1, <2>1 DEF OwnersHeld
  <2>2. CASE authorization' = authorization + 1
    <3> DEFINE o == [owner EXCEPT ![authorization'] = bearer']
    <3>1. o \in Owners
      BY DEF Owners, Handed
    <3>2. \A a \in 0..authorization : o[a] = owner[a]
      BY <2>2 DEF ExchangeHeld, Owners, Handed
    <3>3. o[authorization'] = bearer'
      BY DEF Owners, Handed
    <3> QED
      BY <3>1, <3>2, <3>3
  <2> QED
    BY <2>1, <2>2 DEF Handed
<1>3. authorization \in Nat /\ authorization' \in Nat /\ authorization <= authorization'
  BY DEF ExchangeHeld, Handed
<1>4. ASSUME NEW l, Owned(owner, l) PROVE Owned(o, l)'
  BY <1>2, <1>3, <1>4 DEF Owned
<1>5. ASSUME NEW l, Attested(l) PROVE Owned(o, l)'
  BY <1>1, <1>4, <1>5 DEF Attested
<1>6. o[0] = NoCredential
  BY <1>1, <1>2, <1>3 DEF OwnersHeld
<1>7. \A l : l = last' => Owned(o, l)'
  BY <1>1, <1>2, <1>3, <1>4 DEF Grows, Owned, OwnersHeld
<1>8. \A l : l = excluded' => Owned(o, l)'
  BY <1>5
<1>9. \A c \in Callers : \A i \in DOMAIN work'[c].pages :
         \A l : l = work'[c].pages[i].link => Owned(o, l)'
  BY <1>5
<1>10. \A r \in Readers : asking'[r].settled /\ Transport = "http" =>
         \A l : l = asking'[r] => Owned(o, l)'
  BY <1>5
<1>11. OwnersHeld(o)'
  BY <1>2, <1>6, <1>7, <1>8, <1>9, <1>10 DEF OwnersHeld, Owned
<1> QED
  BY <1>11 DEF ContextsHeld, Owners

LEMMA AttestedKnown ==
    /\ Attested(last) /\ Attested(excluded)
    /\ \A c \in Callers : \A i \in DOMAIN work[c].pages : Attested(work[c].pages[i].link)
    /\ \A r \in Readers : asking[r].settled /\ Transport = "http" => Attested(asking[r])
BY DEF Attested, OwnersHeld

\* Nobody was asked for is nobody's context.
LEMMA ExcludedAttested ==
    ASSUME ExchangeHeld, NEW pages, \A i \in DOMAIN pages : Attested(pages[i].link),
           pages \in Seq(Statement)
    PROVE  Attested(ExcludedOf(pages))
<1>1. CASE pages = <<>>
  BY <1>1 DEF ExcludedOf, NoLink, Attested, Owned, OwnersHeld, ExchangeHeld
<1>2. CASE pages # <<>>
  BY <1>2 DEF ExcludedOf, Attested, Owned
<1> QED
  BY <1>1, <1>2

(* ---------------- one caller steps ---------------- *)

LEMMA WorkGoesOn ==
    ASSUME ExchangeHeld, WorkHeld, NEW c \in Callers, NEW y, Grows,
           ExchangeStep(c) \/ UNCHANGED exchangeVars,
           work' = [work EXCEPT ![c] = y], GoodWork(c, y)',
           UNCHANGED <<announced, changes>>
    PROVE  WorkHeld'
<1>1. ASSUME NEW d \in Callers, NEW x, GoodWork(d, x), d # c PROVE GoodWork(d, x)'
  BY <1>1, OthersUndisturbed, WorkStays
<1>2. ASSUME NEW d \in Callers, NEW x, x = work'[d] PROVE GoodWork(d, x)'
  <2>1. CASE d = c
    BY <1>2, <2>1 DEF WorkHeld
  <2>2. CASE d # c
    <3>1. work'[d] = work[d]
      BY <2>2
    <3> QED
      BY <1>1, <1>2, <2>2, <3>1 DEF WorkHeld
  <2> QED
    BY <2>1, <2>2
<1>3. work' = [d \in Callers |-> work'[d]]
  BY DEF WorkHeld
<1> QED
  BY <1>2, <1>3 DEF WorkHeld

LEMMA CallerGoesOn ==
    ASSUME CatalogueInv, NEW c \in Callers, NEW y,
           ExchangeStep(c) \/ UNCHANGED exchangeVars,
           work' = [work EXCEPT ![c] = y], GoodWork(c, y)',
           \A i \in DOMAIN y.pages : Attested(y.pages[i].link),
           Attested(excluded'), CatalogueHeld', UNCHANGED <<serverVars, changes, asking>>
    PROVE  CatalogueInv'
<1>1. ExchangeHeld' /\ Grows /\ Handed
  BY ExchangeGoesOn, ExchangeStays DEF CatalogueInv
<1>2. ServerHeld' /\ WorkHeld'
  BY <1>1, ServerStays, WorkGoesOn DEF CatalogueInv, serverVars
<1>3. \A d \in Callers : \A i \in DOMAIN work'[d].pages : Attested(work'[d].pages[i].link)
  BY AttestedKnown DEF CatalogueInv, WorkHeld
<1>4. ContextsHeld'
  BY <1>1, <1>3, AttestedKnown, ContextsGoOn DEF CatalogueInv, ContextsHeld
<1> QED
  BY <1>1, <1>2, <1>4 DEF CatalogueInv

\* Most steps keep the catalogue, and leave no more pages than there were.
LEMMA CallerMovesOn ==
    ASSUME CatalogueInv, NEW c \in Callers, NEW y,
           ExchangeStep(c) \/ UNCHANGED exchangeVars,
           work' = [work EXCEPT ![c] = y], GoodWork(c, y)',
           y.pages = work[c].pages \/ y.pages = <<>>,
           UNCHANGED <<serverVars, clientVars, asking>>
    PROVE  CatalogueInv'
<1>1. Grows
  BY ExchangeGoesOn, ExchangeStays DEF CatalogueInv
<1>2. CatalogueHeld'
  BY <1>1, CatalogueStays DEF CatalogueInv, serverVars, clientVars
<1>3. Attested(excluded') /\ \A i \in DOMAIN y.pages : Attested(y.pages[i].link)
  BY AttestedKnown DEF clientVars
<1> QED
  BY <1>2, <1>3, CallerGoesOn DEF clientVars

LEMMA Working == ASSUME CatalogueInv, NEW c \in Callers PROVE GoodWork(c, work[c]) /\ work[c] \in Work
BY DEF CatalogueInv, WorkHeld, GoodWork

Beginning(k, n, step, m) == [Idle EXCEPT !.kind = k, !.name = n, !.step = step, !.changes = m]

LEMMA Begins ==
    ASSUME NEW k \in Kinds, NEW n \in 0..Pages, NEW step \in {"ask", "record"}, NEW m \in Nat,
           NEW y, y = Beginning(k, n, step, m)
    PROVE  /\ y \in Work /\ y.kind = k /\ y.pages = <<>> /\ y.composed = NoStatement
           /\ y.step = step /\ y.generation = 0 /\ y.changes = m
<1>1. Idle \in Work
  BY Unstated DEF Idle, Work
<1>2. /\ Idle.pages = <<>> /\ Idle.composed = NoStatement /\ Idle.generation = 0
  BY DEF Idle
<1>3. y \in Work
  BY <1>1 DEF Work, Beginning
<1>4. /\ y.kind = k /\ y.step = step /\ y.changes = m
      /\ y.pages = Idle.pages /\ y.composed = Idle.composed /\ y.generation = Idle.generation
  BY <1>1 DEF Work, Beginning
<1> QED
  BY <1>2, <1>3, <1>4

LEMMA IdleWorks == ASSUME last' \in Link, changes' \in Nat, NEW c PROVE GoodWork(c, Idle)'
<1>1. Idle \in Work
  BY Unstated DEF Idle, Work
<1>2. Idle.changes <= changes' /\ Idle.generation <= last'.generation
  BY DEF Idle, Link
<1> QED
  BY <1>1, <1>2 DEF Idle, GoodWork, Read, Composed, Carried

\* What a caller was at is over.
LEMMA CallerLeaves ==
    ASSUME CatalogueInv, NEW c \in Callers,
           ExchangeStep(c) \/ UNCHANGED exchangeVars,
           work' = [work EXCEPT ![c] = Idle],
           UNCHANGED <<serverVars, clientVars, asking>>
    PROVE  CatalogueInv'
<1>1. last' \in Link /\ changes' \in Nat
  BY ExchangeGoesOn, ExchangeStays
  DEF CatalogueInv, ExchangeHeld, CatalogueHeld, clientVars
<1> QED
  BY <1>1, IdleWorks, CallerMovesOn DEF Idle

(* ---------------- the exchange and the listing ---------------- *)

LEMMA InvStart == ASSUME CatalogueInv, NEW c \in Callers, Start(c) PROVE CatalogueInv'
<1>1. PICK k \in Kinds, n \in 0..Pages :
        work' = [work EXCEPT ![c] =
                    [Idle EXCEPT !.kind = k, !.name = n,
                                 !.step = IF k = "empty" THEN "record" ELSE "ask",
                                 !.changes = IF k = "call" THEN 0 ELSE changes]]
  BY DEF Start
<1>2. PICK step, m, y :
        /\ step = IF k = "empty" THEN "record" ELSE "ask"
        /\ m = IF k = "call" THEN 0 ELSE changes
        /\ y = Beginning(k, n, step, m)
  OBVIOUS
<1>3. /\ UNCHANGED <<exchangeVars, serverVars, clientVars, asking>>
      /\ last' = last /\ last \in Link /\ changes' = changes /\ changes \in Nat
  BY DEF Start, exchangeVars, clientVars, CatalogueInv, ExchangeHeld, CatalogueHeld
<1>4. work' = [work EXCEPT ![c] = y]
  BY <1>1, <1>2 DEF Beginning
<1>5. step \in {"ask", "record"} /\ m \in Nat /\ m <= changes
  BY <1>2, <1>3
<1>6. /\ y \in Work /\ y.kind = k /\ y.pages = <<>> /\ y.composed = NoStatement
      /\ y.step = step /\ y.generation = 0 /\ y.changes = m
  BY <1>1, <1>2, <1>5, Begins
<1>7. GoodWork(c, y)'
  BY <1>3, <1>5, <1>6 DEF GoodWork, Read, Composed, Carried, Link
<1> QED
  BY <1>3, <1>4, <1>6, <1>7, CallerMovesOn

\* The exchange goes on, and the caller with it, at the same step.
LEMMA CallerWaits ==
    ASSUME CatalogueInv, NEW c \in Callers, ExchangeStep(c), At(c, "ask"),
           UNCHANGED <<serverVars, clientVars, work, asking>>
    PROVE  CatalogueInv'
<1>1. PICK y : y = work[c]
  OBVIOUS
<1>2. Grows /\ ExchangeHeld
  BY ExchangeGoesOn DEF CatalogueInv
<1>3. GoodWork(c, y) /\ y.step = "ask" /\ Read(y)'
  BY <1>1, <1>2, Working, ReadStays DEF At, serverVars, clientVars, GoodWork
<1>4. y.generation <= last'.generation
  <2>1. last.generation \in Nat /\ y.generation \in Nat
    BY <1>2, <1>3 DEF ExchangeHeld, Link, GoodWork, Work
  <2> QED
    BY <1>2, <1>3, <2>1 DEF GoodWork, Grows
<1>5. GoodWork(c, y)'
  BY <1>3, <1>4 DEF GoodWork, Composed, Carried, clientVars
<1>6. work' = [work EXCEPT ![c] = y]
  BY <1>1 DEF CatalogueInv, WorkHeld
<1> QED
  BY <1>1, <1>5, <1>6, CallerMovesOn

LEMMA InvStartOver == ASSUME CatalogueInv, NEW c \in Callers, StartOver(c) PROVE CatalogueInv'
<1>1. PICK y : y = [work[c] EXCEPT !.step = "ask", !.composed = NoStatement,
                        !.basis = {}, !.renders = TRUE,
                        !.pages = IF Calling(c) THEN <<>> ELSE @]
  OBVIOUS
<1>2. /\ ExchangeStep(c) /\ Lose(c)
      /\ UNCHANGED <<serverVars, clientVars, asking>>
  BY DEF StartOver, ExchangeStep
<1>3. work' = [work EXCEPT ![c] = y]
  BY <1>1 DEF StartOver, CatalogueInv, WorkHeld
<1>4. Grows /\ ExchangeHeld /\ last' = last /\ UNCHANGED <<announced, changes>>
  BY <1>2, ExchangeGoesOn DEF CatalogueInv, Lose, serverVars, clientVars
<1>5. GoodWork(c, work[c]) /\ work[c] \in Work
  BY Working
<1>6. /\ y \in Work /\ y.step = "ask" /\ y.composed = NoStatement /\ y.kind = work[c].kind
      /\ y.changes = work[c].changes /\ y.generation = work[c].generation
      /\ y.pages = IF work[c].kind = "call" THEN <<>> ELSE work[c].pages
  <2>1. /\ y.step = "ask" /\ y.composed = NoStatement /\ y.kind = work[c].kind
        /\ y.changes = work[c].changes /\ y.generation = work[c].generation
        /\ y.pages = IF work[c].kind = "call" THEN <<>> ELSE work[c].pages
    BY <1>1, <1>5 DEF Work, Calling
  <2>2. y.pages \in Seq(Statement)
    BY <1>5, <2>1, Unstated DEF Work
  <2>3. y \in Work
    BY <1>1, <1>5, <2>2, Unstated DEF Work
  <2> QED
    BY <2>1, <2>3
<1>7. Read(y)
  BY <1>5, <1>6 DEF GoodWork, Read
<1>8. GoodWork(c, y)'
  BY <1>4, <1>5, <1>6, <1>7, ReadStays DEF GoodWork, Composed, Carried
<1> QED
  BY <1>2, <1>3, <1>6, <1>8, CallerMovesOn

LEMMA InvWaiting ==
    ASSUME CatalogueInv, NEW c \in Callers, TakeGate(c) \/ Connect(c)
    PROVE  CatalogueInv'
BY CallerWaits DEF TakeGate, Connect, ExchangeStep

LEMMA InvLeaving ==
    ASSUME CatalogueInv, NEW c \in Callers,
           Abandon(c) \/ GiveUp(c) \/ BadPage(c) \/ CallAnswered(c)
    PROVE  CatalogueInv'
BY CallerLeaves DEF Abandon, GiveUp, BadPage, CallAnswered, ExchangeStep

\* Every page of a listing was asked for in the context that is in force.
LEMMA TermsHeld ==
    ASSUME CatalogueInv, NEW c \in Callers, TermsHold(c), Standing(c)
    PROVE  \A i \in DOMAIN work[c].pages :
              work[c].pages[i].link.authorization = under.authorization
<1> SUFFICES ASSUME NEW i \in DOMAIN work[c].pages
             PROVE  work[c].pages[i].link.authorization = under.authorization
  OBVIOUS
<1>1. work[c].pages \in Seq(Statement) /\ Read(work[c])
  BY Working DEF GoodWork, Work
<1>2. 1 \in DOMAIN work[c].pages /\ work[c].pages # <<>>
  BY <1>1
<1>3. Settled(work[c].pages[1].link)
      /\ work[c].pages[i].link.authorization = work[c].pages[1].link.authorization
  BY <1>1, <1>2 DEF Read
<1>4. CASE work[c].pages[1].link.authorization # 0
  BY <1>2, <1>3, <1>4 DEF TermsHold
<1>5. CASE work[c].pages[1].link.authorization = 0
  BY <1>3, <1>5 DEF Settled, Standing, CatalogueInv, ExchangeHeld
<1> QED
  BY <1>4, <1>5

LEMMA Composes ==
    ASSUME CatalogueInv, NEW c \in Callers, NEW step \in {"asked", "reading"},
           Compose(c, step), UNCHANGED <<exchangeVars, serverVars, clientVars, asking>>,
           IF step = "asked" THEN Listing(c) /\ At(c, "ask") /\ TermsHold(c)
                             ELSE At(c, "reading")
    PROVE  CatalogueInv'
<1>1. PICK l \in Lifetimes :
        work' = [work EXCEPT ![c].step = step,
                             ![c].composed = [link |-> under, revision |-> revision,
                                              until |-> now + l]]
  BY DEF Compose
<1>2. PICK s, y : /\ s = [link |-> under, revision |-> revision, until |-> now + l]
                  /\ y = [work[c] EXCEPT !.step = step, !.composed = s]
  OBVIOUS
<1>3. holder = c /\ under # NoLink /\ under \in Link
  BY DEF Compose, Standing, CatalogueInv, ExchangeHeld
<1>4. s \in Statement /\ s.link = under /\ Recent(s)
  BY <1>2, <1>3 DEF Statement, Recent, CatalogueInv, ServerHeld
<1>5. GoodWork(c, work[c]) /\ work[c] \in Work
  BY Working
<1>6. /\ y.step = step /\ y.composed = s /\ y.kind = work[c].kind
      /\ y.changes = work[c].changes /\ y.generation = work[c].generation
      /\ y.pages = work[c].pages
  BY <1>2, <1>5 DEF Work
<1>7. y \in Work
  BY <1>2, <1>4, <1>5 DEF Work
<1>8. work' = [work EXCEPT ![c] = y]
  BY <1>1, <1>2
<1>9. UNCHANGED <<holder, under, last, announced, changes, authorization>>
  BY DEF exchangeVars, serverVars, clientVars
<1>10. Read(y)
  BY <1>4, <1>5, <1>6 DEF GoodWork, Read
<1>11. Grows /\ ExchangeHeld
  BY ExchangeStays DEF CatalogueInv
<1>12. Composed(y)' /\ Carried(c, y)'
  BY <1>3, <1>4, <1>6, <1>9 DEF Composed, Carried
<1>13. y.step = "asked" =>
          /\ y.kind \in {"whole", "capped", "empty"}
          /\ \A i \in DOMAIN y.pages : y.pages[i].link.authorization = under.authorization
  BY <1>6, TermsHeld DEF Listing, Compose
<1>14. y.step = "reading" =>
          /\ y.kind = "call"
          /\ \A i \in DOMAIN y.pages : y.pages[i].link = under
  BY <1>5, <1>6 DEF GoodWork, At
<1>15. GoodWork(c, y)'
  BY <1>5, <1>6, <1>7, <1>9, <1>10, <1>11, <1>12, <1>13, <1>14, ReadStays DEF GoodWork
<1> QED
  BY <1>6, <1>8, <1>15, CallerMovesOn

LEMMA InvAsking ==
    ASSUME CatalogueInv, NEW c \in Callers, AskPage(c) \/ AskHeldPage(c)
    PROVE  CatalogueInv'
BY Composes DEF AskPage, AskHeldPage

LEMMA InvCredentialChanged ==
    ASSUME CatalogueInv, NEW c \in Callers, CredentialChanged(c)
    PROVE  CatalogueInv'
<1>1. /\ ExchangeStep(c) /\ Fail(c)
      /\ UNCHANGED <<serverVars, clientVars, asking>>
  BY DEF CredentialChanged, ExchangeStep, Ends
<1>2. CASE work' = [work EXCEPT ![c] = Idle]
  BY <1>1, <1>2, CallerLeaves
<1>3. CASE work' = [work EXCEPT ![c] = [work[c] EXCEPT !.pages = <<>>, !.tries = 2]]
  <2>1. PICK y : y = [work[c] EXCEPT !.pages = <<>>, !.tries = 2]
    OBVIOUS
  <2>2. GoodWork(c, work[c]) /\ work[c] \in Work /\ work[c].step = "ask"
    BY Working DEF CredentialChanged, At
  <2>3. /\ y.pages = <<>> /\ y.step = "ask" /\ y.composed = work[c].composed
        /\ y.changes = work[c].changes /\ y.generation = work[c].generation
    BY <2>1, <2>2 DEF Work
  <2>4. y \in Work
    <3>1. y.pages \in Seq(Statement) /\ y.tries \in 1..2
      BY <2>1, <2>2, Unstated DEF Work
    <3> QED
      BY <2>1, <2>2, <3>1 DEF Work
  <2>5. UNCHANGED <<last, announced, changes>>
    BY <1>1 DEF Fail, serverVars, clientVars
  <2>6. y.composed = NoStatement
    BY <2>2, <2>3 DEF GoodWork, Composed
  <2>7. GoodWork(c, y)'
    BY <2>2, <2>3, <2>4, <2>5, <2>6 DEF GoodWork, Read, Composed, Carried
  <2> QED
    BY <1>1, <1>3, <2>1, <2>3, <2>7, CallerMovesOn
<1> QED
  BY <1>2, <1>3 DEF CredentialChanged, CatalogueInv, WorkHeld

LEMMA Appended ==
    ASSUME NEW pages \in Seq(Statement), NEW s \in Statement
    PROVE  LET read == Append(pages, s) IN
           /\ read \in Seq(Statement) /\ Len(read) = Len(pages) + 1
           /\ \A i \in DOMAIN read :
                 (i \in DOMAIN pages /\ read[i] = pages[i]) \/ read[i] = s
OBVIOUS

\* A page is added to those read: it is of the same link, or at least context.
LEMMA ReadOneMore ==
    ASSUME CatalogueInv, NEW c \in Callers, NEW x, GoodWork(c, x),
           x.composed # NoStatement, NEW y \in Work, y.composed = NoStatement,
           y.changes = x.changes, y.pages = Append(x.pages, x.composed)
    PROVE  /\ Read(y) /\ under # NoLink
           /\ \A i \in DOMAIN y.pages : y.pages[i].link = under \/
                 \E j \in DOMAIN x.pages : y.pages[i] = x.pages[j]
<1>1. /\ x.pages \in Seq(Statement) /\ x.composed \in Statement /\ x.composed.link = under
      /\ x.step \in {"asked", "reading"} /\ Read(x)
  BY DEF GoodWork, Work, Composed
<1>2. under # NoLink /\ under = last
  BY <1>1 DEF GoodWork, Carried, CatalogueInv, ExchangeHeld
<1>3. Settled(under)
  BY <1>2, LastSettled DEF CatalogueInv
<1>4. \A i \in DOMAIN x.pages : x.pages[i].link.authorization = under.authorization
  BY <1>1 DEF GoodWork
<1>5. \A i \in DOMAIN y.pages :
         (i \in DOMAIN x.pages /\ y.pages[i] = x.pages[i]) \/ y.pages[i] = x.composed
  BY <1>1, Appended
<1>6. \A i \in DOMAIN y.pages : /\ Settled(y.pages[i].link)
                                /\ y.pages[i].link.authorization = under.authorization
  BY <1>1, <1>3, <1>4, <1>5 DEF Read
<1>7. y.changes = changes => \A i \in DOMAIN y.pages : Recent(y.pages[i])
  BY <1>1, <1>5 DEF Read
<1> QED
  BY <1>1, <1>2, <1>5, <1>6, <1>7 DEF Read

LEMMA InvPageArrives ==
    ASSUME CatalogueInv, NEW c \in Callers, PageArrives(c)
    PROVE  CatalogueInv'
<1>1. PICK x, read, step :
        /\ x = work[c] /\ read = Append(x.pages, x.composed)
        /\ step \in {"record", "ask"}
        /\ work' = [work EXCEPT ![c].pages = read, ![c].composed = NoStatement,
                                ![c].step = step]
  BY DEF PageArrives
<1>2. PICK y : y = [x EXCEPT !.pages = read, !.composed = NoStatement, !.step = step]
  OBVIOUS
<1>3. /\ ExchangeStep(c) /\ Reply(c)
      /\ UNCHANGED <<serverVars, clientVars, asking>>
      /\ x.composed # NoStatement /\ x.step = "asked"
      /\ work' = [work EXCEPT ![c].pages = read, ![c].composed = NoStatement, ![c].step = step]
  BY <1>1 DEF PageArrives, ExchangeStep, At
<1>4. work' = [work EXCEPT ![c] = y]
  BY <1>1, <1>2, <1>3
<1>5. GoodWork(c, x) /\ x \in Work
  BY <1>1, Working
<1>6. /\ y.step = step /\ step \in {"record", "ask"} /\ y.composed = NoStatement
      /\ y.pages = read /\ y.kind = x.kind /\ y.kind \in {"whole", "capped", "empty"}
      /\ y.changes = x.changes /\ y.generation = x.generation
  BY <1>1, <1>2, <1>3, <1>5 DEF Work, GoodWork
<1>7. read \in Seq(Statement)
  BY <1>1, <1>5, Appended DEF Work
<1>8. y \in Work
  BY <1>2, <1>5, <1>6, <1>7, Unstated DEF Work
<1>9. /\ Read(y) /\ under # NoLink
      /\ \A i \in DOMAIN y.pages : y.pages[i].link = under \/
            \E j \in DOMAIN x.pages : y.pages[i] = x.pages[j]
  <2>1. y.pages = Append(x.pages, x.composed)
    BY <1>1, <1>6
  <2> QED
    BY <1>3, <1>5, <1>6, <1>8, <2>1, ReadOneMore
<1>10. UNCHANGED <<last, announced, changes, catalogue, excluded>>
  BY <1>3 DEF Reply, serverVars, clientVars
<1>11. Grows /\ ExchangeHeld
  BY <1>3, ExchangeGoesOn DEF CatalogueInv
<1>12. GoodWork(c, y)'
  BY <1>5, <1>6, <1>8, <1>9, <1>10, <1>11, ReadStays DEF GoodWork, Composed, Carried
<1>13. \A i \in DOMAIN y.pages : Attested(y.pages[i].link)
  BY <1>1, <1>9, AttestedKnown DEF CatalogueInv, ExchangeHeld
<1>14. CatalogueHeld'
  BY <1>10, <1>11, CatalogueStays DEF CatalogueInv
<1>15. Attested(excluded')
  BY <1>10, AttestedKnown
<1> QED
  BY <1>3, <1>4, <1>12, <1>13, <1>14, <1>15, CallerGoesOn DEF clientVars

LEMMA InvReadGeneration ==
    ASSUME CatalogueInv, NEW c \in Callers, ReadGeneration(c)
    PROVE  CatalogueInv'
<1>1. PICK y : y = [work[c] EXCEPT !.step = "write", !.generation = last.generation]
  OBVIOUS
<1>2. /\ UNCHANGED <<exchangeVars, serverVars, clientVars, asking>>
      /\ work[c].step = "record" /\ work' = [work EXCEPT ![c] = y]
  BY <1>1 DEF ReadGeneration, At
<1>3. GoodWork(c, work[c]) /\ work[c] \in Work
  BY Working
<1>4. /\ y.step = "write" /\ y.composed = work[c].composed /\ y.kind = work[c].kind
      /\ y.changes = work[c].changes /\ y.generation = last.generation
      /\ y.pages = work[c].pages
  BY <1>1, <1>3 DEF Work
<1>5. last.generation \in 0..MaxGeneration
  BY DEF CatalogueInv, ExchangeHeld, Link
<1>6. y \in Work
  BY <1>1, <1>3, <1>5 DEF Work
<1>7. UNCHANGED <<last, announced, changes>>
  BY <1>2 DEF exchangeVars, serverVars, clientVars
<1>8. Read(y) /\ y.composed = NoStatement
  BY <1>2, <1>3, <1>4 DEF GoodWork, Read, Composed
<1>9. Grows /\ ExchangeHeld
  BY <1>2, ExchangeStays DEF CatalogueInv
<1>10. GoodWork(c, y)'
  BY <1>2, <1>3, <1>4, <1>5, <1>6, <1>7, <1>8, <1>9, ReadStays
  DEF GoodWork, Composed, Carried
<1> QED
  BY <1>2, <1>4, <1>10, CallerMovesOn

LEMMA InvRecord ==
    ASSUME CatalogueInv, NEW c \in Callers, Record(c)
    PROVE  CatalogueInv'
<1>1. PICK x : x = work[c]
  OBVIOUS
<1>2. GoodWork(c, x) /\ x \in Work
  BY <1>1, Working
<1>3. /\ \E shown : catalogue' = Recorded(x.pages, shown, x.kind = "whole", x.generation,
                                           x.changes)
      /\ excluded' = ExcludedOf(x.pages)
      /\ work' = [work EXCEPT ![c] = Idle]
      /\ UNCHANGED <<exchangeVars, serverVars, changes, asking>>
  BY <1>1 DEF Record
<1>4. PICK cat, shown :
        /\ cat = Recorded(x.pages, shown, x.kind = "whole", x.generation, x.changes)
        /\ catalogue' = cat
  BY <1>3
<1>5. Sound(cat)
  BY <1>2, <1>4, RecordedSound DEF GoodWork, Read, Work, CatalogueInv
<1>6. Grows /\ ExchangeHeld /\ last' = last /\ last \in Link /\ UNCHANGED <<announced, changes>>
  BY <1>3, ExchangeStays DEF CatalogueInv, ExchangeHeld, exchangeVars, serverVars
<1>7. CatalogueHeld'
  BY <1>3, <1>4, <1>5, <1>6, CatalogueBecomes DEF CatalogueInv
<1>8. Attested(excluded')
  <2>1. x.pages \in Seq(Statement) /\ \A i \in DOMAIN x.pages : Attested(x.pages[i].link)
    BY <1>1, <1>2, AttestedKnown DEF Work
  <2> QED
    BY <1>3, <2>1, ExcludedAttested, <1>6
<1>9. GoodWork(c, Idle)'
  BY <1>6, IdleWorks DEF CatalogueInv, CatalogueHeld
<1>10. \A i \in DOMAIN Idle.pages : Attested(Idle.pages[i].link)
  BY DEF Idle
<1> QED
  BY <1>3, <1>7, <1>8, <1>9, <1>10, CallerGoesOn

(* ---------------- the call ---------------- *)

LEMMA Sends ==
    ASSUME CatalogueInv, NEW c \in Callers, NEW basis \in SUBSET Statement, NEW renders \in BOOLEAN,
           Send(c, basis, renders),
           Standing(c), Calling(c), \A s \in basis : s.link = under,
           UNCHANGED <<exchangeVars, serverVars, changes, asking>>,
           CatalogueHeld', Attested(excluded')
    PROVE  CatalogueInv'
<1>1. PICK y : y = [work[c] EXCEPT !.step = "sent", !.basis = basis,
                         !.composed = NoStatement, !.pages = <<>>,
                         !.changes = 0, !.renders = renders]
  OBVIOUS
<1>2. work' = [work EXCEPT ![c] = y]
  BY <1>1 DEF Send
<1>3. GoodWork(c, work[c]) /\ work[c] \in Work
  BY Working
<1>4. /\ y.step = "sent" /\ y.basis = basis /\ y.composed = NoStatement
      /\ y.pages = <<>> /\ y.changes = 0 /\ y.generation = work[c].generation
      /\ y.renders = renders /\ y.kind = "call"
  BY <1>1, <1>3 DEF Work, Calling
<1>5. y.pages \in Seq(Statement) /\ y.composed \in Statement
  BY <1>4, Unstated
<1>6. y \in Work
  BY <1>1, <1>3, <1>4, <1>5 DEF Work
<1>7. UNCHANGED <<holder, under, last, changes>> /\ changes \in Nat /\ DOMAIN y.pages = {}
  BY <1>4 DEF exchangeVars, CatalogueInv, CatalogueHeld
<1>8. Read(y)'
  BY <1>4, <1>7 DEF Read
<1>9. GoodWork(c, y)'
  BY <1>3, <1>4, <1>6, <1>7, <1>8 DEF GoodWork, Composed, Carried, Standing
<1> QED
  BY <1>2, <1>7, <1>9, CallerGoesOn

LEMMA BeginsReading ==
    ASSUME CatalogueInv, NEW c \in Callers, NEW renders \in BOOLEAN, BeginReading(c, renders),
           Standing(c), Calling(c), At(c, "ask"),
           UNCHANGED <<exchangeVars, serverVars, changes, asking>>,
           CatalogueHeld', Attested(excluded')
    PROVE  CatalogueInv'
<1>1. PICK y : y = [work[c] EXCEPT !.step = "reading", !.changes = changes,
                                   !.renders = renders]
  OBVIOUS
<1>2. work' = [work EXCEPT ![c] = y]
  BY <1>1 DEF BeginReading
<1>3. GoodWork(c, work[c]) /\ work[c] \in Work
  BY Working
<1>4. /\ y.step = "reading" /\ y.composed = work[c].composed /\ y.kind = "call"
      /\ y.pages = work[c].pages /\ y.changes = changes
      /\ y.generation = work[c].generation
  BY <1>1, <1>3 DEF Work, Calling
<1>5. y.pages = <<>> /\ y.composed = NoStatement
  BY <1>3, <1>4 DEF GoodWork, Composed, Calling, At
<1>6. UNCHANGED <<holder, under, last, changes>> /\ changes \in Nat /\ DOMAIN y.pages = {}
  BY <1>5 DEF exchangeVars, CatalogueInv, CatalogueHeld
<1>7. y \in Work
  BY <1>1, <1>3, <1>6 DEF Work
<1>8. Read(y)'
  BY <1>5, <1>6 DEF Read
<1>9. GoodWork(c, y)'
  BY <1>3, <1>4, <1>5, <1>6, <1>7, <1>8 DEF GoodWork, Composed, Carried, Standing
<1> QED
  BY <1>2, <1>6, <1>9, CallerGoesOn

LEMMA CatalogueUntouched ==
    ASSUME CatalogueInv, UNCHANGED <<exchangeVars, serverVars, clientVars>>
    PROVE  CatalogueHeld' /\ Attested(excluded')
<1>1. CatalogueHeld'
  BY ExchangeStays, CatalogueStays DEF CatalogueInv, serverVars, clientVars
<1> QED
  BY <1>1, AttestedKnown DEF clientVars

\* The call looks at what is kept of its own connection.
LEMMA CatalogueForgets ==
    ASSUME CatalogueInv, catalogue' = Forget(catalogue, under.generation),
           UNCHANGED <<exchangeVars, serverVars, changes, excluded>>
    PROVE  /\ CatalogueHeld' /\ Attested(excluded')
           /\ Sound(Forget(catalogue, under.generation))
           /\ Forget(catalogue, under.generation).generation = under.generation
<1>1. PICK cat : cat = Forget(catalogue, under.generation)
  OBVIOUS
<1>2. under.generation \in 0..MaxGeneration
  BY Linked DEF CatalogueInv, ExchangeHeld, Link
<1>3. Sound(cat) /\ cat.generation = under.generation
  BY <1>1, <1>2, ForgetSound DEF CatalogueInv, CatalogueHeld
<1>4. CatalogueHeld'
  BY <1>1, <1>3, ExchangeStays, CatalogueBecomes DEF CatalogueInv, serverVars
<1> QED
  BY <1>1, <1>3, <1>4, AttestedKnown

LEMMA StatedOverIt ==
    ASSUME CatalogueInv, under # NoLink, NEW cat, Sound(cat),
           cat.generation = under.generation, NEW n \in 0..Pages
    PROVE  /\ Stated(cat, n) \in SUBSET Statement
           /\ \A s \in Stated(cat, n) : s.link = under
<1>1. under = last
  BY DEF CatalogueInv, ExchangeHeld
<1>2. \A s : Keeps(cat, s) => s.link = under
  BY <1>1 DEF Keeps, Settled
<1>3. /\ cat.whole \in Seq(Statement) /\ \A i \in DOMAIN cat.whole : Keeps(cat, cat.whole[i])
      /\ \A m \in 1..Pages : /\ cat.tools[m] \in Statement
                             /\ cat.tools[m] # NoStatement => Keeps(cat, cat.tools[m])
  BY DEF Sound, Catalogue
<1>4. CASE n # 0 /\ cat.tools[n] # NoStatement
  BY <1>2, <1>3, <1>4 DEF Stated
<1>5. CASE ~(n # 0 /\ cat.tools[n] # NoStatement)
  BY <1>2, <1>3, <1>5 DEF Stated
<1> QED
  BY <1>4, <1>5

LEMMA InvSendBare ==
    ASSUME CatalogueInv, NEW c \in Callers, SendBare(c) \/ ListingRefused(c)
    PROVE  CatalogueInv'
<1>1. /\ \E renders \in BOOLEAN : Send(c, {}, renders)
      /\ Standing(c) /\ Calling(c)
      /\ UNCHANGED <<exchangeVars, serverVars, clientVars, changes, asking>>
  BY Working DEF SendBare, ListingRefused, clientVars, At, Calling, GoodWork
<1> QED
  BY <1>1, CatalogueUntouched, Sends

LEMMA InvSendFromCatalogue ==
    ASSUME CatalogueInv, NEW c \in Callers, SendFromCatalogue(c)
    PROVE  CatalogueInv'
<1>1. /\ Standing(c) /\ Calling(c) /\ At(c, "ask") /\ under # NoLink
      /\ catalogue' = Forget(catalogue, under.generation)
      /\ UNCHANGED <<exchangeVars, serverVars, changes, excluded, asking>>
  BY DEF SendFromCatalogue, Standing
<1>2. PICK cat : cat = Forget(catalogue, under.generation)
  OBVIOUS
<1>3. /\ CatalogueHeld' /\ Attested(excluded') /\ Sound(cat)
      /\ cat.generation = under.generation
  BY <1>1, <1>2, CatalogueForgets
<1>4. CASE Send(c, Stated(cat, work[c].name), TRUE)
  <2>1. PICK basis : basis = Stated(cat, work[c].name)
    OBVIOUS
  <2>2. basis \in SUBSET Statement /\ \A s \in basis : s.link = under
    BY <1>1, <1>3, <2>1, Working, StatedOverIt DEF Work
  <2> QED
    BY <1>1, <1>3, <1>4, <2>1, <2>2, Sends
<1>5. CASE BeginReading(c, FALSE)
  BY <1>1, <1>3, <1>5, BeginsReading
<1> QED
  BY <1>1, <1>2, <1>4, <1>5 DEF SendFromCatalogue

LEMMA InvReadFirst ==
    ASSUME CatalogueInv, NEW c \in Callers, ReadFirst(c)
    PROVE  CatalogueInv'
<1>1. /\ Standing(c) /\ Calling(c) /\ At(c, "ask") /\ BeginReading(c, TRUE)
      /\ UNCHANGED <<exchangeVars, serverVars, changes, excluded, asking>>
      /\ catalogue' = Forget(catalogue, under.generation) \/ catalogue' = catalogue
  BY DEF ReadFirst
<1>2. CatalogueHeld' /\ Attested(excluded')
  BY <1>1, CatalogueUntouched, CatalogueForgets DEF clientVars
<1> QED
  BY <1>1, <1>2, BeginsReading

LEMMA InvHeldPageArrives ==
    ASSUME CatalogueInv, NEW c \in Callers, HeldPageArrives(c)
    PROVE  CatalogueInv'
<1>1. PICK x, read : x = work[c] /\ read = Append(x.pages, x.composed)
  OBVIOUS
<1>2. PICK y : y = [x EXCEPT !.pages = read, !.composed = NoStatement]
  OBVIOUS
<1>3. /\ UNCHANGED <<exchangeVars, serverVars, clientVars, asking>>
      /\ x.composed # NoStatement /\ x.step = "reading"
      /\ work' = [work EXCEPT ![c] = y]
  BY <1>1, <1>2 DEF HeldPageArrives, At
<1>4. GoodWork(c, x) /\ x \in Work
  BY <1>1, Working
<1>5. /\ y.step = x.step /\ y.composed = NoStatement /\ y.pages = read /\ y.kind = x.kind
      /\ y.changes = x.changes /\ y.generation = x.generation
  BY <1>2, <1>4 DEF Work
<1>6. read \in Seq(Statement)
  BY <1>1, <1>4, Appended DEF Work
<1>7. y \in Work
  BY <1>2, <1>4, <1>5, <1>6, Unstated DEF Work
<1>8. /\ Read(y) /\ under # NoLink
      /\ \A i \in DOMAIN y.pages : y.pages[i].link = under \/
            \E j \in DOMAIN x.pages : y.pages[i] = x.pages[j]
  <2>1. y.pages = Append(x.pages, x.composed)
    BY <1>1, <1>5
  <2> QED
    BY <1>3, <1>4, <1>5, <1>7, <2>1, ReadOneMore
<1>9. UNCHANGED <<last, holder, under, announced, changes, catalogue, excluded>>
  BY <1>3 DEF exchangeVars, serverVars, clientVars
<1>10. Grows /\ ExchangeHeld
  BY <1>3, ExchangeStays DEF CatalogueInv
<1>11. \A i \in DOMAIN y.pages : y.pages[i].link = under
  BY <1>3, <1>4, <1>8 DEF GoodWork
<1>12. GoodWork(c, y)'
  BY <1>3, <1>4, <1>5, <1>7, <1>8, <1>9, <1>10, <1>11, ReadStays
  DEF GoodWork, Composed, Carried
<1>13. \A i \in DOMAIN y.pages : Attested(y.pages[i].link)
  BY <1>8, <1>11, AttestedKnown DEF CatalogueInv, ExchangeHeld
<1> QED
  BY <1>3, <1>12, <1>13, CatalogueUntouched, CallerGoesOn DEF clientVars

\* What a call reads for itself is recorded over its own connection.
LEMMA InvLastHeldPageArrives ==
    ASSUME CatalogueInv, NEW c \in Callers, LastHeldPageArrives(c)
    PROVE  CatalogueInv'
<1>1. PICK x, pages, found, cat :
        /\ x = work[c] /\ pages = Append(x.pages, x.composed)
        /\ found = Found(x.name, pages)
        /\ cat = Recorded(pages, Pages, TRUE, under.generation, x.changes)
  OBVIOUS
<1>2. /\ Standing(c) /\ x.step = "reading" /\ x.composed # NoStatement
      /\ Len(x.pages) + 1 = Pages /\ catalogue' = cat /\ excluded' = ExcludedOf(pages)
      /\ UNCHANGED <<serverVars, changes, asking>>
  BY <1>1 DEF LastHeldPageArrives, At
<1>3. \/ Send(c, found, TRUE) /\ UNCHANGED exchangeVars
      \/ Ends(c) /\ work' = [work EXCEPT ![c] = Idle]
  BY <1>1 DEF LastHeldPageArrives
<1>4. GoodWork(c, x) /\ x \in Work
  BY <1>1, Working
<1>5. /\ under # NoLink /\ under = last /\ x.composed.link = under /\ Read(x)
      /\ x.pages \in Seq(Statement) /\ x.composed \in Statement
      /\ under.generation \in 0..MaxGeneration
  BY <1>2, <1>4 DEF GoodWork, Composed, Work, Standing, CatalogueInv, ExchangeHeld, Link
<1>6. /\ pages \in Seq(Statement) /\ Len(pages) = Pages
      /\ \A i \in DOMAIN pages :
            (i \in DOMAIN x.pages /\ pages[i] = x.pages[i]) \/ pages[i] = x.composed
  BY <1>1, <1>2, <1>5, Appended
<1>7. \A i \in DOMAIN pages : pages[i].link = under
  BY <1>2, <1>4, <1>5, <1>6 DEF GoodWork
<1>8. \A i \in DOMAIN pages : Settled(pages[i].link)
  BY <1>5, <1>7, LastSettled DEF CatalogueInv
<1>9. x.changes = changes => \A i \in DOMAIN pages : Recent(pages[i])
  BY <1>2, <1>5, <1>6 DEF Read
<1>10. Sound(cat)
  BY <1>1, <1>5, <1>6, <1>8, <1>9, RecordedSound DEF CatalogueInv
<1>11. /\ Grows /\ UNCHANGED <<announced, changes>> /\ last' \in Link /\ changes' \in Nat
       /\ ExchangeStep(c) \/ UNCHANGED exchangeVars
  BY <1>2, <1>3, ExchangeStays, ExchangeGoesOn
  DEF Ends, ExchangeStep, CatalogueInv, ExchangeHeld, CatalogueHeld, serverVars
<1>12. CatalogueHeld'
  BY <1>2, <1>10, <1>11, CatalogueBecomes DEF CatalogueInv
<1>13. Attested(excluded')
  <2>1. \A i \in DOMAIN pages : Attested(pages[i].link)
    BY <1>5, <1>7, AttestedKnown
  <2> QED
    BY <1>2, <1>6, <2>1, ExcludedAttested DEF CatalogueInv
<1>14. found \in SUBSET Statement /\ \A s \in found : s.link = under
  <2>1. DOMAIN pages = 1..Pages /\ x.name \in 0..Pages
    BY <1>4, <1>6 DEF Work
  <2>2. CASE x.name = 0
    BY <1>1, <1>6, <1>7, <2>2 DEF Found
  <2>3. CASE x.name # 0
    <3>1. x.name \in DOMAIN pages /\ found = {pages[x.name]}
      BY <1>1, <2>1, <2>3 DEF Found
    <3> QED
      BY <1>6, <1>7, <3>1
  <2> QED
    BY <2>2, <2>3
<1>15. CASE Send(c, found, TRUE) /\ UNCHANGED exchangeVars
  <2>1. Calling(c)
    BY <1>1, <1>2, <1>4 DEF GoodWork, Calling
  <2> QED
    BY <1>2, <1>12, <1>13, <1>14, <1>15, <2>1, Sends
<1>16. CASE Ends(c) /\ work' = [work EXCEPT ![c] = Idle]
  <2>1. GoodWork(c, Idle)'
    BY <1>11, IdleWorks
  <2>2. \A i \in DOMAIN Idle.pages : Attested(Idle.pages[i].link)
    BY DEF Idle
  <2> QED
    BY <1>2, <1>11, <1>12, <1>13, <1>16, <2>1, <2>2, CallerGoesOn
<1> QED
  BY <1>3, <1>15, <1>16

LEMMA InvHeaderMismatch ==
    ASSUME CatalogueInv, NEW c \in Callers, HeaderMismatch(c)
    PROVE  CatalogueInv'
<1>1. PICK x, y : /\ x = work[c]
                  /\ y = [Idle EXCEPT !.kind = "call", !.step = "ask", !.name = x.name,
                                      !.repeats = TRUE, !.rejected = x.basis]
  OBVIOUS
<1>2. /\ ExchangeStep(c) /\ Fail(c) /\ x.step = "sent"
      /\ UNCHANGED <<serverVars, clientVars, asking>>
      /\ work' = [work EXCEPT ![c] = y]
  BY <1>1 DEF HeaderMismatch, ExchangeStep, Ends, At
<1>3. x \in Work /\ GoodWork(c, x)
  BY <1>1, Working
<1>4. Idle \in Work
  BY Unstated DEF Idle, Work
<1>5. /\ Idle.pages = <<>> /\ Idle.composed = NoStatement /\ Idle.changes = 0
      /\ Idle.generation = 0
  BY DEF Idle
<1>6. /\ y.step = "ask" /\ y.kind = "call" /\ y.name = x.name /\ y.rejected = x.basis
      /\ y.pages = Idle.pages /\ y.composed = Idle.composed /\ y.changes = Idle.changes
      /\ y.generation = Idle.generation
  BY <1>1, <1>4 DEF Work
<1>7. "call" \in Kinds \cup {"none"}
  BY <1>2, <1>3 DEF Work, GoodWork
<1>8. y \in Work
  BY <1>1, <1>3, <1>4, <1>6, <1>7 DEF Work
<1>9. last' \in Link /\ changes' \in Nat
  BY <1>2, ExchangeGoesOn DEF CatalogueInv, ExchangeHeld, CatalogueHeld, clientVars
<1>10. GoodWork(c, y)'
  BY <1>5, <1>6, <1>8, <1>9 DEF GoodWork, Read, Composed, Carried, Link
<1> QED
  BY <1>2, <1>5, <1>6, <1>10, CallerMovesOn

(* ---------------- the world around, and the readers ---------------- *)

LEMMA WorldGoesOn ==
    ASSUME CatalogueInv, ExchangeHeld', Grows, Handed, ServerHeld',
           UNCHANGED <<holder, under, announced, clientVars, work, asking>>
    PROVE  CatalogueInv'
<1>1. CatalogueHeld'
  BY CatalogueStays DEF CatalogueInv, clientVars
<1>2. ASSUME NEW c, NEW x, GoodWork(c, x) PROVE GoodWork(c, x)'
  BY <1>2, WorkStays DEF CatalogueInv, clientVars
<1>3. WorkHeld'
  BY <1>2 DEF CatalogueInv, WorkHeld
<1>4. ContextsHeld'
  BY AttestedKnown, ContextsGoOn DEF CatalogueInv, ContextsHeld, clientVars
<1> QED
  BY <1>1, <1>3, <1>4 DEF CatalogueInv

LEMMA InvWorld ==
    ASSUME CatalogueInv,
           \/ Tick \/ ServerChanges \/ UNCHANGED vars
           \/ \E k \in Credentials :
                 Present(k) /\ UNCHANGED <<serverVars, clientVars, work, asking>>
    PROVE  CatalogueInv'
<1>1. CASE Tick \/ ServerChanges \/ UNCHANGED vars
  <2>1. ServerHeld'
    <3>1. CASE Tick
      BY <3>1 DEF Tick, CatalogueInv, ServerHeld
    <3>2. CASE ServerChanges
      BY <3>2 DEF ServerChanges, CatalogueInv, ServerHeld
    <3>3. CASE UNCHANGED vars
      BY <3>3, ServerStays DEF vars, CatalogueInv
    <3> QED
      BY <1>1, <3>1, <3>2, <3>3
  <2> QED
    BY <1>1, <2>1, ExchangeStays, WorldGoesOn
    DEF Tick, ServerChanges, vars, CatalogueInv, exchangeVars, serverVars
<1>2. CASE \E k \in Credentials :
              Present(k) /\ UNCHANGED <<serverVars, clientVars, work, asking>>
  BY <1>2, ExchangePresents, ServerStays, WorldGoesOn DEF CatalogueInv, Present, serverVars
<1> QED
  BY <1>1, <1>2

LEMMA InvAnnounced ==
    ASSUME CatalogueInv, NEW r \in 1..MaxRevision, Announced(r)
    PROVE  CatalogueInv'
<1>1. /\ UNCHANGED <<exchangeVars, now, revision, excluded, work, asking>>
      /\ r \in pending /\ pending' = pending \ {r} /\ changes' = changes + 1
      /\ announced' = IF r > announced THEN r ELSE announced
      /\ catalogue' = Nothing(catalogue.generation)
  BY DEF Announced
<1>2. ExchangeHeld' /\ Grows /\ Handed
  BY <1>1, ExchangeStays DEF CatalogueInv
<1>3. ServerHeld'
  BY <1>1 DEF CatalogueInv, ServerHeld
<1>4. UNCHANGED <<last, holder, under>>
  BY <1>1 DEF exchangeVars
<1>5. CatalogueHeld'
  <2>1. PICK cat : cat = Nothing(catalogue.generation)
    OBVIOUS
  <2>2. cat \in Catalogue /\ \A n \in 1..Pages : cat.tools[n] = NoStatement
    BY <2>1, NothingSound DEF CatalogueInv, CatalogueHeld, Sound, Catalogue, Nothing
  <2>3. DOMAIN cat.whole = {}
    BY <2>1 DEF Nothing
  <2> QED
    BY <1>1, <2>1, <2>2, <2>3 DEF CatalogueInv, CatalogueHeld, Sound
<1>6. ASSUME NEW c, NEW x, GoodWork(c, x) PROVE GoodWork(c, x)'
  <2>1. x.changes \in Nat /\ x.changes <= changes /\ changes \in Nat
    BY <1>6 DEF GoodWork, Work, CatalogueInv, CatalogueHeld
  <2>2. x.changes # changes' /\ x.changes <= changes'
    BY <1>1, <2>1
  <2>3. Read(x)'
    BY <1>4, <1>6, <2>2 DEF GoodWork, Read, Settled
  <2> QED
    BY <1>4, <1>6, <2>2, <2>3 DEF GoodWork, Composed, Carried
<1>7. WorkHeld'
  BY <1>1, <1>6 DEF CatalogueInv, WorkHeld
<1>8. ContextsHeld'
  BY <1>1, <1>2, AttestedKnown, ContextsGoOn DEF CatalogueInv, ContextsHeld
<1> QED
  BY <1>2, <1>3, <1>5, <1>7, <1>8 DEF CatalogueInv

LEMMA InvReader ==
    ASSUME CatalogueInv, NEW r \in Readers, ResolveContext(r) \/ ShowExcluded(r)
    PROVE  CatalogueInv'
<1>1. PICK a :
        /\ asking' = [asking EXCEPT ![r] = a]
        /\ \/ a = NotAsking
           \/ a = [step |-> "resolved", authorization |-> ContextNow, cred |-> cred,
                   settled |-> ContextNow = authorization]
  BY DEF ResolveContext, ShowExcluded
<1>2. UNCHANGED <<exchangeVars, serverVars, clientVars, work>>
  BY DEF ResolveContext, ShowExcluded
<1>3. a.settled /\ Transport = "http" => Attested(a)
  <2>1. CASE a = NotAsking
    BY <2>1 DEF NotAsking
  <2>2. CASE a = [step |-> "resolved", authorization |-> ContextNow, cred |-> cred,
                  settled |-> ContextNow = authorization]
    <3> SUFFICES ASSUME a.settled, Transport = "http" PROVE Attested(a)
      OBVIOUS
    <3>1. a.authorization = ContextNow /\ a.cred = cred /\ ContextNow = authorization
      BY <2>2
    <3>2. authorization \in Nat
      BY DEF CatalogueInv, ExchangeHeld
    <3>3. bearer = cred
      BY <3>1, <3>2 DEF ContextNow
    <3> QED
      BY <3>1, <3>2, <3>3 DEF Attested, Owned, OwnersHeld
  <2> QED
    BY <1>1, <2>1, <2>2
<1>4. ExchangeHeld' /\ Grows /\ Handed
  BY <1>2, ExchangeStays DEF CatalogueInv
<1>5. /\ asking' = [q \in Readers |-> asking'[q]]
      /\ \A q \in Readers : asking'[q].settled /\ Transport = "http" => Attested(asking'[q])
  BY <1>1, <1>3, AttestedKnown DEF CatalogueInv, ContextsHeld
<1>6. ContextsHeld'
  BY <1>2, <1>4, <1>5, AttestedKnown, ContextsGoOn DEF CatalogueInv, clientVars
<1>7. ServerHeld' /\ CatalogueHeld'
  BY <1>2, ServerStays, CatalogueUntouched DEF CatalogueInv
<1>8. ASSUME NEW c, NEW x, GoodWork(c, x) PROVE GoodWork(c, x)'
  BY <1>2, <1>4, <1>8, WorkStays DEF CatalogueInv, exchangeVars, serverVars, clientVars
<1>9. WorkHeld'
  BY <1>2, <1>8 DEF CatalogueInv, WorkHeld
<1> QED
  BY <1>4, <1>6, <1>7, <1>9 DEF CatalogueInv

(* ---------------- the specification ---------------- *)

LEMMA InvInit == Init => CatalogueInv
<1> SUFFICES ASSUME Init PROVE CatalogueInv
  OBVIOUS
<1>1. ExchangeHeld
  BY Linked DEF Init, ExchangesInit, ExchangeHeld, ContextNow, AnyCredential
<1>2. ServerHeld
  BY DEF Init, ServerHeld
<1>3. CatalogueHeld
  BY NothingSound DEF Init, CatalogueHeld
<1>4. WorkHeld
  <2>1. Idle \in Work /\ DOMAIN Idle.pages = {} /\ Idle.composed = NoStatement
    BY Unstated DEF Idle, Work
  <2>2. /\ Idle.step = "none" /\ Idle.changes = 0 /\ Idle.generation = 0
        /\ Idle.kind = "none"
    BY DEF Idle
  <2>3. changes = 0 /\ last.generation = 0
    BY Linked DEF Init, ExchangesInit
  <2>4. \A c : GoodWork(c, Idle)
    BY <2>1, <2>2, <2>3 DEF GoodWork, Read, Composed, Carried
  <2> QED
    BY <2>4 DEF Init, WorkHeld
<1>5. ContextsHeld
  <2> DEFINE owner == [a \in 0..MaxAuthorization |-> NoCredential]
  <2>1. owner \in Owners /\ owner[0] = NoCredential
    BY DEF Owners, AnyCredential
  <2>2. authorization = 0 /\ bearer = NoCredential /\ last = NoLink
    BY DEF Init, ExchangesInit
  <2>3. Owned(owner, last) /\ Owned(owner, excluded)
    BY <2>1, <2>2 DEF Init, Owned, NoLink
  <2>4. \A c \in Callers : DOMAIN work[c].pages = {}
    <3>1. DOMAIN Idle.pages = {}
      BY DEF Idle
    <3> QED
      BY <3>1 DEF Init
  <2>5. \A r \in Readers : ~asking[r].settled
    BY DEF Init, NotAsking
  <2> HIDE DEF owner
  <2> QED
    BY <2>1, <2>2, <2>3, <2>4, <2>5 DEF Init, ContextsHeld, OwnersHeld
<1> QED
  BY <1>1, <1>2, <1>3, <1>4, <1>5 DEF CatalogueInv

LEMMA InvNext == CatalogueInv /\ [Next]_vars => CatalogueInv'
<1> SUFFICES ASSUME CatalogueInv, [Next]_vars PROVE CatalogueInv'
  OBVIOUS
<1>1. ASSUME NEW c \in Callers, CallerStep(c) PROVE CatalogueInv'
  BY <1>1, InvStart, InvWaiting, InvLeaving, InvStartOver, InvAsking, InvCredentialChanged,
     InvPageArrives, InvReadGeneration, InvRecord, InvSendBare, InvSendFromCatalogue,
     InvReadFirst, InvHeldPageArrives, InvLastHeldPageArrives, InvHeaderMismatch
  DEF CallerStep
<1> QED
  BY <1>1, InvReader, InvAnnounced, InvWorld DEF Next

\* What is known of links, statements and contexts holds however listings,
\* calls, handshakes, announcements and readers interleave (listOn,
\* recordListing, mirroring, ExcludedTools).
THEOREM CatalogueInvariant == Spec => []CatalogueInv
BY InvInit, InvNext, PTL DEF Spec

\* A call is rendered from what was stated over the very connection it travels
\* on, through any number of handshakes between a listing, its record and the
\* call (forgetOtherConnection, readOn, mirroring).
THEOREM CallsAreMirrored == Spec => []MirroredOverItsConnection
<1>1. CatalogueInv => MirroredOverItsConnection
  BY DEF CatalogueInv, WorkHeld, GoodWork, Carried, MirroredOverItsConnection, At
<1> QED
  BY <1>1, CatalogueInvariant, PTL

\* An announcement outdates what was read before it, the listings in progress
\* included (serverNotified, recordListing).
THEOREM ChangesOutdate == Spec => []AnnouncedOutdates
<1>1. CatalogueInv => AnnouncedOutdates
  BY DEF CatalogueInv, CatalogueHeld, Sound, Keeps, Recent, AnnouncedOutdates
<1> QED
  BY <1>1, CatalogueInvariant, PTL

\* The pages of a listing answer one credential, however often it is replaced
\* and the connection settled anew between them (listOn).
THEOREM ListingsAreOneCallers == Spec => []ListingOfOneCaller
<1>1. CatalogueInv => ListingOfOneCaller
  <2> SUFFICES ASSUME CatalogueInv, NEW c \in Callers,
                      NEW i \in DOMAIN work[c].pages, NEW j \in DOMAIN work[c].pages
               PROVE  work[c].pages[i].link.cred = work[c].pages[j].link.cred
    BY DEF ListingOfOneCaller
  <2>1. PICK owner \in Owners : OwnersHeld(owner)
    BY DEF CatalogueInv, ContextsHeld
  <2>2. work[c].pages[i].link.authorization = work[c].pages[j].link.authorization
    BY Working DEF GoodWork, Read
  <2> QED
    BY <2>1, <2>2 DEF OwnersHeld, Owned
<1> QED
  BY <1>1, CatalogueInvariant, PTL

\* The names of one credential's listing are not shown to another's caller,
\* where the credential in use is the one presented (ExcludedTools).
THEOREM ExclusionsKeepTheirContext == Spec => []ExcludedShownInItsContext
<1>1. CatalogueInv => ExcludedShownInItsContext
  <2> SUFFICES ASSUME CatalogueInv, NEW r \in Readers,
                      ShownTo(r), asking[r].settled, Transport = "http"
               PROVE  excluded.cred = asking[r].cred
    BY DEF ExcludedShownInItsContext
  <2>1. PICK owner \in Owners : OwnersHeld(owner)
    BY DEF CatalogueInv, ContextsHeld
  <2> QED
    BY <2>1 DEF OwnersHeld, Owned, ShownTo
<1> QED
  BY <1>1, CatalogueInvariant, PTL

(* ---------------- what a call may rest on ---------------- *)

LEMMA UntilTyped ==
    ASSUME NEW pages \in Seq(Statement)
    PROVE  \A i \in DOMAIN pages : pages[i].until \in Nat
<1>1. \A i \in DOMAIN pages : pages[i] \in Statement
  OBVIOUS
<1> QED
  BY <1>1 DEF Statement

\* A non-empty listing has a page that goes stale first.
LEMMA LeastExists ==
    ASSUME NEW pages \in Seq(Statement), pages # <<>>
    PROVE  \E t \in {pages[i].until : i \in DOMAIN pages} :
              \A i \in DOMAIN pages : t <= pages[i].until
<1> DEFINE T == {pages[i].until : i \in DOMAIN pages}
<1>1. T \subseteq Nat /\ T # {}
  <2>1. 1 \in DOMAIN pages
    OBVIOUS
  <2> QED
    BY <2>1, UntilTyped
<1>2. PICK x \in T : \A y \in T : ~(<<y, x>> \in OpToRel(<, Nat))
  <2> HIDE DEF T
  <2> QED
    BY <1>1, NatLessThanWellFounded, WFMin
<1>3. ASSUME NEW y \in T, y < x PROVE FALSE
  <2>1. <<y, x>> \in OpToRel(<, Nat)
    BY <1>1, <1>3 DEF OpToRel
  <2> QED
    BY <1>2, <2>1
<1>4. \A y \in T : x <= y
  <2> HIDE DEF T
  <2> QED
    BY <1>1, <1>3
<1> QED
  BY <1>2, <1>4

LEMMA FirstToGoStale ==
    ASSUME NEW pages \in Seq(Statement), pages # <<>>
    PROVE  /\ WholeUntil(pages) \in Nat
           /\ \A i \in DOMAIN pages : WholeUntil(pages) <= pages[i].until
<1>1. /\ WholeUntil(pages) \in {pages[i].until : i \in DOMAIN pages}
      /\ \A i \in DOMAIN pages : WholeUntil(pages) <= pages[i].until
  BY LeastExists DEF WholeUntil
<1> QED
  BY <1>1, UntilTyped

LEMMA StatedFresh ==
    ASSUME CatalogueInv, NEW cat, Sound(cat), NEW n \in 0..Pages, Known(cat, n)
    PROVE  \A s \in Stated(cat, n) : now < s.until
<1>1. cat.whole \in Seq(Statement) /\ \A m \in 1..Pages : cat.tools[m] \in Statement
  BY DEF Sound, Catalogue
<1>2. CASE n # 0 /\ cat.tools[n] # NoStatement
  BY <1>2 DEF Stated, Known
<1>3. CASE ~(n # 0 /\ cat.tools[n] # NoStatement)
  <2>1. cat.whole # <<>> /\ now < WholeUntil(cat.whole)
    BY <1>3 DEF Known
  <2>2. \A i \in DOMAIN cat.whole : /\ WholeUntil(cat.whole) <= cat.whole[i].until
                                    /\ cat.whole[i].until \in Nat
    BY <1>1, <2>1, FirstToGoStale, UntilTyped
  <2>3. now \in Nat
    BY DEF CatalogueInv, ServerHeld
  <2>4. WholeUntil(cat.whole) \in Nat
    BY <1>1, <2>1, FirstToGoStale
  <2> QED
    BY <1>3, <2>1, <2>2, <2>3, <2>4 DEF Stated
<1> QED
  BY <1>2, <1>3

\* The step by which a caller comes to send, from what the step reads.
SentFresh ==
    \A c \in Callers :
        work[c].step = "ask" /\ work'[c].step = "sent" => \A s \in work'[c].basis : now < s.until

LEMMA SentFreshOf ==
    ASSUME CatalogueInv, NEW c \in Callers, NEW y, work' = [work EXCEPT ![c] = y],
           work[c].step = "ask" /\ y.step = "sent" => \A s \in y.basis : now < s.until
    PROVE  SentFresh
BY DEF CatalogueInv, WorkHeld, SentFresh

LEMMA SentFreshStays == ASSUME UNCHANGED work PROVE SentFresh
BY DEF SentFresh

LEMMA SendsFresh ==
    ASSUME CatalogueInv, NEW c \in Callers, NEW basis, NEW renders, Send(c, basis, renders),
           \A s \in basis : now < s.until
    PROVE  SentFresh
<1>1. PICK y : y = [work[c] EXCEPT !.step = "sent", !.basis = basis,
                         !.composed = NoStatement, !.pages = <<>>,
                         !.changes = 0, !.renders = renders]
  OBVIOUS
<1>2. work' = [work EXCEPT ![c] = y] /\ work[c] \in Work
  BY <1>1, Working DEF Send
<1>3. y.basis = basis
  BY <1>1, <1>2 DEF Work
<1> QED
  BY <1>2, <1>3, SentFreshOf

LEMMA CallerFresh ==
    ASSUME CatalogueInv, NEW c \in Callers, CallerStep(c)
    PROVE  SentFresh
<1>1. work[c] \in Work /\ \A d \in Callers : work[d] \in Work
  BY Working
<1>2. ASSUME work[c].step # "ask" \/ work'[c].step # "sent",
             \A d \in Callers \ {c} : work'[d] = work[d]
      PROVE  SentFresh
  BY <1>2, SMTT(30) DEF SentFresh
<1>3. \A d \in Callers \ {c} : work'[d] = work[d]
  BY DEF CatalogueInv, WorkHeld, CallerStep, Start, TakeGate, Abandon, Connect, StartOver,
     GiveUp, AskPage, AskHeldPage, Compose, CredentialChanged, PageArrives, BadPage,
     ReadGeneration, Record, SendBare, SendFromCatalogue, ReadFirst, BeginReading, Send,
     HeldPageArrives, LastHeldPageArrives, ListingRefused, CallAnswered, HeaderMismatch
<1>4. CASE SendBare(c) \/ ListingRefused(c)
  <2>1. PICK renders : Send(c, {}, renders)
    BY <1>4 DEF SendBare, ListingRefused
  <2> QED
    BY <2>1, SendsFresh
<1>5. CASE SendFromCatalogue(c)
  <2>1. PICK cat : cat = Forget(catalogue, under.generation)
    OBVIOUS
  <2>2. /\ Sound(cat) /\ Known(cat, work[c].name) /\ work[c].name \in 0..Pages
    BY <1>1, <1>5, <2>1, CatalogueForgets DEF SendFromCatalogue, Work
  <2>3. CASE Send(c, Stated(cat, work[c].name), TRUE)
    BY <2>2, <2>3, StatedFresh, SendsFresh
  <2>4. CASE BeginReading(c, FALSE)
    BY <1>1, <1>2, <1>3, <2>4 DEF BeginReading, Work, CatalogueInv, WorkHeld
  <2> QED
    BY <1>5, <2>1, <2>3, <2>4 DEF SendFromCatalogue
<1>6. CASE work[c].step # "ask"
  BY <1>2, <1>3, <1>6
<1>7. CASE TakeGate(c) \/ Connect(c)
  BY <1>7, SentFreshStays DEF TakeGate, Connect
<1>8. CASE Start(c) \/ Abandon(c) \/ GiveUp(c)
  <2>1. Idle.step = "none"
    BY DEF Idle
  <2>2. CASE Start(c)
    <3>1. PICK k, n, y :
            /\ work' = [work EXCEPT ![c] = y]
            /\ y = [Idle EXCEPT !.kind = k, !.name = n,
                                !.step = IF k = "empty" THEN "record" ELSE "ask",
                                !.changes = IF k = "call" THEN 0 ELSE changes]
      BY <2>2 DEF Start
    <3>2. y.step # "sent"
      BY <3>1 DEF Idle
    <3> QED
      BY <3>1, <3>2, SentFreshOf
  <2>3. CASE Abandon(c) \/ GiveUp(c)
    BY <2>1, <2>3, SentFreshOf DEF Abandon, GiveUp
  <2> QED
    BY <1>8, <2>2, <2>3
<1>9. CASE StartOver(c) \/ AskPage(c) \/ ReadFirst(c)
  <2>1. CASE StartOver(c)
    BY <1>1, <1>2, <1>3, <2>1 DEF StartOver, Work, CatalogueInv, WorkHeld
  <2>2. CASE AskPage(c)
    <3>1. PICK s : work' = [work EXCEPT ![c].step = "asked", ![c].composed = s]
      BY <2>2 DEF AskPage, Compose
    <3> QED
      BY <1>1, <1>2, <1>3, <3>1 DEF Work, CatalogueInv, WorkHeld
  <2>3. CASE ReadFirst(c)
    BY <1>1, <1>2, <1>3, <2>3 DEF ReadFirst, BeginReading, Work, CatalogueInv, WorkHeld
  <2> QED
    BY <1>9, <2>1, <2>2, <2>3
<1>10. CASE CredentialChanged(c)
  BY <1>1, <1>2, <1>3, <1>10 DEF CredentialChanged, At, Idle, Work, CatalogueInv, WorkHeld
<1> QED
  BY <1>4, <1>5, <1>6, <1>7, <1>8, <1>9, <1>10
  DEF CallerStep, At, AskHeldPage, PageArrives, BadPage, ReadGeneration, Record,
      HeldPageArrives, LastHeldPageArrives, CallAnswered, HeaderMismatch

LEMMA NextFresh == CatalogueInv /\ [Next]_vars => SentFresh
<1> SUFFICES ASSUME CatalogueInv, [Next]_vars PROVE SentFresh
  OBVIOUS
<1>1. \A r : ResolveContext(r) \/ ShowExcluded(r) \/ Announced(r) => UNCHANGED work
  BY DEF ResolveContext, ShowExcluded, Announced
<1>2. Tick \/ ServerChanges \/ UNCHANGED vars => UNCHANGED work
  BY DEF Tick, ServerChanges, vars
<1> QED
  BY <1>1, <1>2, SentFreshStays, CallerFresh DEF Next

\* A call rests on no definition past the time the server lets it be kept, nor
\* on the absence of one past that of any page of the listing (statedFor,
\* wholeUntil).
THEOREM CallsRestOnTheFresh == Spec => KeptWhileFresh
<1>1. CatalogueInv /\ [Next]_vars
        => [\A c \in Callers :
               work[c].step = "ask" /\ work'[c].step = "sent"
               => \A s \in work'[c].basis : now < s.until]_vars
  BY NextFresh DEF SentFresh
<1> QED
  BY <1>1, CatalogueInvariant, PTL DEF Spec, KeptWhileFresh
=============================================================================
